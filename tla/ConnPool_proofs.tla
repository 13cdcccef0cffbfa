-------------------------- MODULE ConnPool_proofs --------------------------
(***************************************************************************)
(* Proofs about the connection pool, for any number of clients, calls and  *)
(* connections, any configurations and any size of eviction_ch.            *)
(***************************************************************************)
EXTENDS ConnPool, SequenceFacts

-----------------------------------------------------------------------------
(* The inductive invariant *)

ClientPlaces ==
  {"idle", "get", "try", "try_push", "try_pop", "get_push", "can_create", "create", "factory",
   "recheck", "insert", "count", "enqueue", "waiting", "using", "put_sub", "put_check", "reset",
   "put_all", "put_push"}
MaintPlaces == Pruning \cup {"select", "finished"}
Closing == {"join", "close_all", "close_queue", "close_notify", "close_reset", "closed"}
MainPlaces == Pruning \cup {"ready", "admin_push"} \cup Closing

Trying == {"try", "try_push", "try_pop"}
Holding ==
  {"get_push", "recheck", "insert", "count", "using", "put_sub", "put_check", "reset", "put_all"}
Making == {"create", "factory", "check_closed", "add", "add_all"}
HoldIdle == {"try_push", "try_pop", "put_all", "put_push", "look", "add_all", "close_all"}

(* Every thread is somewhere in its own code, and a mutex has the holder that is *)
(* between its lock and its unlock.                                              *)
LockInv ==
  /\ pc \in [Proc -> Places]
  /\ \A c \in Client : pc[c] \in ClientPlaces
  /\ pc[Maint] \in MaintPlaces /\ pc[Main] \in MainPlaces
  /\ idleMx \in Proc \cup {Free} /\ \A p \in Proc : idleMx = p <=> pc[p] \in HoldIdle
  /\ allMx \in Proc \cup {Free} /\ \A p \in Proc : allMx = p <=> pc[p] = "put_push"
  /\ createMx \in Proc \cup {Free} /\ \A p \in Proc : createMx = p <=> pc[p] = "factory"

(* try_get knows which of its callers it returns to. *)
StageInv ==
  /\ stage \in [Client -> {"none", "first", "second", "last"}]
  /\ \A c \in Client : stage[c] = "none" <=> pc[c] \notin Trying

(* A client has one connection in its hands or none, and maintenance those it has *)
(* made, in the places where the code has them in a local variable.               *)
HandInv ==
  /\ mine \in [Proc -> Seq(Conn)]
  /\ \A c \in Client : pc[c] \in Holding => Len(mine[c]) = 1
  /\ \A c \in Client : pc[c] \notin Holding => mine[c] = <<>>
  /\ \A p \in {Main, Maint} : pc[p] \notin Making => mine[p] = <<>>

(* The loops of prune_connections stay within the idle pool, which cannot change *)
(* behind their back, and within what is to be created.                          *)
LoopInv ==
  /\ left \in [Proc -> Nat]
  /\ \A p \in {Main, Maint} : pc[p] \in {"create", "factory"} => left[p] > 0
  /\ \A p \in {Main, Maint} : pc[p] = "look" => left[p] <= Len(idle_pool)

(* No configuration that a thread has read allows more than limit connections. *)
LimitInv ==
  /\ config \in Configs /\ snap \in [Proc -> Configs] /\ limit \in Nat
  /\ config.max_conns <= limit
  /\ \A p \in Proc : snap[p].max_conns <= limit
  /\ Cardinality(all_conns) <= limit

(* Where the connections are. *)
OwnInv ==
  /\ all_conns \subseteq Conn /\ open \subseteq Conn /\ idle_pool \in Seq(Conn)
  /\ IsInjective(idle_pool)
  /\ Range(idle_pool) \subseteq all_conns \cap open
  /\ \A p \in Proc : IsInjective(mine[p])
  /\ \A p \in Proc : Range(mine[p]) \cap Range(idle_pool) = {}
  /\ \A p \in Proc : Range(mine[p]) \cap all_conns \subseteq open
  /\ \A p, q \in Proc : p # q => Range(mine[p]) \cap Range(mine[q]) = {}
  /\ \A k \in open : k \in Range(idle_pool) \/ \E p \in Proc : k \in Range(mine[p])

(* A connection that has just been made is open, and the pool does not know it yet. *)
NewInv ==
  /\ \A c \in Client : pc[c] \in {"recheck", "insert"} => Range(mine[c]) \subseteq open \ all_conns
  /\ \A p \in {Main, Maint} : Range(mine[p]) \subseteq open \ all_conns

(* close sets is_closed, waits for maintenance to finish, and then takes the pool apart. *)
OrderInv ==
  /\ is_closed \in BOOLEAN
  /\ is_closed <=> pc[Main] \in Closing
  /\ pc[Main] \in Closing \ {"join"} => pc[Maint] = "finished"

(* A client that uses a connection of a pool that is not closed has one that the  *)
(* pool knows; what a client brings back after close is not put into the pool.    *)
Emptied == {"close_queue", "close_notify", "close_reset", "closed"}

KnownInv ==
  /\ ~is_closed => \A c \in Client : pc[c] \in {"get_push", "count", "using", "put_sub", "put_check"}
                                       => Range(mine[c]) \subseteq all_conns \cap open
  /\ pc[Main] \in Emptied =>
       /\ Range(idle_pool) = {}
       /\ \A c \in Client : pc[c] \in {"reset", "put_all"}
                              => Range(mine[c]) \cap all_conns = {}

(* A get that has been notified or is on the list of close does not wait in the *)
(* queue again before it returns or looks whether the pool is closed.           *)
Leaving(c) ==
  \/ pc[c] \in {"waiting", "idle", "using", "put_sub", "put_check", "reset", "put_all", "put_push"}
  \/ stage[c] = "last"

WaitInv ==
  /\ wait_queue \in Seq(Client) /\ IsInjective(wait_queue)
  /\ \A c \in Range(wait_queue) : pc[c] = "waiting" /\ ~notified[c]
  /\ notified \in [Client -> BOOLEAN]
  /\ \A c \in Client : notified[c] => Leaving(c)
  /\ gets \in [Client -> Nat]
  /\ waiters \in Seq(Client \X Nat)
  /\ \A i, j \in 1 .. Len(waiters) : waiters[i][1] = waiters[j][1] => i = j
  /\ \A w \in Range(waiters) :
       /\ gets[w[1]] <= w[2]
       /\ InGet(w[1]) /\ gets[w[1]] = w[2]
            => Leaving(w[1]) /\ ~notified[w[1]] /\ w[1] \notin Range(wait_queue)

CountInv ==
  /\ {stop_ch, evClosed, panicked, pending} \subseteq BOOLEAN
  /\ active_count \in Int /\ admin \in Nat
  /\ events \in 0 .. eviction_ch_cap

IInv ==
  /\ LockInv /\ StageInv /\ HandInv /\ LoopInv /\ LimitInv
  /\ OwnInv /\ NewInv /\ OrderInv /\ KnownInv /\ WaitInv /\ CountInv
  /\ ActiveCounted

(* A step of a client preserves the places of the threads and the holders of the *)
(* mutexes.                                                                      *)
LEMMA LockClient ==
  ASSUME LockInv, StageInv, NEW c \in Client,
         GetBegins(c) \/ PutBegins(c) \/ ClientStep(c)
  PROVE  LockInv'
<1> USE ConnPoolAssumption
    DEF LockInv, Goto, Proc, Places, ClientPlaces, MaintPlaces, MainPlaces, Pruning, Closing,
        HoldIdle, mxVars
<1>1. CASE CreateLocks(c)
  BY <1>1 DEF CreateLocks
<1>2. CASE CreateSucceeds(c)
  BY <1>2 DEF CreateSucceeds, Created
<1>3. CASE CreateFails(c)
  BY <1>3 DEF CreateFails, Created
<1>4. CASE TryLocks(c)
  BY <1>4 DEF TryLocks, LocksIdle
<1>5. CASE TryPushes(c)
  BY <1>5 DEF TryPushes, Push
<1>6. CASE TryTakes(c)
  BY <1>6 DEF TryTakes, TryReturns
<1>7. CASE TryDrops(c)
  BY <1>7 DEF TryDrops, Discards
<1>8. CASE TryNone(c)
  BY <1>8 DEF TryNone, TryReturns, StageInv, Trying
<1>9. CASE GetBegins(c)
  BY <1>9 DEF GetBegins
<1>10. CASE GetLoops(c)
  BY <1>10 DEF GetLoops, CallsTry
<1>11. CASE GetPushes(c)
  BY <1>11 DEF GetPushes, Push
<1>12. CASE GetChecks(c)
  BY <1>12 DEF GetChecks, CallsTry
<1>13. CASE GetRechecks(c)
  BY <1>13 DEF GetRechecks, Drop, Holds
<1>14. CASE GetInserts(c)
  BY <1>14 DEF GetInserts, Drop, Holds, CallsTry
<1>15. CASE GetGivesUp(c)
  BY <1>15 DEF GetGivesUp
<1>16. CASE GetEnqueues(c)
  BY <1>16 DEF GetEnqueues
<1>17. CASE GetWakes(c)
  BY <1>17 DEF GetWakes
<1>18. CASE GetTimesOut(c)
  BY <1>18 DEF GetTimesOut, CallsTry
<1>19. CASE PutChecks(c)
  BY <1>19 DEF PutChecks, Drop, Holds
<1>20. CASE PutFails(c)
  BY <1>20 DEF PutFails, Drop, Holds, Discards
<1>21. CASE PutLocks(c)
  BY <1>21 DEF PutLocks, LocksIdle
<1>22. CASE PutReturns(c)
  BY <1>22 DEF PutReturns, Drop, Holds, try_wakeup_waiters
<1>23. CASE PutPushes(c)
  BY <1>23 DEF PutPushes, Push
<1>24. CASE PushPanics(c)
  BY <1>24 DEF PushPanics
<1>25. CASE GetCounts(c)
  BY <1>25 DEF GetCounts, Counts
<1>26. CASE PutBegins(c)
  BY <1>26 DEF PutBegins
<1>27. CASE PutSubtracts(c)
  BY <1>27 DEF PutSubtracts, Counts
<1> QED
  BY <1>1, <1>2, <1>3, <1>4, <1>5, <1>6, <1>7, <1>8, <1>9, <1>10, <1>11, <1>12, <1>13, <1>14,
     <1>15, <1>16, <1>17, <1>18, <1>19, <1>20, <1>21, <1>22, <1>23, <1>24, <1>25, <1>26,
     <1>27 DEF ClientStep, CreateStep

(* The steps of maintenance and of the main thread preserve the places of the threads *)
(* and the holders of the mutexes.                                                    *)
LEMMA LockOther ==
  ASSUME LockInv, StageInv,
         MaintStep \/ MainStep \/ update_config \/ CloseBegins
  PROVE  LockInv'
<1> USE ConnPoolAssumption
    DEF LockInv, Goto, Proc, Places, ClientPlaces, MaintPlaces, MainPlaces, Pruning, Closing,
        HoldIdle, mxVars
<1>1. ASSUME NEW p \in {Main, Maint}, CreateLocks(p) PROVE LockInv'
  BY <1>1 DEF CreateLocks
<1>2. ASSUME NEW p \in {Main, Maint}, CreateSucceeds(p) PROVE LockInv'
  BY <1>2 DEF CreateSucceeds, Created
<1>3. ASSUME NEW p \in {Main, Maint}, CreateFails(p) PROVE LockInv'
  BY <1>3 DEF CreateFails, Created
<1>4. ASSUME NEW p \in {Main, Maint}, PruneLocks(p) PROVE LockInv'
  BY <1>4 DEF PruneLocks
<1>5. ASSUME NEW p \in {Main, Maint}, PruneKeeps(p) PROVE LockInv'
  BY <1>5 DEF PruneKeeps
<1>6. ASSUME NEW p \in {Main, Maint}, PruneEvicts(p) PROVE LockInv'
  BY <1>6 DEF PruneEvicts, Discards
<1>7. ASSUME NEW p \in {Main, Maint}, PruneUnlocks(p) PROVE LockInv'
  BY <1>7 DEF PruneUnlocks
<1>8. ASSUME NEW p \in {Main, Maint}, PruneChecks(p) PROVE LockInv'
  BY <1>8 DEF PruneChecks, Drop, PruneReturns
<1>9. ASSUME NEW p \in {Main, Maint}, PruneLocksAgain(p) PROVE LockInv'
  BY <1>9 DEF PruneLocksAgain, LocksIdle
<1>10. ASSUME NEW p \in {Main, Maint}, PruneAdds(p) PROVE LockInv'
  BY <1>10 DEF PruneAdds, Drop, PruneReturns, try_wakeup_waiters
<1>11. CASE MaintStops
  BY <1>11 DEF MaintStops
<1>12. CASE MaintEvent
  BY <1>12 DEF MaintEvent, MaintPrunes
<1>13. CASE MaintTimer
  BY <1>13 DEF MaintTimer, MaintPrunes
<1>14. CASE update_config
  BY <1>14 DEF update_config
<1>15. CASE send_eviction
  BY <1>15 DEF send_eviction, Push
<1>16. CASE CloseBegins
  BY <1>16 DEF CloseBegins
<1>17. CASE CloseJoins
  BY <1>17 DEF CloseJoins, LocksIdle
<1>18. CASE CloseAll
  BY <1>18 DEF CloseAll
<1>19. CASE CloseQueue
  BY <1>19 DEF CloseQueue
<1>20. CASE CloseNotifies
  BY <1>20 DEF CloseNotifies
<1>21. CASE CloseEnds
  BY <1>21 DEF CloseEnds
<1>22. CASE CloseEvents
  BY <1>22 DEF CloseEvents
<1> QED
  BY <1>1, <1>2, <1>3, <1>4, <1>5, <1>6, <1>7, <1>8, <1>9, <1>10, <1>11, <1>12, <1>13, <1>14,
     <1>15, <1>16, <1>17, <1>18, <1>19, <1>20, <1>21, <1>22 DEF MaintStep, MainStep, PruneStep, CreateStep

(* A step of a client preserves which call of try_get a client is in. *)
LEMMA StageClient ==
  ASSUME LockInv, StageInv, NEW c \in Client,
         GetBegins(c) \/ PutBegins(c) \/ ClientStep(c)
  PROVE  StageInv'
<1> USE ConnPoolAssumption
    DEF StageInv, LockInv, Goto, Proc, ClientPlaces, MaintPlaces, MainPlaces, Pruning, Closing,
        Trying, localVars
<1>1. CASE CreateLocks(c)
  BY <1>1 DEF CreateLocks
<1>2. CASE CreateSucceeds(c)
  BY <1>2 DEF CreateSucceeds, Created
<1>3. CASE CreateFails(c)
  BY <1>3 DEF CreateFails, Created
<1>4. CASE TryLocks(c)
  BY <1>4 DEF TryLocks, LocksIdle
<1>5. CASE TryPushes(c)
  BY <1>5 DEF TryPushes, Push
<1>6. CASE TryTakes(c)
  BY <1>6 DEF TryTakes, TryReturns
<1>7. CASE TryDrops(c)
  BY <1>7 DEF TryDrops, Discards
<1>8. CASE TryNone(c)
  BY <1>8 DEF TryNone, TryReturns
<1>9. CASE GetBegins(c)
  BY <1>9 DEF GetBegins
<1>10. CASE GetLoops(c)
  BY <1>10 DEF GetLoops, CallsTry
<1>11. CASE GetPushes(c)
  BY <1>11 DEF GetPushes, Push
<1>12. CASE GetChecks(c)
  BY <1>12 DEF GetChecks, CallsTry
<1>13. CASE GetRechecks(c)
  BY <1>13 DEF GetRechecks, Drop, Holds
<1>14. CASE GetInserts(c)
  BY <1>14 DEF GetInserts, Drop, Holds, CallsTry
<1>15. CASE GetGivesUp(c)
  BY <1>15 DEF GetGivesUp
<1>16. CASE GetEnqueues(c)
  BY <1>16 DEF GetEnqueues
<1>17. CASE GetWakes(c)
  BY <1>17 DEF GetWakes
<1>18. CASE GetTimesOut(c)
  BY <1>18 DEF GetTimesOut, CallsTry
<1>19. CASE PutChecks(c)
  BY <1>19 DEF PutChecks, Drop, Holds
<1>20. CASE PutFails(c)
  BY <1>20 DEF PutFails, Drop, Holds, Discards
<1>21. CASE PutLocks(c)
  BY <1>21 DEF PutLocks, LocksIdle
<1>22. CASE PutReturns(c)
  BY <1>22 DEF PutReturns, Drop, Holds, try_wakeup_waiters
<1>23. CASE PutPushes(c)
  BY <1>23 DEF PutPushes, Push
<1>24. CASE PushPanics(c)
  BY <1>24 DEF PushPanics
<1>25. CASE GetCounts(c)
  BY <1>25 DEF GetCounts, Counts
<1>26. CASE PutBegins(c)
  BY <1>26 DEF PutBegins
<1>27. CASE PutSubtracts(c)
  BY <1>27 DEF PutSubtracts, Counts
<1> QED
  BY <1>1, <1>2, <1>3, <1>4, <1>5, <1>6, <1>7, <1>8, <1>9, <1>10, <1>11, <1>12, <1>13, <1>14,
     <1>15, <1>16, <1>17, <1>18, <1>19, <1>20, <1>21, <1>22, <1>23, <1>24, <1>25, <1>26,
     <1>27 DEF ClientStep, CreateStep

(* The steps of maintenance and of the main thread preserve which call of try_get a *)
(* client is in.                                                                    *)
LEMMA StageOther ==
  ASSUME LockInv, StageInv,
         MaintStep \/ MainStep \/ update_config \/ CloseBegins
  PROVE  StageInv'
<1> USE ConnPoolAssumption
    DEF StageInv, LockInv, Goto, Proc, ClientPlaces, MaintPlaces, MainPlaces, Pruning, Closing,
        Trying, localVars
<1>1. ASSUME NEW p \in {Main, Maint}, CreateLocks(p) PROVE StageInv'
  BY <1>1 DEF CreateLocks
<1>2. ASSUME NEW p \in {Main, Maint}, CreateSucceeds(p) PROVE StageInv'
  BY <1>2 DEF CreateSucceeds, Created
<1>3. ASSUME NEW p \in {Main, Maint}, CreateFails(p) PROVE StageInv'
  BY <1>3 DEF CreateFails, Created
<1>4. ASSUME NEW p \in {Main, Maint}, PruneLocks(p) PROVE StageInv'
  BY <1>4 DEF PruneLocks
<1>5. ASSUME NEW p \in {Main, Maint}, PruneKeeps(p) PROVE StageInv'
  BY <1>5 DEF PruneKeeps
<1>6. ASSUME NEW p \in {Main, Maint}, PruneEvicts(p) PROVE StageInv'
  BY <1>6 DEF PruneEvicts, Discards
<1>7. ASSUME NEW p \in {Main, Maint}, PruneUnlocks(p) PROVE StageInv'
  BY <1>7 DEF PruneUnlocks
<1>8. ASSUME NEW p \in {Main, Maint}, PruneChecks(p) PROVE StageInv'
  BY <1>8 DEF PruneChecks, Drop, PruneReturns
<1>9. ASSUME NEW p \in {Main, Maint}, PruneLocksAgain(p) PROVE StageInv'
  BY <1>9 DEF PruneLocksAgain, LocksIdle
<1>10. ASSUME NEW p \in {Main, Maint}, PruneAdds(p) PROVE StageInv'
  BY <1>10 DEF PruneAdds, Drop, PruneReturns, try_wakeup_waiters
<1>11. CASE MaintStops
  BY <1>11 DEF MaintStops
<1>12. CASE MaintEvent
  BY <1>12 DEF MaintEvent, MaintPrunes
<1>13. CASE MaintTimer
  BY <1>13 DEF MaintTimer, MaintPrunes
<1>14. CASE update_config
  BY <1>14 DEF update_config
<1>15. CASE send_eviction
  BY <1>15 DEF send_eviction, Push
<1>16. CASE CloseBegins
  BY <1>16 DEF CloseBegins
<1>17. CASE CloseJoins
  BY <1>17 DEF CloseJoins, LocksIdle
<1>18. CASE CloseAll
  BY <1>18 DEF CloseAll
<1>19. CASE CloseQueue
  BY <1>19 DEF CloseQueue
<1>20. CASE CloseNotifies
  BY <1>20 DEF CloseNotifies
<1>21. CASE CloseEnds
  BY <1>21 DEF CloseEnds
<1>22. CASE CloseEvents
  BY <1>22 DEF CloseEvents
<1> QED
  BY <1>1, <1>2, <1>3, <1>4, <1>5, <1>6, <1>7, <1>8, <1>9, <1>10, <1>11, <1>12, <1>13, <1>14,
     <1>15, <1>16, <1>17, <1>18, <1>19, <1>20, <1>21, <1>22 DEF MaintStep, MainStep, PruneStep, CreateStep
(* A new connection is one that nobody has. *)
LEMMA CreatedFacts ==
  ASSUME HandInv, NEW p \in Proc, CreateSucceeds(p)
  PROVE  \E k \in Fresh : /\ k \in Conn /\ Append(mine[p], k) \in Seq(Conn)
                          /\ Len(Append(mine[p], k)) = Len(mine[p]) + 1
                          /\ mine' = [mine EXCEPT ![p] = Append(mine[p], k)]
                          /\ open' = open \cup {k}
<1> DEFINE k == CHOOSE k \in Fresh : TRUE
<1>1. k \in Fresh
  BY DEF CreateSucceeds
<1>2. k \in Conn
  BY <1>1 DEF Fresh
<1>3. mine' = [mine EXCEPT ![p] = Append(mine[p], k)] /\ open' = open \cup {k}
  BY DEF CreateSucceeds
<1> HIDE DEF k
<1>4. mine[p] \in Seq(Conn)
  BY DEF HandInv
<1>5. Append(mine[p], k) \in Seq(Conn) /\ Len(Append(mine[p], k)) = Len(mine[p]) + 1
  BY <1>2, <1>4, AppendFacts
<1> WITNESS k \in Fresh
<1> QED
  BY <1>2, <1>3, <1>5

(* A step of a client preserves the connections in local variables. *)
LEMMA HandClient ==
  ASSUME LockInv, StageInv, HandInv, OwnInv, NEW c \in Client,
         GetBegins(c) \/ PutBegins(c) \/ ClientStep(c)
  PROVE  HandInv'
<1> USE ConnPoolAssumption
    DEF HandInv, LockInv, Goto, Proc, ClientPlaces, MaintPlaces, MainPlaces, Pruning, Closing,
        Holding, Making
<1>1. CASE CreateLocks(c)
  BY <1>1 DEF CreateLocks
<1>2. CASE CreateSucceeds(c)
  <2>1. PICK k \in Fresh : /\ Append(mine[c], k) \in Seq(Conn)
                           /\ Len(Append(mine[c], k)) = Len(mine[c]) + 1
                           /\ mine' = [mine EXCEPT ![c] = Append(mine[c], k)]
    BY <1>2, CreatedFacts
  <2>2. pc[c] = "factory" /\ \E l \in {"recheck"} : pc' = [pc EXCEPT ![c] = l]
    BY <1>2 DEF CreateSucceeds, Created
  <2> QED
    BY <2>1, <2>2
<1>3. CASE CreateFails(c)
  BY <1>3, SMTT(30) DEF CreateFails, Created
<1>4. CASE TryLocks(c)
  BY <1>4 DEF TryLocks, LocksIdle
<1>5. CASE TryPushes(c)
  BY <1>5 DEF TryPushes, Push
<1>6. CASE TryTakes(c)
  <2>1. /\ <<Last(idle_pool)>> \in Seq(Conn) /\ Len(<<Last(idle_pool)>>) = 1
        /\ mine' = [mine EXCEPT ![c] = <<Last(idle_pool)>>]
    BY <1>6, FrontFacts, UnitFacts DEF TryTakes, OwnInv
  <2> QED
    BY <1>6, <2>1 DEF TryTakes, TryReturns
<1>7. CASE TryDrops(c)
  BY <1>7 DEF TryDrops, Discards
<1>8. CASE TryNone(c)
  BY <1>8 DEF TryNone, TryReturns, StageInv, Trying
<1>9. CASE GetBegins(c)
  BY <1>9 DEF GetBegins
<1>10. CASE GetLoops(c)
  BY <1>10, SMTT(30) DEF GetLoops, CallsTry
<1>11. CASE GetPushes(c)
  BY <1>11 DEF GetPushes, Push
<1>12. CASE GetChecks(c)
  BY <1>12, SMTT(30) DEF GetChecks, CallsTry
<1>13. CASE GetRechecks(c)
  <2>1. /\ pc[c] = "recheck" /\ <<>> \in Seq(Conn)
        /\ \/ mine' = mine /\ pc' = [pc EXCEPT ![c] = "insert"]
           \/ \E l \in {"idle"} : /\ mine' = [mine EXCEPT ![c] = <<>>]
                                 /\ pc' = [pc EXCEPT ![c] = l]
    BY <1>13 DEF GetRechecks, Drop
  <2>2. CASE mine' = mine /\ pc' = [pc EXCEPT ![c] = "insert"]
    BY <2>1, <2>2
  <2>3. ASSUME NEW l \in {"idle"}, mine' = [mine EXCEPT ![c] = <<>>], pc' = [pc EXCEPT ![c] = l]
        PROVE  HandInv'
    BY <2>1, <2>3
  <2> QED
    BY <2>1, <2>2, <2>3
<1>14. CASE GetInserts(c)
  <2>1. /\ pc[c] = "insert" /\ <<>> \in Seq(Conn)
        /\ \/ mine' = mine /\ pc' = [pc EXCEPT ![c] = "count"]
           \/ \E l \in {"try", "idle"} : /\ mine' = [mine EXCEPT ![c] = <<>>]
                                 /\ pc' = [pc EXCEPT ![c] = l]
    BY <1>14 DEF GetInserts, Drop, CallsTry
  <2>2. CASE mine' = mine /\ pc' = [pc EXCEPT ![c] = "count"]
    BY <2>1, <2>2
  <2>3. ASSUME NEW l \in {"try", "idle"}, mine' = [mine EXCEPT ![c] = <<>>], pc' = [pc EXCEPT ![c] = l]
        PROVE  HandInv'
    BY <2>1, <2>3
  <2> QED
    BY <2>1, <2>2, <2>3
<1>15. CASE GetGivesUp(c)
  BY <1>15 DEF GetGivesUp
<1>16. CASE GetEnqueues(c)
  BY <1>16 DEF GetEnqueues
<1>17. CASE GetWakes(c)
  BY <1>17 DEF GetWakes
<1>18. CASE GetTimesOut(c)
  BY <1>18 DEF GetTimesOut, CallsTry
<1>19. CASE PutChecks(c)
  <2>1. /\ pc[c] = "put_check" /\ <<>> \in Seq(Conn)
        /\ \/ mine' = mine /\ pc' = [pc EXCEPT ![c] = "reset"]
           \/ \E l \in {"idle"} : /\ mine' = [mine EXCEPT ![c] = <<>>]
                                 /\ pc' = [pc EXCEPT ![c] = l]
    BY <1>19 DEF PutChecks, Drop
  <2>2. CASE mine' = mine /\ pc' = [pc EXCEPT ![c] = "reset"]
    BY <2>1, <2>2
  <2>3. ASSUME NEW l \in {"idle"}, mine' = [mine EXCEPT ![c] = <<>>], pc' = [pc EXCEPT ![c] = l]
        PROVE  HandInv'
    BY <2>1, <2>3
  <2> QED
    BY <2>1, <2>2, <2>3
<1>20. CASE PutFails(c)
  BY <1>20 DEF PutFails, Drop, Holds, Discards
<1>21. CASE PutLocks(c)
  BY <1>21 DEF PutLocks, LocksIdle
<1>22. CASE PutReturns(c)
  BY <1>22 DEF PutReturns, Drop, Holds, try_wakeup_waiters
<1>23. CASE PutPushes(c)
  BY <1>23 DEF PutPushes, Push
<1>24. CASE PushPanics(c)
  BY <1>24 DEF PushPanics
<1>25. CASE GetCounts(c)
  BY <1>25 DEF GetCounts, Counts
<1>26. CASE PutBegins(c)
  BY <1>26 DEF PutBegins
<1>27. CASE PutSubtracts(c)
  BY <1>27 DEF PutSubtracts, Counts
<1> QED
  BY <1>1, <1>2, <1>3, <1>4, <1>5, <1>6, <1>7, <1>8, <1>9, <1>10, <1>11, <1>12, <1>13, <1>14,
     <1>15, <1>16, <1>17, <1>18, <1>19, <1>20, <1>21, <1>22, <1>23, <1>24, <1>25, <1>26,
     <1>27 DEF ClientStep, CreateStep

(* The steps of maintenance and of the main thread preserve the connections in local *)
(* variables.                                                                        *)
LEMMA HandOther ==
  ASSUME LockInv, StageInv, HandInv, OwnInv,
         MaintStep \/ MainStep \/ update_config \/ CloseBegins
  PROVE  HandInv'
<1> USE ConnPoolAssumption
    DEF HandInv, LockInv, Goto, Proc, ClientPlaces, MaintPlaces, MainPlaces, Pruning, Closing,
        Holding, Making
<1>1. ASSUME NEW p \in {Main, Maint}, CreateLocks(p) PROVE HandInv'
  BY <1>1 DEF CreateLocks
<1>2. ASSUME NEW p \in {Main, Maint}, CreateSucceeds(p) PROVE HandInv'
  <2>1. PICK k \in Fresh : /\ Append(mine[p], k) \in Seq(Conn)
                           /\ Len(Append(mine[p], k)) = Len(mine[p]) + 1
                           /\ mine' = [mine EXCEPT ![p] = Append(mine[p], k)]
    BY <1>2, CreatedFacts
  <2>2. pc[p] = "factory" /\ \E l \in {"create", "check_closed"} : pc' = [pc EXCEPT ![p] = l]
    BY <1>2 DEF CreateSucceeds, Created
  <2> QED
    BY <2>1, <2>2
<1>3. ASSUME NEW p \in {Main, Maint}, CreateFails(p) PROVE HandInv'
  BY <1>3 DEF CreateFails, Created
<1>4. ASSUME NEW p \in {Main, Maint}, PruneLocks(p) PROVE HandInv'
  BY <1>4 DEF PruneLocks
<1>5. ASSUME NEW p \in {Main, Maint}, PruneKeeps(p) PROVE HandInv'
  BY <1>5 DEF PruneKeeps
<1>6. ASSUME NEW p \in {Main, Maint}, PruneEvicts(p) PROVE HandInv'
  BY <1>6 DEF PruneEvicts, Discards
<1>7. ASSUME NEW p \in {Main, Maint}, PruneUnlocks(p) PROVE HandInv'
  BY <1>7 DEF PruneUnlocks
<1>8. ASSUME NEW p \in {Main, Maint}, PruneChecks(p) PROVE HandInv'
  <2>1. /\ pc[p] = "check_closed" /\ <<>> \in Seq(Conn)
        /\ \/ mine' = mine /\ pc' = [pc EXCEPT ![p] = "add"]
           \/ \E l \in {"ready", "select"} : /\ mine' = [mine EXCEPT ![p] = <<>>]
                                 /\ pc' = [pc EXCEPT ![p] = l]
    BY <1>8 DEF PruneChecks, Drop, PruneReturns
  <2>2. CASE mine' = mine /\ pc' = [pc EXCEPT ![p] = "add"]
    BY <2>1, <2>2
  <2>3. ASSUME NEW l \in {"ready", "select"}, mine' = [mine EXCEPT ![p] = <<>>],
      pc' = [pc EXCEPT ![p] = l]
        PROVE  HandInv'
    BY <2>1, <2>3
  <2> QED
    BY <2>1, <2>2, <2>3
<1>9. ASSUME NEW p \in {Main, Maint}, PruneLocksAgain(p) PROVE HandInv'
  BY <1>9 DEF PruneLocksAgain, LocksIdle
<1>10. ASSUME NEW p \in {Main, Maint}, PruneAdds(p) PROVE HandInv'
  BY <1>10 DEF PruneAdds, Drop, PruneReturns, try_wakeup_waiters
<1>11. CASE MaintStops
  BY <1>11 DEF MaintStops
<1>12. CASE MaintEvent
  BY <1>12 DEF MaintEvent, MaintPrunes
<1>13. CASE MaintTimer
  BY <1>13 DEF MaintTimer, MaintPrunes
<1>14. CASE update_config
  BY <1>14 DEF update_config
<1>15. CASE send_eviction
  BY <1>15 DEF send_eviction, Push
<1>16. CASE CloseBegins
  BY <1>16 DEF CloseBegins
<1>17. CASE CloseJoins
  BY <1>17 DEF CloseJoins, LocksIdle
<1>18. CASE CloseAll
  BY <1>18 DEF CloseAll
<1>19. CASE CloseQueue
  BY <1>19 DEF CloseQueue
<1>20. CASE CloseNotifies
  BY <1>20 DEF CloseNotifies
<1>21. CASE CloseEnds
  BY <1>21 DEF CloseEnds
<1>22. CASE CloseEvents
  BY <1>22 DEF CloseEvents
<1> QED
  BY <1>1, <1>2, <1>3, <1>4, <1>5, <1>6, <1>7, <1>8, <1>9, <1>10, <1>11, <1>12, <1>13, <1>14,
     <1>15, <1>16, <1>17, <1>18, <1>19, <1>20, <1>21, <1>22 DEF MaintStep, MainStep, PruneStep, CreateStep
(* A step of a client preserves the counters of the loops of prune_connections. *)
LEMMA LoopClient ==
  ASSUME LockInv, LoopInv, OwnInv, LimitInv, NEW c \in Client,
         GetBegins(c) \/ PutBegins(c) \/ ClientStep(c)
  PROVE  LoopInv'
<1> USE ConnPoolAssumption
    DEF LoopInv, LockInv, Goto, Proc, ClientPlaces, MaintPlaces, MainPlaces, Pruning, Closing,
        HoldIdle, localVars, loopVars, poolVars
<1>1. CASE CreateLocks(c)
  BY <1>1 DEF CreateLocks
<1>2. CASE CreateSucceeds(c)
  BY <1>2 DEF CreateSucceeds, Created
<1>3. CASE CreateFails(c)
  BY <1>3 DEF CreateFails, Created
<1>4. CASE TryLocks(c)
  BY <1>4 DEF TryLocks, LocksIdle
<1>5. CASE TryPushes(c)
  BY <1>5 DEF TryPushes, Push
<1>6. CASE TryTakes(c)
  BY <1>6 DEF TryTakes, TryReturns
<1>7. CASE TryDrops(c)
  BY <1>7 DEF TryDrops, Discards
<1>8. CASE TryNone(c)
  BY <1>8 DEF TryNone, TryReturns
<1>9. CASE GetBegins(c)
  BY <1>9 DEF GetBegins
<1>10. CASE GetLoops(c)
  BY <1>10 DEF GetLoops, CallsTry
<1>11. CASE GetPushes(c)
  BY <1>11 DEF GetPushes, Push
<1>12. CASE GetChecks(c)
  BY <1>12 DEF GetChecks, CallsTry
<1>13. CASE GetRechecks(c)
  BY <1>13 DEF GetRechecks, Drop, Holds
<1>14. CASE GetInserts(c)
  BY <1>14 DEF GetInserts, Drop, Holds, CallsTry
<1>15. CASE GetGivesUp(c)
  BY <1>15 DEF GetGivesUp
<1>16. CASE GetEnqueues(c)
  BY <1>16 DEF GetEnqueues
<1>17. CASE GetWakes(c)
  BY <1>17 DEF GetWakes
<1>18. CASE GetTimesOut(c)
  BY <1>18 DEF GetTimesOut, CallsTry
<1>19. CASE PutChecks(c)
  BY <1>19 DEF PutChecks, Drop, Holds
<1>20. CASE PutFails(c)
  BY <1>20 DEF PutFails, Drop, Holds, Discards
<1>21. CASE PutLocks(c)
  BY <1>21 DEF PutLocks, LocksIdle
<1>22. CASE PutReturns(c)
  BY <1>22 DEF PutReturns, Drop, Holds, try_wakeup_waiters
<1>23. CASE PutPushes(c)
  BY <1>23 DEF PutPushes, Push
<1>24. CASE PushPanics(c)
  BY <1>24 DEF PushPanics
<1>25. CASE GetCounts(c)
  BY <1>25 DEF GetCounts, Counts
<1>26. CASE PutBegins(c)
  BY <1>26 DEF PutBegins
<1>27. CASE PutSubtracts(c)
  BY <1>27 DEF PutSubtracts, Counts
<1> QED
  BY <1>1, <1>2, <1>3, <1>4, <1>5, <1>6, <1>7, <1>8, <1>9, <1>10, <1>11, <1>12, <1>13, <1>14,
     <1>15, <1>16, <1>17, <1>18, <1>19, <1>20, <1>21, <1>22, <1>23, <1>24, <1>25, <1>26,
     <1>27 DEF ClientStep, CreateStep

(* The steps of maintenance and of the main thread preserve the counters of the loops *)
(* of prune_connections.                                                              *)
LEMMA LoopOther ==
  ASSUME LockInv, LoopInv, OwnInv, LimitInv,
         MaintStep \/ MainStep \/ update_config \/ CloseBegins
  PROVE  LoopInv'
<1> USE ConnPoolAssumption
    DEF LoopInv, LockInv, Goto, Proc, ClientPlaces, MaintPlaces, MainPlaces, Pruning, Closing,
        HoldIdle, localVars, loopVars, poolVars
<1>1. ASSUME NEW p \in {Main, Maint}, CreateLocks(p) PROVE LoopInv'
  BY <1>1 DEF CreateLocks
<1>2. ASSUME NEW p \in {Main, Maint}, CreateSucceeds(p) PROVE LoopInv'
  BY <1>2 DEF CreateSucceeds, Created
<1>3. ASSUME NEW p \in {Main, Maint}, CreateFails(p) PROVE LoopInv'
  BY <1>3 DEF CreateFails, Created
<1>4. ASSUME NEW p \in {Main, Maint}, PruneLocks(p) PROVE LoopInv'
  BY <1>4 DEF PruneLocks
<1>5. ASSUME NEW p \in {Main, Maint}, PruneKeeps(p) PROVE LoopInv'
  BY <1>5 DEF PruneKeeps
<1>6. ASSUME NEW p \in {Main, Maint}, PruneEvicts(p) PROVE LoopInv'
  <2>1. left[p] \in 1 .. Len(idle_pool) /\ pc[p] = "look" /\ idle_pool \in Seq(Conn)
    BY <1>6 DEF PruneEvicts, OwnInv
  <2>2. Len(RemoveAt(idle_pool, left[p])) = Len(idle_pool) - 1 /\ Len(idle_pool) \in Nat
    BY <2>1, RemoveAtFacts
  <2>3. /\ idle_pool' = RemoveAt(idle_pool, left[p])
        /\ left' = [left EXCEPT ![p] = @ - 1] /\ pc' = pc
    BY <1>6 DEF PruneEvicts
  <2> HIDE DEF LockInv
  <2>4. \A q \in {Main, Maint} : q # p => pc[q] # "look"
    BY <2>1 DEF LockInv
  <2> QED
    BY <2>1, <2>2, <2>3, <2>4
<1>7. ASSUME NEW p \in {Main, Maint}, PruneUnlocks(p) PROVE LoopInv'
  <2>1. snap[p].min_idle_conns - Len(idle_pool) \in Int
    BY DEF LimitInv, OwnInv
  <2> QED
    BY <1>7, <2>1 DEF PruneUnlocks
<1>8. ASSUME NEW p \in {Main, Maint}, PruneChecks(p) PROVE LoopInv'
  BY <1>8 DEF PruneChecks, Drop, PruneReturns
<1>9. ASSUME NEW p \in {Main, Maint}, PruneLocksAgain(p) PROVE LoopInv'
  BY <1>9 DEF PruneLocksAgain, LocksIdle
<1>10. ASSUME NEW p \in {Main, Maint}, PruneAdds(p) PROVE LoopInv'
  BY <1>10 DEF PruneAdds, Drop, PruneReturns, try_wakeup_waiters
<1>11. CASE MaintStops
  BY <1>11 DEF MaintStops
<1>12. CASE MaintEvent
  BY <1>12 DEF MaintEvent, MaintPrunes
<1>13. CASE MaintTimer
  BY <1>13 DEF MaintTimer, MaintPrunes
<1>14. CASE update_config
  BY <1>14 DEF update_config
<1>15. CASE send_eviction
  BY <1>15 DEF send_eviction, Push
<1>16. CASE CloseBegins
  BY <1>16 DEF CloseBegins
<1>17. CASE CloseJoins
  BY <1>17 DEF CloseJoins, LocksIdle
<1>18. CASE CloseAll
  BY <1>18 DEF CloseAll
<1>19. CASE CloseQueue
  BY <1>19 DEF CloseQueue
<1>20. CASE CloseNotifies
  BY <1>20 DEF CloseNotifies
<1>21. CASE CloseEnds
  BY <1>21 DEF CloseEnds
<1>22. CASE CloseEvents
  BY <1>22 DEF CloseEvents
<1> QED
  BY <1>1, <1>2, <1>3, <1>4, <1>5, <1>6, <1>7, <1>8, <1>9, <1>10, <1>11, <1>12, <1>13, <1>14,
     <1>15, <1>16, <1>17, <1>18, <1>19, <1>20, <1>21, <1>22 DEF MaintStep, MainStep, PruneStep, CreateStep

(* A step of a client preserves the flags and counters. *)
LEMMA CountClient ==
  ASSUME CountInv, NEW c \in Client,
         GetBegins(c) \/ PutBegins(c) \/ ClientStep(c)
  PROVE  CountInv'
<1> USE ConnPoolAssumption
    DEF CountInv, Goto, Proc, localVars, loopVars, poolVars, evVars, boundVars
<1>1. CASE CreateLocks(c)
  BY <1>1 DEF CreateLocks
<1>2. CASE CreateSucceeds(c)
  BY <1>2 DEF CreateSucceeds, Created
<1>3. CASE CreateFails(c)
  BY <1>3 DEF CreateFails, Created
<1>4. CASE TryLocks(c)
  BY <1>4 DEF TryLocks, LocksIdle
<1>5. CASE TryPushes(c)
  BY <1>5 DEF TryPushes, Push
<1>6. CASE TryTakes(c)
  BY <1>6 DEF TryTakes, TryReturns
<1>7. CASE TryDrops(c)
  BY <1>7 DEF TryDrops, Discards
<1>8. CASE TryNone(c)
  BY <1>8 DEF TryNone, TryReturns
<1>9. CASE GetBegins(c)
  BY <1>9 DEF GetBegins
<1>10. CASE GetLoops(c)
  BY <1>10 DEF GetLoops, CallsTry
<1>11. CASE GetPushes(c)
  BY <1>11 DEF GetPushes, Push
<1>12. CASE GetChecks(c)
  BY <1>12 DEF GetChecks, CallsTry
<1>13. CASE GetRechecks(c)
  BY <1>13 DEF GetRechecks, Drop, Holds
<1>14. CASE GetInserts(c)
  BY <1>14 DEF GetInserts, Drop, Holds, CallsTry
<1>15. CASE GetGivesUp(c)
  BY <1>15 DEF GetGivesUp
<1>16. CASE GetEnqueues(c)
  BY <1>16 DEF GetEnqueues
<1>17. CASE GetWakes(c)
  BY <1>17 DEF GetWakes
<1>18. CASE GetTimesOut(c)
  BY <1>18 DEF GetTimesOut, CallsTry
<1>19. CASE PutChecks(c)
  BY <1>19 DEF PutChecks, Drop, Holds
<1>20. CASE PutFails(c)
  BY <1>20 DEF PutFails, Drop, Holds, Discards
<1>21. CASE PutLocks(c)
  BY <1>21 DEF PutLocks, LocksIdle
<1>22. CASE PutReturns(c)
  BY <1>22 DEF PutReturns, Drop, Holds, try_wakeup_waiters
<1>23. CASE PutPushes(c)
  BY <1>23 DEF PutPushes, Push
<1>24. CASE PushPanics(c)
  BY <1>24 DEF PushPanics
<1>25. CASE GetCounts(c)
  BY <1>25 DEF GetCounts, Counts
<1>26. CASE PutBegins(c)
  BY <1>26 DEF PutBegins
<1>27. CASE PutSubtracts(c)
  BY <1>27 DEF PutSubtracts, Counts
<1> QED
  BY <1>1, <1>2, <1>3, <1>4, <1>5, <1>6, <1>7, <1>8, <1>9, <1>10, <1>11, <1>12, <1>13, <1>14,
     <1>15, <1>16, <1>17, <1>18, <1>19, <1>20, <1>21, <1>22, <1>23, <1>24, <1>25, <1>26,
     <1>27 DEF ClientStep, CreateStep

(* The steps of maintenance and of the main thread preserve the flags and counters. *)
LEMMA CountOther ==
  ASSUME CountInv,
         MaintStep \/ MainStep \/ update_config \/ CloseBegins
  PROVE  CountInv'
<1> USE ConnPoolAssumption
    DEF CountInv, Goto, Proc, localVars, loopVars, poolVars, evVars, boundVars
<1>1. ASSUME NEW p \in {Main, Maint}, CreateLocks(p) PROVE CountInv'
  BY <1>1 DEF CreateLocks
<1>2. ASSUME NEW p \in {Main, Maint}, CreateSucceeds(p) PROVE CountInv'
  BY <1>2 DEF CreateSucceeds, Created
<1>3. ASSUME NEW p \in {Main, Maint}, CreateFails(p) PROVE CountInv'
  BY <1>3 DEF CreateFails, Created
<1>4. ASSUME NEW p \in {Main, Maint}, PruneLocks(p) PROVE CountInv'
  BY <1>4 DEF PruneLocks
<1>5. ASSUME NEW p \in {Main, Maint}, PruneKeeps(p) PROVE CountInv'
  BY <1>5 DEF PruneKeeps
<1>6. ASSUME NEW p \in {Main, Maint}, PruneEvicts(p) PROVE CountInv'
  BY <1>6 DEF PruneEvicts, Discards
<1>7. ASSUME NEW p \in {Main, Maint}, PruneUnlocks(p) PROVE CountInv'
  BY <1>7 DEF PruneUnlocks
<1>8. ASSUME NEW p \in {Main, Maint}, PruneChecks(p) PROVE CountInv'
  BY <1>8 DEF PruneChecks, Drop, PruneReturns
<1>9. ASSUME NEW p \in {Main, Maint}, PruneLocksAgain(p) PROVE CountInv'
  BY <1>9 DEF PruneLocksAgain, LocksIdle
<1>10. ASSUME NEW p \in {Main, Maint}, PruneAdds(p) PROVE CountInv'
  BY <1>10 DEF PruneAdds, Drop, PruneReturns, try_wakeup_waiters
<1>11. CASE MaintStops
  BY <1>11 DEF MaintStops
<1>12. CASE MaintEvent
  <2>1. events' \in 0 .. eviction_ch_cap /\ UNCHANGED <<stop_ch, evClosed, panicked,
      active_count, admin>>
    BY <1>12 DEF MaintEvent
  <2>2. pending' \in BOOLEAN
    BY <1>12 DEF MaintEvent, MaintPrunes
  <2> QED
    BY <2>1, <2>2, Zenon
<1>13. CASE MaintTimer
  BY <1>13 DEF MaintTimer, MaintPrunes
<1>14. CASE update_config
  BY <1>14 DEF update_config
<1>15. CASE send_eviction
  BY <1>15 DEF send_eviction, Push
<1>16. CASE CloseBegins
  BY <1>16 DEF CloseBegins
<1>17. CASE CloseJoins
  BY <1>17 DEF CloseJoins, LocksIdle
<1>18. CASE CloseAll
  BY <1>18 DEF CloseAll
<1>19. CASE CloseQueue
  BY <1>19 DEF CloseQueue
<1>20. CASE CloseNotifies
  BY <1>20 DEF CloseNotifies
<1>21. CASE CloseEnds
  BY <1>21 DEF CloseEnds
<1>22. CASE CloseEvents
  BY <1>22 DEF CloseEvents
<1> QED
  BY <1>1, <1>2, <1>3, <1>4, <1>5, <1>6, <1>7, <1>8, <1>9, <1>10, <1>11, <1>12, <1>13, <1>14,
     <1>15, <1>16, <1>17, <1>18, <1>19, <1>20, <1>21, <1>22 DEF MaintStep, MainStep, PruneStep, CreateStep

(* The smallest and the largest of a few numbers. *)
LEMMA MaxOfTwo ==
  ASSUME NEW a \in Int, NEW b \in Int
  PROVE  Max({a, b}) \in {a, b} /\ Max({a, b}) >= a /\ Max({a, b}) >= b
<1>1. \E x \in {a, b} : \A y \in {a, b} : x >= y
  OBVIOUS
<1> QED
  BY <1>1 DEF Max

(* The smallest of three integers is one of them and at most each. *)
LEMMA MinOfThree ==
  ASSUME NEW a \in Int, NEW b \in Int, NEW c \in Int
  PROVE  /\ Min({a, b, c}) \in {a, b, c}
         /\ Min({a, b, c}) <= a /\ Min({a, b, c}) <= b /\ Min({a, b, c}) <= c
<1>1. \E x \in {a, b, c} : \A y \in {a, b, c} : x =< y
  OBVIOUS
<1> QED
  BY <1>1 DEF Min

(* The sets of connections are finite. *)
LEMMA FiniteConns ==
  ASSUME NEW S \in SUBSET Conn
  PROVE  IsFiniteSet(S) /\ Cardinality(S) \in Nat
<1>1. 1 \in Int /\ NumConn \in Int
  BY ConnPoolAssumption
<1>2. IsFiniteSet(Conn)
  BY <1>1, FS_Interval DEF Conn
<1> QED
  BY <1>2, FS_Subset, FS_CardinalityType

(* Forgetting a connection makes no pool larger. *)
LEMMA ForgetBound ==
  ASSUME NEW S \in SUBSET Conn, NEW k
  PROVE  Cardinality(S \ {k}) <= Cardinality(S) /\ Cardinality(S \ {k}) \in Nat
<1>1. IsFiniteSet(S) /\ Cardinality(S) \in Nat /\ S \ {k} \in SUBSET Conn
  BY FiniteConns
<1>2. S \ {k} \in SUBSET S
  OBVIOUS
<1> QED
  BY <1>1, <1>2, FS_Subset, FiniteConns

(* prune_connections adds at most what it has made, and no more than fits. *)
LEMMA ActualToAdd ==
  ASSUME OwnInv, HandInv, LimitInv, NEW p \in Proc
  PROVE  /\ actual_to_add(p) \in 0 .. Len(mine[p])
         /\ actual_to_add(p) > 0
              => actual_to_add(p) <= snap[p].max_conns - Cardinality(all_conns)
<1> DEFINE needed == snap[p].min_idle_conns - Len(idle_pool)
           slots  == snap[p].max_conns - Cardinality(all_conns)
           n      == Min({needed, slots, Len(mine[p])})
<1>1. Cardinality(all_conns) \in Nat
  BY FiniteConns DEF OwnInv
<1>2. snap[p] \in Configs /\ snap[p].min_idle_conns \in Int /\ snap[p].max_conns \in Int
  BY ConnPoolAssumption DEF LimitInv
<1>3. Len(mine[p]) \in Nat /\ Len(idle_pool) \in Nat
  BY DEF HandInv, OwnInv
<1>4. needed \in Int /\ slots \in Int /\ Len(mine[p]) \in Int
  BY <1>1, <1>2, <1>3
<1>5. actual_to_add(p) = Max({0, n})
  BY DEF actual_to_add
<1> HIDE DEF needed, slots
<1>6. n \in {needed, slots, Len(mine[p])} /\ n <= slots /\ n <= Len(mine[p])
  BY <1>4, MinOfThree
<1> HIDE DEF n
<1>7. n \in Int
  BY <1>4, <1>6
<1>8. Max({0, n}) \in {0, n} /\ Max({0, n}) >= 0
  <2>1. 0 \in Int
    OBVIOUS
  <2> QED
    BY <1>7, <2>1, MaxOfTwo, Zenon
<1>9. Max({0, n}) \in 0 .. Len(mine[p]) /\ (Max({0, n}) > 0 => Max({0, n}) <= slots)
  BY <1>3, <1>6, <1>7, <1>8
<1> QED
  BY <1>5, <1>9 DEF slots

(* A step of a client preserves the limit on the connections that the pool knows. *)
LEMMA LimitClient ==
  ASSUME HandInv, LimitInv, OwnInv, NEW c \in Client,
         GetBegins(c) \/ PutBegins(c) \/ ClientStep(c)
  PROVE  LimitInv'
<1> USE ConnPoolAssumption DEF LimitInv, Goto, Proc, localVars, loopVars, poolVars, boundVars
<1>1. CASE CreateLocks(c)
  BY <1>1 DEF CreateLocks
<1>2. CASE CreateSucceeds(c)
  BY <1>2 DEF CreateSucceeds, Created
<1>3. CASE CreateFails(c)
  BY <1>3 DEF CreateFails, Created
<1>4. CASE TryLocks(c)
  BY <1>4 DEF TryLocks, LocksIdle
<1>5. CASE TryPushes(c)
  BY <1>5 DEF TryPushes, Push
<1>6. CASE TryTakes(c)
  BY <1>6 DEF TryTakes, TryReturns
<1>7. CASE TryDrops(c)
  <2>1. \E k : all_conns' = all_conns \ {k}
    BY <1>7 DEF TryDrops, Discards
  <2>2. Cardinality(all_conns') <= Cardinality(all_conns) /\ Cardinality(all_conns') \in Nat
    BY <2>1, ForgetBound DEF OwnInv
  <2>3. Cardinality(all_conns) \in Nat
    BY FiniteConns DEF OwnInv
  <2> QED
    BY <1>7, <2>2, <2>3 DEF TryDrops
<1>8. CASE TryNone(c)
  BY <1>8 DEF TryNone, TryReturns
<1>9. CASE GetBegins(c)
  BY <1>9 DEF GetBegins
<1>10. CASE GetLoops(c)
  BY <1>10 DEF GetLoops, CallsTry
<1>11. CASE GetPushes(c)
  BY <1>11 DEF GetPushes, Push
<1>12. CASE GetChecks(c)
  BY <1>12 DEF GetChecks, CallsTry
<1>13. CASE GetRechecks(c)
  BY <1>13 DEF GetRechecks, Drop, Holds
<1>14. CASE GetInserts(c)
  <2>1. Cardinality(all_conns) \in Nat /\ IsFiniteSet(all_conns) /\ snap[c].max_conns \in Nat
    BY FiniteConns DEF OwnInv
  <2>2. \A k : /\ Cardinality(all_conns \cup {k}) \in Nat
               /\ Cardinality(all_conns \cup {k}) <= Cardinality(all_conns) + 1
    <3>1. TAKE k
    <3>2. /\ IsFiniteSet(all_conns \cup {k})
          /\ \/ Cardinality(all_conns \cup {k}) = Cardinality(all_conns)
             \/ Cardinality(all_conns \cup {k}) = Cardinality(all_conns) + 1
      BY <2>1, FS_AddElement, Zenon
    <3> QED
      BY <2>1, <3>2
  <2>3. Cardinality(all_conns') <= limit
    <3>1. CASE Cardinality(all_conns) < snap[c].max_conns
      <4>1. all_conns' = all_conns \cup {Holds(c)} /\ snap[c].max_conns <= limit
        BY <3>1, <1>14 DEF GetInserts
      <4>2. /\ Cardinality(all_conns') \in Nat
            /\ Cardinality(all_conns') <= Cardinality(all_conns) + 1
        BY <4>1, <2>2
      <4> HIDE DEF LimitInv
      <4> QED
        BY <4>1, <4>2, <3>1, <2>1 DEF LimitInv
    <3>2. CASE ~(Cardinality(all_conns) < snap[c].max_conns)
      BY <3>2, <1>14 DEF GetInserts
    <3> QED
      BY <3>1, <3>2
  <2> QED
    BY <1>14, <2>3 DEF GetInserts
<1>15. CASE GetGivesUp(c)
  BY <1>15 DEF GetGivesUp
<1>16. CASE GetEnqueues(c)
  BY <1>16 DEF GetEnqueues
<1>17. CASE GetWakes(c)
  BY <1>17 DEF GetWakes
<1>18. CASE GetTimesOut(c)
  BY <1>18 DEF GetTimesOut, CallsTry
<1>19. CASE PutChecks(c)
  BY <1>19 DEF PutChecks, Drop, Holds
<1>20. CASE PutFails(c)
  <2>1. \E k : all_conns' = all_conns \ {k}
    BY <1>20 DEF PutFails, Discards
  <2>2. Cardinality(all_conns') <= Cardinality(all_conns) /\ Cardinality(all_conns') \in Nat
    BY <2>1, ForgetBound DEF OwnInv
  <2>3. Cardinality(all_conns) \in Nat
    BY FiniteConns DEF OwnInv
  <2> QED
    BY <1>20, <2>2, <2>3 DEF PutFails
<1>21. CASE PutLocks(c)
  BY <1>21 DEF PutLocks, LocksIdle
<1>22. CASE PutReturns(c)
  BY <1>22 DEF PutReturns, Drop, Holds, try_wakeup_waiters
<1>23. CASE PutPushes(c)
  BY <1>23 DEF PutPushes, Push
<1>24. CASE PushPanics(c)
  BY <1>24 DEF PushPanics
<1>25. CASE GetCounts(c)
  BY <1>25 DEF GetCounts, Counts
<1>26. CASE PutBegins(c)
  BY <1>26 DEF PutBegins
<1>27. CASE PutSubtracts(c)
  BY <1>27 DEF PutSubtracts, Counts
<1> QED
  BY <1>1, <1>2, <1>3, <1>4, <1>5, <1>6, <1>7, <1>8, <1>9, <1>10, <1>11, <1>12, <1>13, <1>14,
     <1>15, <1>16, <1>17, <1>18, <1>19, <1>20, <1>21, <1>22, <1>23, <1>24, <1>25, <1>26,
     <1>27 DEF ClientStep, CreateStep

(* The steps of maintenance and of the main thread preserve the limit on the *)
(* connections that the pool knows.                                          *)
LEMMA LimitOther ==
  ASSUME HandInv, LimitInv, OwnInv,
         MaintStep \/ MainStep \/ update_config \/ CloseBegins
  PROVE  LimitInv'
<1> USE ConnPoolAssumption DEF LimitInv, Goto, Proc, localVars, loopVars, poolVars, boundVars
<1>1. ASSUME NEW p \in {Main, Maint}, CreateLocks(p) PROVE LimitInv'
  BY <1>1 DEF CreateLocks
<1>2. ASSUME NEW p \in {Main, Maint}, CreateSucceeds(p) PROVE LimitInv'
  BY <1>2 DEF CreateSucceeds, Created
<1>3. ASSUME NEW p \in {Main, Maint}, CreateFails(p) PROVE LimitInv'
  BY <1>3 DEF CreateFails, Created
<1>4. ASSUME NEW p \in {Main, Maint}, PruneLocks(p) PROVE LimitInv'
  BY <1>4 DEF PruneLocks
<1>5. ASSUME NEW p \in {Main, Maint}, PruneKeeps(p) PROVE LimitInv'
  BY <1>5 DEF PruneKeeps
<1>6. ASSUME NEW p \in {Main, Maint}, PruneEvicts(p) PROVE LimitInv'
  <2>1. \E k : all_conns' = all_conns \ {k}
    BY <1>6 DEF PruneEvicts, Discards
  <2>2. Cardinality(all_conns') <= Cardinality(all_conns) /\ Cardinality(all_conns') \in Nat
    BY <2>1, ForgetBound DEF OwnInv
  <2>3. Cardinality(all_conns) \in Nat
    BY FiniteConns DEF OwnInv
  <2> QED
    BY <1>6, <2>2, <2>3 DEF PruneEvicts
<1>7. ASSUME NEW p \in {Main, Maint}, PruneUnlocks(p) PROVE LimitInv'
  BY <1>7 DEF PruneUnlocks
<1>8. ASSUME NEW p \in {Main, Maint}, PruneChecks(p) PROVE LimitInv'
  BY <1>8 DEF PruneChecks, Drop, PruneReturns
<1>9. ASSUME NEW p \in {Main, Maint}, PruneLocksAgain(p) PROVE LimitInv'
  BY <1>9 DEF PruneLocksAgain, LocksIdle
<1>10. ASSUME NEW p \in {Main, Maint}, PruneAdds(p) PROVE LimitInv'
  <2> DEFINE n == actual_to_add(p)
             add == SubSeq(mine[p], 1, n)
  <2>1. /\ n \in 0 .. Len(mine[p]) /\ mine[p] \in Seq(Conn)
        /\ n > 0 => n <= snap[p].max_conns - Cardinality(all_conns)
    BY ActualToAdd DEF HandInv
  <2>2. all_conns' = all_conns \cup Range(add)
    BY <1>10 DEF PruneAdds
  <2>3. n \in Nat /\ snap[p].max_conns \in Nat /\ snap[p].max_conns <= limit
    BY <2>1
  <2> HIDE DEF n
  <2>4. add \in Seq(Conn) /\ Len(add) = n
    BY <2>1, <2>3, SubSeqFacts
  <2> HIDE DEF add
  <2>5. /\ IsFiniteSet(Range(add)) /\ Cardinality(Range(add)) <= n
        /\ Cardinality(Range(add)) \in Nat /\ (n = 0 => Range(add) = {})
    BY <2>3, <2>4, RangeFacts, RangeCardinality, FS_CardinalityType
  <2>6. IsFiniteSet(all_conns) /\ Cardinality(all_conns) \in Nat
    BY FiniteConns DEF OwnInv
  <2>7. IsFiniteSet(all_conns \cap Range(add)) /\ Cardinality(all_conns \cap Range(add)) \in Nat
    BY <2>6, FS_Intersection, FS_CardinalityType
  <2>8. Cardinality(all_conns \cup Range(add))
          = Cardinality(all_conns) + Cardinality(Range(add)) - Cardinality(all_conns \cap Range(add))
    BY <2>5, <2>6, FS_Union
  <2>9. Cardinality(all_conns') <= limit
    <3>1. CASE n = 0
      BY <3>1, <2>2, <2>5
    <3>2. CASE n > 0
      BY <3>2, <2>1, <2>2, <2>3, <2>5, <2>6, <2>7, <2>8
    <3> QED
      BY <2>3, <3>1, <3>2
  <2>10. UNCHANGED <<config, snap, limit>>
    BY <1>10 DEF PruneAdds
  <2> QED
    BY <2>9, <2>10
<1>11. CASE MaintStops
  BY <1>11 DEF MaintStops
<1>12. CASE MaintEvent
  BY <1>12 DEF MaintEvent, MaintPrunes
<1>13. CASE MaintTimer
  BY <1>13 DEF MaintTimer, MaintPrunes
<1>14. CASE update_config
  <2>1. config' \in Configs /\ limit' = Max({limit, config'.max_conns})
    BY <1>14 DEF update_config
  <2>2. config'.max_conns \in Nat
    BY <2>1
  <2>3. limit' \in Nat /\ limit' >= limit /\ limit' >= config'.max_conns
    <3>1. limit \in Int /\ config'.max_conns \in Int
      BY <2>2
    <3>2. /\ limit' \in {limit, config'.max_conns}
          /\ limit' >= limit /\ limit' >= config'.max_conns
      BY <2>1, <3>1, MaxOfTwo, Zenon
    <3> QED
      BY <2>2, <3>2
  <2>4. UNCHANGED <<snap, all_conns>> /\ Cardinality(all_conns) \in Nat
    BY <1>14, FiniteConns DEF update_config, OwnInv
  <2>5. snap' \in [Proc -> Configs] /\ \A p \in Proc : snap'[p].max_conns <= limit'
    BY <2>3, <2>4
  <2>6. Cardinality(all_conns') <= limit'
    BY <2>3, <2>4
  <2> QED
    BY <2>1, <2>3, <2>5, <2>6, Zenon
<1>15. CASE send_eviction
  BY <1>15 DEF send_eviction, Push
<1>16. CASE CloseBegins
  BY <1>16 DEF CloseBegins
<1>17. CASE CloseJoins
  BY <1>17 DEF CloseJoins, LocksIdle
<1>18. CASE CloseAll
  <2>1. Cardinality(all_conns') <= limit
    BY <1>18, FS_EmptySet DEF CloseAll
  <2> QED
    BY <1>18, <2>1 DEF CloseAll
<1>19. CASE CloseQueue
  BY <1>19 DEF CloseQueue
<1>20. CASE CloseNotifies
  BY <1>20 DEF CloseNotifies
<1>21. CASE CloseEnds
  BY <1>21 DEF CloseEnds
<1>22. CASE CloseEvents
  BY <1>22 DEF CloseEvents
<1> QED
  BY <1>1, <1>2, <1>3, <1>4, <1>5, <1>6, <1>7, <1>8, <1>9, <1>10, <1>11, <1>12, <1>13, <1>14,
     <1>15, <1>16, <1>17, <1>18, <1>19, <1>20, <1>21, <1>22 DEF MaintStep, MainStep, PruneStep, CreateStep

-----------------------------------------------------------------------------
(* Where the connections go *)

(* The sets of idle, known and open connections become these, and p has those. *)
Becomes(idle, all, opn, p, has) ==
  /\ idle_pool' \in Seq(Conn) /\ IsInjective(idle_pool') /\ Range(idle_pool') = idle
  /\ all_conns' = all /\ open' = opn
  /\ IsInjective(mine'[p]) /\ Range(mine'[p]) = has
  /\ \A q \in Proc \ {p} : mine'[q] = mine[q]

(* The connection of a client is the only one it has. *)
LEMMA HeldFacts ==
  ASSUME HandInv, NEW c \in Client, pc[c] \in Holding
  PROVE  Holds(c) \in Conn /\ Range(mine[c]) = {Holds(c)}
<1>1. mine[c] \in Seq(Conn) /\ Len(mine[c]) = 1
  BY DEF HandInv, Proc
<1> QED
  BY <1>1, SingletonFacts DEF Holds

(* Who lets its connections go has none left. *)
LEMMA DropFacts ==
  ASSUME HandInv, NEW p \in Proc, Drop(p)
  PROVE  /\ IsInjective(mine'[p]) /\ Range(mine'[p]) = {}
         /\ \A q \in Proc \ {p} : mine'[q] = mine[q]
<1>1. mine'[p] = <<>> /\ \A q \in Proc \ {p} : mine'[q] = mine[q]
  BY DEF Drop, HandInv
<1>2. Range(<<>>) = {} /\ IsInjective(<<>>)
  BY DEF Range, IsInjective
<1> QED
  BY <1>1, <1>2

(* The idle pool is as before. *)
LEMMA KeptIdle ==
  ASSUME OwnInv, idle_pool' = idle_pool
  PROVE  idle_pool' \in Seq(Conn) /\ IsInjective(idle_pool') /\ Range(idle_pool') = Range(idle_pool)
BY DEF OwnInv

(* Everybody has the connections it had. *)
LEMMA KeptHands ==
  ASSUME OwnInv, NEW p \in Proc, mine' = mine
  PROVE  /\ IsInjective(mine'[p]) /\ Range(mine'[p]) = Range(mine[p])
         /\ \A q \in Proc \ {p} : mine'[q] = mine[q]
BY DEF OwnInv

(* create_conn_with_retry: the new connection is open and in the hands of its creator. *)
LEMMA CreateSucceedsEffect ==
  ASSUME HandInv, OwnInv, NEW p \in Proc, CreateSucceeds(p)
  PROVE  \E k \in Fresh : Becomes(Range(idle_pool), all_conns, open \cup {k}, p,
                                   Range(mine[p]) \cup {k})
<1>1. PICK k \in Fresh : /\ k \in Conn /\ open' = open \cup {k}
                         /\ mine' = [mine EXCEPT ![p] = Append(mine[p], k)]
  BY CreatedFacts
<1>2. k \notin Range(mine[p])
  BY <1>1 DEF Fresh
<1>3. mine[p] \in Seq(Conn) /\ IsInjective(mine[p])
  BY DEF HandInv, OwnInv
<1>4. /\ IsInjective(Append(mine[p], k)) /\ Range(Append(mine[p], k)) = Range(mine[p]) \cup {k}
  BY <1>1, <1>2, <1>3, AppendFacts
<1>5. mine'[p] = Append(mine[p], k) /\ \A q \in Proc \ {p} : mine'[q] = mine[q]
  BY <1>1 DEF HandInv
<1>6. idle_pool' = idle_pool /\ all_conns' = all_conns
  BY DEF CreateSucceeds, poolVars
<1> QED
  BY <1>1, <1>4, <1>5, <1>6, KeptIdle DEF Becomes

(* try_get: a connection goes from the idle pool into the hands of the client. *)
LEMMA TryTakesEffect ==
  ASSUME HandInv, OwnInv, NEW c \in Client, TryTakes(c)
  PROVE  \E k \in Range(idle_pool) :
           Becomes(Range(idle_pool) \ {k}, all_conns, open, c, {k})
<1>1. idle_pool \in Seq(Conn) /\ idle_pool # <<>> /\ IsInjective(idle_pool)
  BY DEF OwnInv, TryTakes
<1>2. /\ Last(idle_pool) \in Conn /\ Last(idle_pool) \in Range(idle_pool)
      /\ Front(idle_pool) \in Seq(Conn) /\ IsInjective(Front(idle_pool))
      /\ Range(Front(idle_pool)) = Range(idle_pool) \ {Last(idle_pool)}
  BY <1>1, FrontFacts
<1>3. Range(<<Last(idle_pool)>>) = {Last(idle_pool)} /\ IsInjective(<<Last(idle_pool)>>)
  BY <1>2, UnitFacts
<1>4. /\ idle_pool' = Front(idle_pool) /\ all_conns' = all_conns /\ open' = open
      /\ mine' = [mine EXCEPT ![c] = <<Last(idle_pool)>>]
  BY DEF TryTakes
<1>5. mine'[c] = <<Last(idle_pool)>> /\ \A q \in Proc \ {c} : mine'[q] = mine[q]
  BY <1>4 DEF HandInv, Proc
<1> QED
  BY <1>2, <1>3, <1>4, <1>5 DEF Becomes

(* try_get: a connection of the idle pool is closed and forgotten. *)
LEMMA TryDropsEffect ==
  ASSUME HandInv, OwnInv, NEW c \in Client, TryDrops(c)
  PROVE  \E k \in Range(idle_pool) :
           Becomes(Range(idle_pool) \ {k}, all_conns \ {k}, open \ {k}, c, Range(mine[c]))
<1>1. idle_pool \in Seq(Conn) /\ idle_pool # <<>> /\ IsInjective(idle_pool)
  BY DEF OwnInv, TryDrops
<1>2. /\ Last(idle_pool) \in Range(idle_pool)
      /\ Front(idle_pool) \in Seq(Conn) /\ IsInjective(Front(idle_pool))
      /\ Range(Front(idle_pool)) = Range(idle_pool) \ {Last(idle_pool)}
  BY <1>1, FrontFacts
<1>3. /\ idle_pool' = Front(idle_pool) /\ mine' = mine
      /\ all_conns' = all_conns \ {Last(idle_pool)} /\ open' = open \ {Last(idle_pool)}
  BY DEF TryDrops, Discards
<1> QED
  BY <1>2, <1>3, KeptHands DEF Becomes, Proc

(* prune_connections: so is the one that the loop looks at. *)
LEMMA PruneEvictsEffect ==
  ASSUME HandInv, OwnInv, LoopInv, NEW p \in {Main, Maint}, PruneEvicts(p)
  PROVE  \E k \in Range(idle_pool) :
           Becomes(Range(idle_pool) \ {k}, all_conns \ {k}, open \ {k}, p, Range(mine[p]))
<1>1. idle_pool \in Seq(Conn) /\ IsInjective(idle_pool) /\ left[p] \in 1 .. Len(idle_pool)
  BY DEF OwnInv, LoopInv, PruneEvicts, Proc
<1> DEFINE k == idle_pool[left[p]]
<1>2. /\ k \in Range(idle_pool)
      /\ RemoveAt(idle_pool, left[p]) \in Seq(Conn) /\ IsInjective(RemoveAt(idle_pool, left[p]))
      /\ Range(RemoveAt(idle_pool, left[p])) = Range(idle_pool) \ {k}
  BY <1>1, RemoveAtFacts
<1>3. /\ idle_pool' = RemoveAt(idle_pool, left[p]) /\ mine' = mine
      /\ all_conns' = all_conns \ {k} /\ open' = open \ {k}
  BY DEF PruneEvicts, Discards
<1> HIDE DEF k
<1>4. p \in Proc
  BY DEF Proc
<1> QED
  BY <1>2, <1>3, <1>4, KeptHands DEF Becomes

(* What closes a connection, when the pool keeps its list of known ones. *)
LEMMA ClosesEffect ==
  ASSUME HandInv, OwnInv, NEW p \in Proc, Drop(p), open' = open \ Range(mine[p]),
         idle_pool' = idle_pool, all_conns' = all_conns
  PROVE  Becomes(Range(idle_pool), all_conns, open \ Range(mine[p]), p, {})
BY DropFacts, KeptIdle DEF Becomes

(* get: the pool was closed while the factory ran. *)
LEMMA GetRechecksEffect ==
  ASSUME HandInv, OwnInv, NEW c \in Client, GetRechecks(c), is_closed
  PROVE  Becomes(Range(idle_pool), all_conns, open \ Range(mine[c]), c, {})
BY HeldFacts, ClosesEffect DEF GetRechecks, Holding, Proc, poolVars

(* put: the pool is closed. *)
LEMMA PutChecksEffect ==
  ASSUME HandInv, OwnInv, NEW c \in Client, PutChecks(c), is_closed
  PROVE  Becomes(Range(idle_pool), all_conns, open \ Range(mine[c]), c, {})
BY HeldFacts, ClosesEffect DEF PutChecks, Holding, Proc, poolVars

(* prune_connections: the pool was closed while the factory ran. *)
LEMMA PruneChecksEffect ==
  ASSUME HandInv, OwnInv, NEW p \in {Main, Maint}, PruneChecks(p), is_closed
  PROVE  Becomes(Range(idle_pool), all_conns, open \ Range(mine[p]), p, {})
BY ClosesEffect DEF PruneChecks, Proc, poolVars

(* get: the new connection becomes known to the pool, or is closed for lack of room. *)
LEMMA GetInsertsEffect ==
  ASSUME HandInv, OwnInv, NEW c \in Client, GetInserts(c)
  PROVE  \/ /\ Becomes(Range(idle_pool), all_conns \cup Range(mine[c]), open, c, Range(mine[c]))
            /\ pc' = [pc EXCEPT ![c] = "count"]
         \/ /\ Becomes(Range(idle_pool), all_conns, open \ Range(mine[c]), c, {})
            /\ \E l \in {"try", "idle"} : pc' = [pc EXCEPT ![c] = l]
<1>1. Range(mine[c]) = {Holds(c)} /\ idle_pool' = idle_pool /\ c \in Proc
  BY HeldFacts DEF GetInserts, Holding, Proc
<1>2. CASE Cardinality(all_conns) < snap[c].max_conns
  <2>1. /\ all_conns' = all_conns \cup Range(mine[c]) /\ open' = open /\ mine' = mine
        /\ pc' = [pc EXCEPT ![c] = "count"]
    BY <1>1, <1>2 DEF GetInserts, Goto
  <2> QED
    BY <1>1, <2>1, KeptIdle, KeptHands DEF Becomes
<1>3. CASE ~(Cardinality(all_conns) < snap[c].max_conns)
  <2>1. /\ all_conns' = all_conns /\ open' = open \ Range(mine[c]) /\ Drop(c)
        /\ \E l \in {"try", "idle"} : pc' = [pc EXCEPT ![c] = l]
    BY <1>1, <1>3 DEF GetInserts, CallsTry, Goto
  <2> QED
    BY <1>1, <2>1, ClosesEffect
<1> QED
  BY <1>2, <1>3

(* put: a connection that cannot be reset is closed and forgotten. *)
LEMMA PutFailsEffect ==
  ASSUME HandInv, OwnInv, NEW c \in Client, PutFails(c)
  PROVE  Becomes(Range(idle_pool), all_conns \ Range(mine[c]), open \ Range(mine[c]), c, {})
<1>1. Range(mine[c]) = {Holds(c)} /\ idle_pool' = idle_pool /\ c \in Proc
  BY HeldFacts DEF PutFails, Holding, Proc
<1>2. Drop(c) /\ all_conns' = all_conns \ Range(mine[c]) /\ open' = open \ Range(mine[c])
  BY <1>1 DEF PutFails, Discards
<1> QED
  BY <1>1, <1>2, DropFacts, KeptIdle DEF Becomes

(* put: a known connection becomes idle and an unknown one is closed. *)
LEMMA PutReturnsEffect ==
  ASSUME HandInv, OwnInv, NEW c \in Client, PutReturns(c)
  PROVE  \/ /\ Range(mine[c]) \subseteq all_conns
            /\ Becomes(Range(idle_pool) \cup Range(mine[c]), all_conns, open, c, {})
            /\ pc' = [pc EXCEPT ![c] = "put_push"]
         \/ /\ Becomes(Range(idle_pool), all_conns, open \ Range(mine[c]), c, {})
            /\ pc' = [pc EXCEPT ![c] = "idle"]
<1>1. /\ Range(mine[c]) = {Holds(c)} /\ Holds(c) \in Conn /\ c \in Proc /\ Drop(c)
      /\ all_conns' = all_conns
  BY HeldFacts DEF PutReturns, Holding, Proc
<1>2. CASE Holds(c) \in all_conns
  <2>1. /\ idle_pool' = Append(idle_pool, Holds(c)) /\ open' = open
        /\ pc' = [pc EXCEPT ![c] = "put_push"]
    BY <1>2 DEF PutReturns, Goto
  <2>2. idle_pool \in Seq(Conn) /\ IsInjective(idle_pool) /\ Holds(c) \notin Range(idle_pool)
    BY <1>1 DEF OwnInv
  <2>3. /\ idle_pool' \in Seq(Conn) /\ IsInjective(idle_pool')
        /\ Range(idle_pool') = Range(idle_pool) \cup {Holds(c)}
    BY <1>1, <2>1, <2>2, AppendFacts
  <2> QED
    BY <1>1, <1>2, <2>1, <2>3, DropFacts DEF Becomes
<1>3. CASE Holds(c) \notin all_conns
  <2>1. /\ idle_pool' = idle_pool /\ open' = open \ Range(mine[c])
        /\ pc' = [pc EXCEPT ![c] = "idle"]
    BY <1>1, <1>3 DEF PutReturns, Goto
  <2> QED
    BY <1>1, <2>1, ClosesEffect
<1> QED
  BY <1>2, <1>3

(* prune_connections: some of the new connections become idle, the others are closed. *)
LEMMA PruneAddsEffect ==
  ASSUME HandInv, OwnInv, LimitInv, NEW p \in {Main, Maint}, PruneAdds(p)
  PROVE  \E A \in SUBSET Range(mine[p]) :
           Becomes(Range(idle_pool) \cup A, all_conns \cup A, open \ (Range(mine[p]) \ A), p, {})
<1> DEFINE add == SubSeq(mine[p], 1, actual_to_add(p))
<1>1. p \in Proc /\ mine[p] \in Seq(Conn) /\ IsInjective(mine[p]) /\ Drop(p)
  BY DEF HandInv, OwnInv, Proc, PruneAdds
<1>2. /\ idle_pool' = idle_pool \o add /\ all_conns' = all_conns \cup Range(add)
      /\ open' = open \ (Range(mine[p]) \ Range(add))
  BY DEF PruneAdds
<1>3. add \in Seq(Conn) /\ Range(add) \subseteq Range(mine[p]) /\ IsInjective(add)
  <2> DEFINE n == actual_to_add(p)
  <2>1. n \in 0 .. Len(mine[p])
    BY <1>1, ActualToAdd
  <2> HIDE DEF n
  <2>2. n \in Nat /\ 1 \in 1 .. Len(mine[p]) + 1 /\ 1 <= n + 1
    BY <1>1, <2>1
  <2>3. SubSeq(mine[p], 1, n) \in Seq(Conn) /\ IsInjective(SubSeq(mine[p], 1, n))
    BY <1>1, <2>1, <2>2, SubSeqFacts
  <2>4. Range(SubSeq(mine[p], 1, n)) \subseteq Range(mine[p])
    BY <1>1, <2>1, <2>2, SubSeqFacts
  <2> QED
    BY <2>3, <2>4 DEF n
<1> HIDE DEF add
<1>5. /\ idle_pool \in Seq(Conn) /\ IsInjective(idle_pool) /\ Range(idle_pool) \cap Range(add) = {}
  BY <1>1, <1>3 DEF OwnInv
<1>6. /\ idle_pool' \in Seq(Conn) /\ IsInjective(idle_pool')
      /\ Range(idle_pool') = Range(idle_pool) \cup Range(add)
  BY <1>2, <1>3, <1>5, ConcatFacts
<1> QED
  BY <1>1, <1>2, <1>3, <1>6, DropFacts DEF Becomes

(* close: every connection that the pool knows is closed. *)
LEMMA CloseAllEffect ==
  ASSUME HandInv, OwnInv, CloseAll
  PROVE  Becomes({}, {}, open \ all_conns, Main, Range(mine[Main]))
<1>1. idle_pool' = <<>> /\ all_conns' = {} /\ open' = open \ all_conns /\ mine' = mine
  BY DEF CloseAll
<1>2. <<>> \in Seq(Conn) /\ Range(<<>>) = {} /\ IsInjective(<<>>)
  BY DEF Range, IsInjective
<1> QED
  BY <1>1, <1>2, KeptHands DEF Becomes, Proc

(* What has to be shown of a step that moves connections to and from p. *)
Fits(idle, all, opn, p, has) ==
  /\ all \subseteq Conn /\ opn \subseteq Conn /\ idle \subseteq all \cap opn
  /\ has \cap idle = {} /\ has \cap all \subseteq opn
  /\ \A q \in Proc \ {p} : /\ Range(mine[q]) \cap idle = {}
                           /\ Range(mine[q]) \cap has = {}
                           /\ Range(mine[q]) \cap all \subseteq opn
  /\ \A k \in opn : k \in idle \/ k \in has \/ \E q \in Proc \ {p} : k \in Range(mine[q])

(* A change that fits keeps every connection in one place. *)
LEMMA OwnBecomes ==
  ASSUME OwnInv, NEW p \in Proc, NEW idle, NEW all, NEW opn, NEW has,
         Becomes(idle, all, opn, p, has), Fits(idle, all, opn, p, has)
  PROVE  OwnInv'
<1>1. /\ Range(idle_pool') = idle /\ all_conns' = all /\ open' = opn
      /\ idle_pool' \in Seq(Conn) /\ IsInjective(idle_pool')
      /\ IsInjective(mine'[p]) /\ Range(mine'[p]) = has
      /\ \A q \in Proc \ {p} : mine'[q] = mine[q]
  BY DEF Becomes
<1>2. \A q \in Proc : IsInjective(mine'[q])
  BY <1>1 DEF OwnInv
<1>3. \A q \in Proc : Range(mine'[q]) = IF q = p THEN has ELSE Range(mine[q])
  BY <1>1
<1>4. \A q \in Proc : Range(mine'[q]) \cap Range(idle_pool') = {}
  BY <1>1, <1>3 DEF Fits
<1>5. \A q \in Proc : Range(mine'[q]) \cap all_conns' \subseteq open'
  BY <1>1, <1>3 DEF Fits
<1>6. ASSUME NEW q \in Proc, NEW r \in Proc, q # r PROVE Range(mine'[q]) \cap Range(mine'[r]) = {}
  <2>1. CASE q = p
    BY <2>1, <1>3, <1>6 DEF Fits
  <2>2. CASE r = p
    BY <2>2, <1>3, <1>6 DEF Fits
  <2>3. CASE q # p /\ r # p
    BY <2>3, <1>3, <1>6 DEF OwnInv
  <2> QED
    BY <2>1, <2>2, <2>3
<1>7. \A k \in open' : k \in Range(idle_pool') \/ \E q \in Proc : k \in Range(mine'[q])
  BY <1>1, <1>3 DEF Fits
<1>8. /\ all_conns' \subseteq Conn /\ open' \subseteq Conn
      /\ Range(idle_pool') \subseteq all_conns' \cap open'
  BY <1>1 DEF Fits
<1> QED
  BY <1>1, <1>2, <1>4, <1>5, <1>6, <1>7, <1>8 DEF OwnInv

(* A step of a client preserves every connection in one place. *)
LEMMA OwnClient ==
  ASSUME HandInv, LoopInv, LimitInv, OwnInv, NewInv, NEW c \in Client,
         GetBegins(c) \/ PutBegins(c) \/ ClientStep(c)
  PROVE  OwnInv'
<1> USE ConnPoolAssumption DEF OwnInv, Proc, poolVars
<1>1. CASE CreateLocks(c)
  BY <1>1 DEF CreateLocks
<1>2. CASE CreateSucceeds(c)
  <2>1. PICK k \in Fresh :
          Becomes(Range(idle_pool), all_conns, open \cup {k}, c, Range(mine[c]) \cup {k})
    BY <1>2, CreateSucceedsEffect
  <2>2. /\ k \in Conn /\ k \notin all_conns
        /\ \A q \in Proc : k \notin Range(mine[q])
    BY <2>1 DEF Fresh
  <2>3. Fits(Range(idle_pool), all_conns, open \cup {k}, c, Range(mine[c]) \cup {k})
    <3>1. \A x \in open \cup {k} : \/ x \in Range(idle_pool) \/ x \in Range(mine[c]) \cup {k}
                                 \/ \E q \in Proc \ {c} : x \in Range(mine[q])
      OBVIOUS
    <3>2. ASSUME NEW q \in Proc \ {c}
          PROVE  /\ Range(mine[q]) \cap Range(idle_pool) = {}
                 /\ Range(mine[q]) \cap (Range(mine[c]) \cup {k}) = {}
                 /\ Range(mine[q]) \cap all_conns \subseteq open \cup {k}
      <4>1. Range(mine[q]) \cap Range(mine[c]) = {} /\ k \notin Range(mine[q])
        BY <2>2
      <4>2. Range(mine[q]) \cap Range(idle_pool) = {} /\ Range(mine[q]) \cap all_conns \subseteq open
        OBVIOUS
      <4> QED
        BY <4>1, <4>2
    <3>3. /\ open \cup {k} \subseteq Conn /\ Range(idle_pool) \subseteq all_conns \cap (open \cup {k})
          /\ (Range(mine[c]) \cup {k}) \cap Range(idle_pool) = {}
          /\ (Range(mine[c]) \cup {k}) \cap all_conns \subseteq open \cup {k}
      BY <2>2
    <3> QED
      BY <3>1, <3>2, <3>3 DEF Fits
  <2> HIDE DEF OwnInv
  <2> QED
    BY <2>1, <2>3, OwnBecomes
<1>3. CASE CreateFails(c)
  BY <1>3 DEF CreateFails, Created
<1>4. CASE TryLocks(c)
  BY <1>4 DEF TryLocks, LocksIdle
<1>5. CASE TryPushes(c)
  BY <1>5 DEF TryPushes, Push
<1>6. CASE TryTakes(c)
  <2>0. Range(mine[c]) = {}
    BY <1>6, RangeFacts DEF HandInv, TryTakes, Holding
  <2>1. PICK k \in Range(idle_pool) :
          Becomes(Range(idle_pool) \ {k}, all_conns, open, c, {k})
    BY <1>6, TryTakesEffect
  <2>2. Fits(Range(idle_pool) \ {k}, all_conns, open, c, {k})
    BY <2>1, <2>0 DEF Fits
  <2> HIDE DEF OwnInv
  <2> QED
    BY <2>1, <2>2, OwnBecomes
<1>7. CASE TryDrops(c)
  <2>1. PICK k \in Range(idle_pool) :
          Becomes(Range(idle_pool) \ {k}, all_conns \ {k}, open \ {k}, c, Range(mine[c]))
    BY <1>7, TryDropsEffect
  <2>2. Fits(Range(idle_pool) \ {k}, all_conns \ {k}, open \ {k}, c, Range(mine[c]))
    BY <2>1 DEF Fits
  <2> HIDE DEF OwnInv
  <2> QED
    BY <2>1, <2>2, OwnBecomes
<1>8. CASE TryNone(c)
  BY <1>8 DEF TryNone, TryReturns
<1>9. CASE GetBegins(c)
  BY <1>9 DEF GetBegins
<1>10. CASE GetLoops(c)
  BY <1>10 DEF GetLoops, CallsTry
<1>11. CASE GetPushes(c)
  BY <1>11 DEF GetPushes, Push
<1>12. CASE GetChecks(c)
  BY <1>12 DEF GetChecks, CallsTry
<1>13. CASE GetRechecks(c)
  <2>1. CASE is_closed
    <3>1. Becomes(Range(idle_pool), all_conns, open \ Range(mine[c]), c, {})
      BY <1>13, <2>1, GetRechecksEffect
    <3>2. Fits(Range(idle_pool), all_conns, open \ Range(mine[c]), c, {})
      BY DEF Fits
    <3> HIDE DEF OwnInv
    <3> QED
      BY <3>1, <3>2, OwnBecomes
  <2>2. CASE ~is_closed
    BY <1>13, <2>2 DEF GetRechecks
  <2> QED
    BY <2>1, <2>2
<1>14. CASE GetInserts(c)
  <2>0. Range(mine[c]) \subseteq open
    BY <1>14 DEF NewInv, GetInserts
  <2>1. \/ Becomes(Range(idle_pool), all_conns \cup Range(mine[c]), open, c, Range(mine[c]))
        \/ Becomes(Range(idle_pool), all_conns, open \ Range(mine[c]), c, {})
    BY <1>14, GetInsertsEffect
  <2>2. /\ Fits(Range(idle_pool), all_conns \cup Range(mine[c]), open, c, Range(mine[c]))
        /\ Fits(Range(idle_pool), all_conns, open \ Range(mine[c]), c, {})
    BY <2>0 DEF Fits
  <2> HIDE DEF OwnInv
  <2> QED
    BY <2>1, <2>2, OwnBecomes
<1>15. CASE GetGivesUp(c)
  BY <1>15 DEF GetGivesUp
<1>16. CASE GetEnqueues(c)
  BY <1>16 DEF GetEnqueues
<1>17. CASE GetWakes(c)
  BY <1>17 DEF GetWakes
<1>18. CASE GetTimesOut(c)
  BY <1>18 DEF GetTimesOut, CallsTry
<1>19. CASE PutChecks(c)
  <2>1. CASE is_closed
    <3>1. Becomes(Range(idle_pool), all_conns, open \ Range(mine[c]), c, {})
      BY <1>19, <2>1, PutChecksEffect
    <3>2. Fits(Range(idle_pool), all_conns, open \ Range(mine[c]), c, {})
      BY DEF Fits
    <3> HIDE DEF OwnInv
    <3> QED
      BY <3>1, <3>2, OwnBecomes
  <2>2. CASE ~is_closed
    BY <1>19, <2>2 DEF PutChecks
  <2> QED
    BY <2>1, <2>2
<1>20. CASE PutFails(c)
  <2>1. Becomes(Range(idle_pool), all_conns \ Range(mine[c]), open \ Range(mine[c]), c, {})
    BY <1>20, PutFailsEffect
  <2>2. Fits(Range(idle_pool), all_conns \ Range(mine[c]), open \ Range(mine[c]), c, {})
    BY <2>1 DEF Fits
  <2> HIDE DEF OwnInv
  <2> QED
    BY <2>1, <2>2, OwnBecomes
<1>21. CASE PutLocks(c)
  BY <1>21 DEF PutLocks, LocksIdle
<1>22. CASE PutReturns(c)
  <2>1. \/ /\ Range(mine[c]) \subseteq all_conns
           /\ Becomes(Range(idle_pool) \cup Range(mine[c]), all_conns, open, c, {})
        \/ Becomes(Range(idle_pool), all_conns, open \ Range(mine[c]), c, {})
    BY <1>22, PutReturnsEffect
  <2>2. /\ Range(mine[c]) \subseteq all_conns
             => Fits(Range(idle_pool) \cup Range(mine[c]), all_conns, open, c, {})
        /\ Fits(Range(idle_pool), all_conns, open \ Range(mine[c]), c, {})
    BY ZenonT(60) DEF Fits
  <2> HIDE DEF OwnInv
  <2> QED
    BY <2>1, <2>2, OwnBecomes
<1>23. CASE PutPushes(c)
  BY <1>23 DEF PutPushes, Push
<1>24. CASE PushPanics(c)
  BY <1>24 DEF PushPanics
<1>25. CASE GetCounts(c)
  BY <1>25 DEF GetCounts, Counts
<1>26. CASE PutBegins(c)
  BY <1>26 DEF PutBegins
<1>27. CASE PutSubtracts(c)
  BY <1>27 DEF PutSubtracts, Counts
<1> QED
  BY <1>1, <1>2, <1>3, <1>4, <1>5, <1>6, <1>7, <1>8, <1>9, <1>10, <1>11, <1>12, <1>13, <1>14,
     <1>15, <1>16, <1>17, <1>18, <1>19, <1>20, <1>21, <1>22, <1>23, <1>24, <1>25, <1>26,
     <1>27 DEF ClientStep, CreateStep

(* The steps of maintenance and of the main thread preserve every connection in one *)
(* place.                                                                           *)
LEMMA OwnOther ==
  ASSUME HandInv, LoopInv, LimitInv, OwnInv, NewInv,
         MaintStep \/ MainStep \/ update_config \/ CloseBegins
  PROVE  OwnInv'
<1> USE ConnPoolAssumption DEF OwnInv, Proc, poolVars
<1>1. ASSUME NEW p \in {Main, Maint}, CreateLocks(p) PROVE OwnInv'
  BY <1>1 DEF CreateLocks
<1>2. ASSUME NEW p \in {Main, Maint}, CreateSucceeds(p) PROVE OwnInv'
  <2>1. PICK k \in Fresh :
          Becomes(Range(idle_pool), all_conns, open \cup {k}, p, Range(mine[p]) \cup {k})
    BY <1>2, CreateSucceedsEffect
  <2>2. /\ k \in Conn /\ k \notin all_conns
        /\ \A q \in Proc : k \notin Range(mine[q])
    BY <2>1 DEF Fresh
  <2>3. Fits(Range(idle_pool), all_conns, open \cup {k}, p, Range(mine[p]) \cup {k})
    <3>1. \A x \in open \cup {k} : \/ x \in Range(idle_pool) \/ x \in Range(mine[p]) \cup {k}
                                 \/ \E q \in Proc \ {p} : x \in Range(mine[q])
      OBVIOUS
    <3>2. ASSUME NEW q \in Proc \ {p}
          PROVE  /\ Range(mine[q]) \cap Range(idle_pool) = {}
                 /\ Range(mine[q]) \cap (Range(mine[p]) \cup {k}) = {}
                 /\ Range(mine[q]) \cap all_conns \subseteq open \cup {k}
      <4>1. Range(mine[q]) \cap Range(mine[p]) = {} /\ k \notin Range(mine[q])
        BY <2>2
      <4>2. Range(mine[q]) \cap Range(idle_pool) = {} /\ Range(mine[q]) \cap all_conns \subseteq open
        OBVIOUS
      <4> QED
        BY <4>1, <4>2
    <3>3. /\ open \cup {k} \subseteq Conn /\ Range(idle_pool) \subseteq all_conns \cap (open \cup {k})
          /\ (Range(mine[p]) \cup {k}) \cap Range(idle_pool) = {}
          /\ (Range(mine[p]) \cup {k}) \cap all_conns \subseteq open \cup {k}
      BY <2>2
    <3> QED
      BY <3>1, <3>2, <3>3 DEF Fits
  <2> HIDE DEF OwnInv
  <2> QED
    BY <2>1, <2>3, OwnBecomes
<1>3. ASSUME NEW p \in {Main, Maint}, CreateFails(p) PROVE OwnInv'
  BY <1>3 DEF CreateFails, Created
<1>4. ASSUME NEW p \in {Main, Maint}, PruneLocks(p) PROVE OwnInv'
  BY <1>4 DEF PruneLocks
<1>5. ASSUME NEW p \in {Main, Maint}, PruneKeeps(p) PROVE OwnInv'
  BY <1>5 DEF PruneKeeps
<1>6. ASSUME NEW p \in {Main, Maint}, PruneEvicts(p) PROVE OwnInv'
  <2>1. PICK k \in Range(idle_pool) :
          Becomes(Range(idle_pool) \ {k}, all_conns \ {k}, open \ {k}, p, Range(mine[p]))
    BY <1>6, PruneEvictsEffect
  <2>2. Fits(Range(idle_pool) \ {k}, all_conns \ {k}, open \ {k}, p, Range(mine[p]))
    BY <2>1 DEF Fits
  <2> HIDE DEF OwnInv
  <2> QED
    BY <2>1, <2>2, OwnBecomes
<1>7. ASSUME NEW p \in {Main, Maint}, PruneUnlocks(p) PROVE OwnInv'
  BY <1>7 DEF PruneUnlocks
<1>8. ASSUME NEW p \in {Main, Maint}, PruneChecks(p) PROVE OwnInv'
  <2>1. CASE is_closed
    <3>1. Becomes(Range(idle_pool), all_conns, open \ Range(mine[p]), p, {})
      BY <1>8, <2>1, PruneChecksEffect
    <3>2. Fits(Range(idle_pool), all_conns, open \ Range(mine[p]), p, {})
      BY DEF Fits
    <3> HIDE DEF OwnInv
    <3> QED
      BY <3>1, <3>2, OwnBecomes
  <2>2. CASE ~is_closed
    BY <1>8, <2>2 DEF PruneChecks
  <2> QED
    BY <2>1, <2>2
<1>9. ASSUME NEW p \in {Main, Maint}, PruneLocksAgain(p) PROVE OwnInv'
  BY <1>9 DEF PruneLocksAgain, LocksIdle
<1>10. ASSUME NEW p \in {Main, Maint}, PruneAdds(p) PROVE OwnInv'
  <2>1. PICK A \in SUBSET Range(mine[p]) :
          Becomes(Range(idle_pool) \cup A, all_conns \cup A, open \ (Range(mine[p]) \ A), p, {})
    BY <1>10, PruneAddsEffect
  <2>2. Range(mine[p]) \subseteq open
    BY DEF NewInv
  <2>3. Fits(Range(idle_pool) \cup A, all_conns \cup A, open \ (Range(mine[p]) \ A), p, {})
    BY <2>2, ZenonT(60) DEF Fits
  <2> HIDE DEF OwnInv
  <2> QED
    BY <2>1, <2>3, OwnBecomes
<1>11. CASE MaintStops
  BY <1>11 DEF MaintStops
<1>12. CASE MaintEvent
  BY <1>12 DEF MaintEvent, MaintPrunes
<1>13. CASE MaintTimer
  BY <1>13 DEF MaintTimer, MaintPrunes
<1>14. CASE update_config
  BY <1>14 DEF update_config
<1>15. CASE send_eviction
  BY <1>15 DEF send_eviction, Push
<1>16. CASE CloseBegins
  BY <1>16 DEF CloseBegins
<1>17. CASE CloseJoins
  BY <1>17 DEF CloseJoins, LocksIdle
<1>18. CASE CloseAll
  <2>1. Becomes({}, {}, open \ all_conns, Main, Range(mine[Main]))
    BY <1>18, CloseAllEffect
  <2>2. Fits({}, {}, open \ all_conns, Main, Range(mine[Main]))
    BY <2>1 DEF Fits
  <2> HIDE DEF OwnInv
  <2> QED
    BY <2>1, <2>2, OwnBecomes
<1>19. CASE CloseQueue
  BY <1>19 DEF CloseQueue
<1>20. CASE CloseNotifies
  BY <1>20 DEF CloseNotifies
<1>21. CASE CloseEnds
  BY <1>21 DEF CloseEnds
<1>22. CASE CloseEvents
  BY <1>22 DEF CloseEvents
<1> QED
  BY <1>1, <1>2, <1>3, <1>4, <1>5, <1>6, <1>7, <1>8, <1>9, <1>10, <1>11, <1>12, <1>13, <1>14,
     <1>15, <1>16, <1>17, <1>18, <1>19, <1>20, <1>21, <1>22 DEF MaintStep, MainStep, PruneStep, CreateStep

(* A step of a client preserves what has just been made, and is not known yet. *)
LEMMA NewClient ==
  ASSUME LockInv, StageInv, HandInv, LoopInv, LimitInv, OwnInv, NewInv, NEW c \in Client,
         GetBegins(c) \/ PutBegins(c) \/ ClientStep(c)
  PROVE  NewInv'
<1> USE ConnPoolAssumption DEF NewInv, OwnInv, LockInv, Goto, Proc, poolVars
<1>1. CASE CreateLocks(c)
  BY <1>1 DEF CreateLocks
<1>2. CASE CreateSucceeds(c)
  <2>1. PICK k \in Fresh :
          Becomes(Range(idle_pool), all_conns, open \cup {k}, c, Range(mine[c]) \cup {k})
    BY <1>2, CreateSucceedsEffect
  <2>0. k \notin all_conns /\ k \notin open /\ \A q \in Proc : k \notin Range(mine[q])
    BY <2>1 DEF Fresh
  <2>3. Range(mine[c]) = {} /\ pc \in [Proc -> Places]
    BY <1>2, RangeFacts DEF HandInv, Holding, CreateSucceeds
  <2>2. pc[c] = "factory" /\ \E l \in {"recheck"} : pc' = [pc EXCEPT ![c] = l] /\ is_closed' = is_closed
    BY <1>2 DEF CreateSucceeds, Created
  <2> HIDE DEF OwnInv, LockInv
  <2> QED
    BY <2>0, <2>1, <2>2, <2>3 DEF Becomes
<1>3. CASE CreateFails(c)
  BY <1>3 DEF CreateFails, Created
<1>4. CASE TryLocks(c)
  BY <1>4 DEF TryLocks, LocksIdle
<1>5. CASE TryPushes(c)
  BY <1>5 DEF TryPushes, Push
<1>6. CASE TryTakes(c)
  <2>1. PICK k \in Range(idle_pool) :
          Becomes(Range(idle_pool) \ {k}, all_conns, open, c, {k})
    BY <1>6, TryTakesEffect
  <2>2. pc[c] = "try_pop" /\ idle_pool # <<>> /\ \E l \in {"get_push",
      "using"} : pc' = [pc EXCEPT ![c] = l] /\ is_closed' = is_closed
    BY <1>6 DEF TryTakes, TryReturns
  <2> QED
    BY <2>1, <2>2 DEF Becomes
<1>7. CASE TryDrops(c)
  <2>1. PICK k \in Range(idle_pool) :
          Becomes(Range(idle_pool) \ {k}, all_conns \ {k}, open \ {k}, c, Range(mine[c]))
    BY <1>7, TryDropsEffect
  <2>2. pc[c] = "try_pop" /\ idle_pool # <<>> /\ pc' = pc /\ is_closed' = is_closed
    BY <1>7 DEF TryDrops
  <2> QED
    BY <2>1, <2>2 DEF Becomes
<1>8. CASE TryNone(c)
  BY <1>8 DEF TryNone, TryReturns, StageInv, Trying
<1>9. CASE GetBegins(c)
  BY <1>9 DEF GetBegins
<1>10. CASE GetLoops(c)
  BY <1>10 DEF GetLoops, CallsTry
<1>11. CASE GetPushes(c)
  BY <1>11 DEF GetPushes, Push
<1>12. CASE GetChecks(c)
  BY <1>12 DEF GetChecks, CallsTry
<1>13. CASE GetRechecks(c)
  <2>1. CASE is_closed
    <3>1. Becomes(Range(idle_pool), all_conns, open \ Range(mine[c]), c, {})
      BY <1>13, <2>1, GetRechecksEffect
    <3>2. pc[c] = "recheck" /\ is_closed' = is_closed /\ pc' = [pc EXCEPT ![c] = "idle"]
      BY <1>13, <2>1 DEF GetRechecks, PruneReturns
    <3> QED
      BY <2>1, <3>1, <3>2, ZenonT(60) DEF Becomes
  <2>2. CASE ~is_closed
    <3>1. /\ UNCHANGED <<all_conns, open, idle_pool, mine, is_closed>>
          /\ pc[c] = "recheck" /\ pc' = [pc EXCEPT ![c] = "insert"]
      BY <1>13, <2>2 DEF GetRechecks
    <3> QED
      BY <2>2, <3>1
  <2> QED
    BY <2>1, <2>2
<1>14. CASE GetInserts(c)
  <2>1. \/ /\ Becomes(Range(idle_pool), all_conns \cup Range(mine[c]), open, c, Range(mine[c]))
           /\ pc' = [pc EXCEPT ![c] = "count"]
        \/ /\ Becomes(Range(idle_pool), all_conns, open \ Range(mine[c]), c, {})
           /\ \E l \in {"try", "idle"} : pc' = [pc EXCEPT ![c] = l]
    BY <1>14, GetInsertsEffect
  <2>2. pc \in [Proc -> Places] /\ \A q \in Proc \ {c} : Range(mine[q]) \cap Range(mine[c]) = {}
    OBVIOUS
  <2> HIDE DEF OwnInv, LockInv
  <2> QED
    BY <2>1, <2>2 DEF Becomes
<1>15. CASE GetGivesUp(c)
  BY <1>15 DEF GetGivesUp
<1>16. CASE GetEnqueues(c)
  BY <1>16 DEF GetEnqueues
<1>17. CASE GetWakes(c)
  BY <1>17 DEF GetWakes
<1>18. CASE GetTimesOut(c)
  BY <1>18 DEF GetTimesOut, CallsTry
<1>19. CASE PutChecks(c)
  <2>1. CASE is_closed
    <3>1. Becomes(Range(idle_pool), all_conns, open \ Range(mine[c]), c, {})
      BY <1>19, <2>1, PutChecksEffect
    <3>2. pc[c] = "put_check" /\ is_closed' = is_closed /\ pc' = [pc EXCEPT ![c] = "idle"]
      BY <1>19, <2>1 DEF PutChecks, PruneReturns
    <3> QED
      BY <2>1, <3>1, <3>2, ZenonT(60) DEF Becomes
  <2>2. CASE ~is_closed
    <3>1. /\ UNCHANGED <<all_conns, open, idle_pool, mine, is_closed>>
          /\ pc[c] = "put_check" /\ pc' = [pc EXCEPT ![c] = "reset"]
      BY <1>19, <2>2 DEF PutChecks
    <3> QED
      BY <2>2, <3>1
  <2> QED
    BY <2>1, <2>2
<1>20. CASE PutFails(c)
  <2>1. Becomes(Range(idle_pool), all_conns \ Range(mine[c]), open \ Range(mine[c]), c, {})
    BY <1>20, PutFailsEffect
  <2>2. pc[c] = "reset" /\ pc' = [pc EXCEPT ![c] = "idle"] /\ is_closed' = is_closed
    BY <1>20 DEF PutFails
  <2> QED
    BY <2>1, <2>2, ZenonT(60) DEF Becomes
<1>21. CASE PutLocks(c)
  BY <1>21 DEF PutLocks, LocksIdle
<1>22. CASE PutReturns(c)
  <2>1. \/ /\ Range(mine[c]) \subseteq all_conns
           /\ Becomes(Range(idle_pool) \cup Range(mine[c]), all_conns, open, c, {})
           /\ pc' = [pc EXCEPT ![c] = "put_push"]
        \/ /\ Becomes(Range(idle_pool), all_conns, open \ Range(mine[c]), c, {})
           /\ pc' = [pc EXCEPT ![c] = "idle"]
    BY <1>22, PutReturnsEffect
  <2>2. pc[c] = "put_all" /\ is_closed' = is_closed
    BY <1>22 DEF PutReturns
  <2>3. ASSUME Range(mine[c]) \subseteq all_conns,
               Becomes(Range(idle_pool) \cup Range(mine[c]), all_conns, open, c, {}),
               pc' = [pc EXCEPT ![c] = "put_push"]
        PROVE  NewInv'
    BY <2>2, <2>3 DEF Becomes
  <2>4. ASSUME Becomes(Range(idle_pool), all_conns, open \ Range(mine[c]), c, {}),
               pc' = [pc EXCEPT ![c] = "idle"]
        PROVE  NewInv'
    BY <2>2, <2>4, ZenonT(60) DEF Becomes
  <2> QED
    BY <2>1, <2>3, <2>4
<1>23. CASE PutPushes(c)
  BY <1>23 DEF PutPushes, Push
<1>24. CASE PushPanics(c)
  BY <1>24 DEF PushPanics
<1>25. CASE GetCounts(c)
  BY <1>25 DEF GetCounts, Counts
<1>26. CASE PutBegins(c)
  BY <1>26 DEF PutBegins
<1>27. CASE PutSubtracts(c)
  BY <1>27 DEF PutSubtracts, Counts
<1> QED
  BY <1>1, <1>2, <1>3, <1>4, <1>5, <1>6, <1>7, <1>8, <1>9, <1>10, <1>11, <1>12, <1>13, <1>14,
     <1>15, <1>16, <1>17, <1>18, <1>19, <1>20, <1>21, <1>22, <1>23, <1>24, <1>25, <1>26,
     <1>27 DEF ClientStep, CreateStep

(* The steps of maintenance and of the main thread preserve what has just been made, *)
(* and is not known yet.                                                             *)
LEMMA NewOther ==
  ASSUME LockInv, StageInv, HandInv, LoopInv, LimitInv, OwnInv, NewInv,
         MaintStep \/ MainStep \/ update_config \/ CloseBegins
  PROVE  NewInv'
<1> USE ConnPoolAssumption DEF NewInv, OwnInv, LockInv, Goto, Proc, poolVars
<1>1. ASSUME NEW p \in {Main, Maint}, CreateLocks(p) PROVE NewInv'
  BY <1>1 DEF CreateLocks
<1>2. ASSUME NEW p \in {Main, Maint}, CreateSucceeds(p) PROVE NewInv'
  <2>1. PICK k \in Fresh :
          Becomes(Range(idle_pool), all_conns, open \cup {k}, p, Range(mine[p]) \cup {k})
    BY <1>2, CreateSucceedsEffect
  <2>0. k \notin all_conns /\ k \notin open /\ \A q \in Proc : k \notin Range(mine[q])
    BY <2>1 DEF Fresh
  <2>2. pc[p] = "factory" /\ \E l \in {"create",
      "check_closed"} : pc' = [pc EXCEPT ![p] = l] /\ is_closed' = is_closed
    BY <1>2 DEF CreateSucceeds, Created
  <2> QED
    BY <2>0, <2>1, <2>2 DEF Becomes
<1>3. ASSUME NEW p \in {Main, Maint}, CreateFails(p) PROVE NewInv'
  BY <1>3 DEF CreateFails, Created
<1>4. ASSUME NEW p \in {Main, Maint}, PruneLocks(p) PROVE NewInv'
  BY <1>4 DEF PruneLocks
<1>5. ASSUME NEW p \in {Main, Maint}, PruneKeeps(p) PROVE NewInv'
  BY <1>5 DEF PruneKeeps
<1>6. ASSUME NEW p \in {Main, Maint}, PruneEvicts(p) PROVE NewInv'
  <2>1. PICK k \in Range(idle_pool) :
          Becomes(Range(idle_pool) \ {k}, all_conns \ {k}, open \ {k}, p, Range(mine[p]))
    BY <1>6, PruneEvictsEffect
  <2>2. pc[p] = "look" /\ pc' = pc /\ is_closed' = is_closed
    BY <1>6 DEF PruneEvicts
  <2> QED
    BY <2>1, <2>2 DEF Becomes
<1>7. ASSUME NEW p \in {Main, Maint}, PruneUnlocks(p) PROVE NewInv'
  BY <1>7 DEF PruneUnlocks
<1>8. ASSUME NEW p \in {Main, Maint}, PruneChecks(p) PROVE NewInv'
  <2>1. CASE is_closed
    <3>1. Becomes(Range(idle_pool), all_conns, open \ Range(mine[p]), p, {})
      BY <1>8, <2>1, PruneChecksEffect
    <3>2. pc[p] = "check_closed" /\ is_closed' = is_closed /\ \E l \in {"ready",
        "select"} : pc' = [pc EXCEPT ![p] = l] /\ (p = Main => l = "ready")
      BY <1>8, <2>1 DEF PruneChecks, PruneReturns
    <3> QED
      BY <2>1, <3>1, <3>2, ZenonT(60) DEF Becomes
  <2>2. CASE ~is_closed
    <3>1. /\ UNCHANGED <<all_conns, open, idle_pool, mine, is_closed>>
          /\ pc[p] = "check_closed" /\ pc' = [pc EXCEPT ![p] = "add"]
      BY <1>8, <2>2 DEF PruneChecks
    <3> QED
      BY <2>2, <3>1
  <2> QED
    BY <2>1, <2>2
<1>9. ASSUME NEW p \in {Main, Maint}, PruneLocksAgain(p) PROVE NewInv'
  BY <1>9 DEF PruneLocksAgain, LocksIdle
<1>10. ASSUME NEW p \in {Main, Maint}, PruneAdds(p) PROVE NewInv'
  <2>1. PICK A \in SUBSET Range(mine[p]) :
          Becomes(Range(idle_pool) \cup A, all_conns \cup A, open \ (Range(mine[p]) \ A), p, {})
    BY <1>10, PruneAddsEffect
  <2>2. \E l : pc' = [pc EXCEPT ![p] = l]
    BY <1>10 DEF PruneAdds, PruneReturns
  <2>3. pc \in [Proc -> Places] /\ \A q \in Proc \ {p} : Range(mine[q]) \cap Range(mine[p]) = {}
    OBVIOUS
  <2> HIDE DEF OwnInv, LockInv
  <2> QED
    BY <2>1, <2>2, <2>3 DEF Becomes
<1>11. CASE MaintStops
  BY <1>11 DEF MaintStops
<1>12. CASE MaintEvent
  BY <1>12 DEF MaintEvent, MaintPrunes
<1>13. CASE MaintTimer
  BY <1>13 DEF MaintTimer, MaintPrunes
<1>14. CASE update_config
  BY <1>14 DEF update_config
<1>15. CASE send_eviction
  BY <1>15 DEF send_eviction, Push
<1>16. CASE CloseBegins
  BY <1>16 DEF CloseBegins
<1>17. CASE CloseJoins
  BY <1>17 DEF CloseJoins, LocksIdle
<1>18. CASE CloseAll
  <2>1. Becomes({}, {}, open \ all_conns, Main, Range(mine[Main]))
    BY <1>18, CloseAllEffect
  <2>2. pc[Main] = "close_all" /\ pc' = [pc EXCEPT ![Main] = "close_queue"] /\ is_closed' = is_closed
    BY <1>18 DEF CloseAll
  <2> QED
    BY <2>1, <2>2 DEF Becomes
<1>19. CASE CloseQueue
  BY <1>19 DEF CloseQueue
<1>20. CASE CloseNotifies
  BY <1>20 DEF CloseNotifies
<1>21. CASE CloseEnds
  BY <1>21 DEF CloseEnds
<1>22. CASE CloseEvents
  BY <1>22 DEF CloseEvents
<1> QED
  BY <1>1, <1>2, <1>3, <1>4, <1>5, <1>6, <1>7, <1>8, <1>9, <1>10, <1>11, <1>12, <1>13, <1>14,
     <1>15, <1>16, <1>17, <1>18, <1>19, <1>20, <1>21, <1>22 DEF MaintStep, MainStep, PruneStep, CreateStep
(* A step of a client preserves the order in which close takes the pool apart. *)
LEMMA OrderClient ==
  ASSUME LockInv, StageInv, OrderInv, NEW c \in Client,
         GetBegins(c) \/ PutBegins(c) \/ ClientStep(c)
  PROVE  OrderInv'
<1> USE ConnPoolAssumption
    DEF OrderInv, LockInv, Goto, Proc, ClientPlaces, MaintPlaces, MainPlaces, Pruning, Closing,
        poolVars
<1>1. CASE CreateLocks(c)
  BY <1>1 DEF CreateLocks
<1>2. CASE CreateSucceeds(c)
  BY <1>2 DEF CreateSucceeds, Created
<1>3. CASE CreateFails(c)
  BY <1>3 DEF CreateFails, Created
<1>4. CASE TryLocks(c)
  BY <1>4 DEF TryLocks, LocksIdle
<1>5. CASE TryPushes(c)
  BY <1>5 DEF TryPushes, Push
<1>6. CASE TryTakes(c)
  BY <1>6 DEF TryTakes, TryReturns
<1>7. CASE TryDrops(c)
  BY <1>7 DEF TryDrops, Discards
<1>8. CASE TryNone(c)
  BY <1>8 DEF TryNone, TryReturns
<1>9. CASE GetBegins(c)
  BY <1>9 DEF GetBegins
<1>10. CASE GetLoops(c)
  BY <1>10 DEF GetLoops, CallsTry
<1>11. CASE GetPushes(c)
  BY <1>11 DEF GetPushes, Push
<1>12. CASE GetChecks(c)
  BY <1>12 DEF GetChecks, CallsTry
<1>13. CASE GetRechecks(c)
  BY <1>13 DEF GetRechecks, Drop, Holds
<1>14. CASE GetInserts(c)
  BY <1>14 DEF GetInserts, Drop, Holds, CallsTry
<1>15. CASE GetGivesUp(c)
  BY <1>15 DEF GetGivesUp
<1>16. CASE GetEnqueues(c)
  BY <1>16 DEF GetEnqueues
<1>17. CASE GetWakes(c)
  BY <1>17 DEF GetWakes
<1>18. CASE GetTimesOut(c)
  BY <1>18 DEF GetTimesOut, CallsTry
<1>19. CASE PutChecks(c)
  BY <1>19 DEF PutChecks, Drop, Holds
<1>20. CASE PutFails(c)
  BY <1>20 DEF PutFails, Drop, Holds, Discards
<1>21. CASE PutLocks(c)
  BY <1>21 DEF PutLocks, LocksIdle
<1>22. CASE PutReturns(c)
  BY <1>22 DEF PutReturns, Drop, Holds, try_wakeup_waiters
<1>23. CASE PutPushes(c)
  BY <1>23 DEF PutPushes, Push
<1>24. CASE PushPanics(c)
  BY <1>24 DEF PushPanics
<1>25. CASE GetCounts(c)
  BY <1>25 DEF GetCounts, Counts
<1>26. CASE PutBegins(c)
  BY <1>26 DEF PutBegins
<1>27. CASE PutSubtracts(c)
  BY <1>27 DEF PutSubtracts, Counts
<1> QED
  BY <1>1, <1>2, <1>3, <1>4, <1>5, <1>6, <1>7, <1>8, <1>9, <1>10, <1>11, <1>12, <1>13, <1>14,
     <1>15, <1>16, <1>17, <1>18, <1>19, <1>20, <1>21, <1>22, <1>23, <1>24, <1>25, <1>26,
     <1>27 DEF ClientStep, CreateStep

(* The steps of maintenance and of the main thread preserve the order in which close *)
(* takes the pool apart.                                                             *)
LEMMA OrderOther ==
  ASSUME LockInv, StageInv, OrderInv,
         MaintStep \/ MainStep \/ update_config \/ CloseBegins
  PROVE  OrderInv'
<1> USE ConnPoolAssumption
    DEF OrderInv, LockInv, Goto, Proc, ClientPlaces, MaintPlaces, MainPlaces, Pruning, Closing,
        poolVars
<1>1. ASSUME NEW p \in {Main, Maint}, CreateLocks(p) PROVE OrderInv'
  BY <1>1 DEF CreateLocks
<1>2. ASSUME NEW p \in {Main, Maint}, CreateSucceeds(p) PROVE OrderInv'
  BY <1>2 DEF CreateSucceeds, Created
<1>3. ASSUME NEW p \in {Main, Maint}, CreateFails(p) PROVE OrderInv'
  BY <1>3 DEF CreateFails, Created
<1>4. ASSUME NEW p \in {Main, Maint}, PruneLocks(p) PROVE OrderInv'
  BY <1>4 DEF PruneLocks
<1>5. ASSUME NEW p \in {Main, Maint}, PruneKeeps(p) PROVE OrderInv'
  BY <1>5 DEF PruneKeeps
<1>6. ASSUME NEW p \in {Main, Maint}, PruneEvicts(p) PROVE OrderInv'
  BY <1>6 DEF PruneEvicts, Discards
<1>7. ASSUME NEW p \in {Main, Maint}, PruneUnlocks(p) PROVE OrderInv'
  BY <1>7 DEF PruneUnlocks
<1>8. ASSUME NEW p \in {Main, Maint}, PruneChecks(p) PROVE OrderInv'
  BY <1>8 DEF PruneChecks, Drop, PruneReturns
<1>9. ASSUME NEW p \in {Main, Maint}, PruneLocksAgain(p) PROVE OrderInv'
  BY <1>9 DEF PruneLocksAgain, LocksIdle
<1>10. ASSUME NEW p \in {Main, Maint}, PruneAdds(p) PROVE OrderInv'
  BY <1>10 DEF PruneAdds, Drop, PruneReturns, try_wakeup_waiters
<1>11. CASE MaintStops
  BY <1>11 DEF MaintStops
<1>12. CASE MaintEvent
  BY <1>12 DEF MaintEvent, MaintPrunes
<1>13. CASE MaintTimer
  BY <1>13 DEF MaintTimer, MaintPrunes
<1>14. CASE update_config
  BY <1>14 DEF update_config
<1>15. CASE send_eviction
  BY <1>15 DEF send_eviction, Push
<1>16. CASE CloseBegins
  BY <1>16 DEF CloseBegins
<1>17. CASE CloseJoins
  BY <1>17 DEF CloseJoins, LocksIdle
<1>18. CASE CloseAll
  BY <1>18 DEF CloseAll
<1>19. CASE CloseQueue
  BY <1>19 DEF CloseQueue
<1>20. CASE CloseNotifies
  BY <1>20 DEF CloseNotifies
<1>21. CASE CloseEnds
  BY <1>21 DEF CloseEnds
<1>22. CASE CloseEvents
  BY <1>22 DEF CloseEvents
<1> QED
  BY <1>1, <1>2, <1>3, <1>4, <1>5, <1>6, <1>7, <1>8, <1>9, <1>10, <1>11, <1>12, <1>13, <1>14,
     <1>15, <1>16, <1>17, <1>18, <1>19, <1>20, <1>21, <1>22 DEF MaintStep, MainStep, PruneStep, CreateStep
(* A step of a client preserves what clients use while the pool is open and bring back *)
(* when it is not.                                                                     *)
LEMMA KnownClient ==
  ASSUME LockInv, StageInv, HandInv, LoopInv, LimitInv, OwnInv, NewInv, OrderInv, KnownInv,
         NEW c \in Client,
         GetBegins(c) \/ PutBegins(c) \/ ClientStep(c)
  PROVE  KnownInv'
<1> USE ConnPoolAssumption DEF KnownInv, OwnInv, LockInv, Goto, Proc, Emptied, poolVars
<1>1. CASE CreateLocks(c)
  BY <1>1 DEF CreateLocks
<1>2. CASE CreateSucceeds(c)
  <2>1. PICK k \in Fresh :
          Becomes(Range(idle_pool), all_conns, open \cup {k}, c, Range(mine[c]) \cup {k})
    BY <1>2, CreateSucceedsEffect
  <2>0. k \notin all_conns /\ k \notin open /\ \A q \in Proc : k \notin Range(mine[q])
    BY <2>1 DEF Fresh
  <2>2. pc[c] = "factory" /\ \E l \in {"recheck"} : pc' = [pc EXCEPT ![c] = l] /\ is_closed' = is_closed
    BY <1>2 DEF CreateSucceeds, Created
  <2> QED
    BY <2>0, <2>1, <2>2 DEF Becomes
<1>3. CASE CreateFails(c)
  BY <1>3 DEF CreateFails, Created
<1>4. CASE TryLocks(c)
  BY <1>4 DEF TryLocks, LocksIdle
<1>5. CASE TryPushes(c)
  BY <1>5 DEF TryPushes, Push
<1>6. CASE TryTakes(c)
  <2>1. PICK k \in Range(idle_pool) :
          Becomes(Range(idle_pool) \ {k}, all_conns, open, c, {k})
    BY <1>6, TryTakesEffect
  <2>2. pc[c] = "try_pop" /\ idle_pool # <<>> /\ \E l \in {"get_push",
      "using"} : pc' = [pc EXCEPT ![c] = l] /\ is_closed' = is_closed
    BY <1>6 DEF TryTakes, TryReturns
  <2> QED
    BY <2>1, <2>2 DEF Becomes
<1>7. CASE TryDrops(c)
  <2>1. PICK k \in Range(idle_pool) :
          Becomes(Range(idle_pool) \ {k}, all_conns \ {k}, open \ {k}, c, Range(mine[c]))
    BY <1>7, TryDropsEffect
  <2>2. pc[c] = "try_pop" /\ idle_pool # <<>> /\ pc' = pc /\ is_closed' = is_closed
    BY <1>7 DEF TryDrops
  <2> QED
    BY <2>1, <2>2 DEF Becomes
<1>8. CASE TryNone(c)
  BY <1>8 DEF TryNone, TryReturns, StageInv, Trying
<1>9. CASE GetBegins(c)
  BY <1>9 DEF GetBegins
<1>10. CASE GetLoops(c)
  BY <1>10 DEF GetLoops, CallsTry
<1>11. CASE GetPushes(c)
  BY <1>11 DEF GetPushes, Push
<1>12. CASE GetChecks(c)
  BY <1>12 DEF GetChecks, CallsTry
<1>13. CASE GetRechecks(c)
  <2>1. CASE is_closed
    <3>1. Becomes(Range(idle_pool), all_conns, open \ Range(mine[c]), c, {})
      BY <1>13, <2>1, GetRechecksEffect
    <3>2. pc[c] = "recheck" /\ is_closed' = is_closed /\ pc' = [pc EXCEPT ![c] = "idle"]
      BY <1>13, <2>1 DEF GetRechecks, PruneReturns
    <3> QED
      BY <2>1, <3>1, <3>2 DEF Becomes
  <2>2. CASE ~is_closed
    <3>1. /\ UNCHANGED <<all_conns, open, idle_pool, mine, is_closed>>
          /\ pc[c] = "recheck" /\ pc' = [pc EXCEPT ![c] = "insert"]
      BY <1>13, <2>2 DEF GetRechecks
    <3> QED
      BY <2>2, <3>1
  <2> QED
    BY <2>1, <2>2
<1>14. CASE GetInserts(c)
  <2>1. \/ /\ Becomes(Range(idle_pool), all_conns \cup Range(mine[c]), open, c, Range(mine[c]))
           /\ pc' = [pc EXCEPT ![c] = "count"]
        \/ /\ Becomes(Range(idle_pool), all_conns, open \ Range(mine[c]), c, {})
           /\ \E l \in {"try", "idle"} : pc' = [pc EXCEPT ![c] = l]
    BY <1>14, GetInsertsEffect
  <2>2. pc[c] = "insert" /\ is_closed' = is_closed
    BY <1>14 DEF GetInserts
  <2>3. ASSUME Becomes(Range(idle_pool), all_conns \cup Range(mine[c]), open, c, Range(mine[c])),
               pc' = [pc EXCEPT ![c] = "count"]
        PROVE  KnownInv'
    BY <2>2, <2>3, ZenonT(60) DEF Becomes, NewInv
  <2>4. ASSUME Becomes(Range(idle_pool), all_conns, open \ Range(mine[c]), c, {}),
               \E l \in {"try", "idle"} : pc' = [pc EXCEPT ![c] = l]
        PROVE  KnownInv'
    BY <2>2, <2>4, ZenonT(60) DEF Becomes
  <2> QED
    BY <2>1, <2>3, <2>4
<1>15. CASE GetGivesUp(c)
  BY <1>15 DEF GetGivesUp
<1>16. CASE GetEnqueues(c)
  BY <1>16 DEF GetEnqueues
<1>17. CASE GetWakes(c)
  BY <1>17 DEF GetWakes
<1>18. CASE GetTimesOut(c)
  BY <1>18 DEF GetTimesOut, CallsTry
<1>19. CASE PutChecks(c)
  <2>1. CASE is_closed
    <3>1. Becomes(Range(idle_pool), all_conns, open \ Range(mine[c]), c, {})
      BY <1>19, <2>1, PutChecksEffect
    <3>2. pc[c] = "put_check" /\ is_closed' = is_closed /\ pc' = [pc EXCEPT ![c] = "idle"]
      BY <1>19, <2>1 DEF PutChecks, PruneReturns
    <3> QED
      BY <2>1, <3>1, <3>2 DEF Becomes
  <2>2. CASE ~is_closed
    <3>1. /\ UNCHANGED <<all_conns, open, idle_pool, mine, is_closed>>
          /\ pc[Main] \notin Emptied
          /\ pc[c] = "put_check" /\ pc' = [pc EXCEPT ![c] = "reset"]
      BY <1>19, <2>2 DEF PutChecks, OrderInv, Closing
    <3> QED
      BY <2>2, <3>1
  <2> QED
    BY <2>1, <2>2
<1>20. CASE PutFails(c)
  <2>1. Becomes(Range(idle_pool), all_conns \ Range(mine[c]), open \ Range(mine[c]), c, {})
    BY <1>20, PutFailsEffect
  <2>2. pc[c] = "reset" /\ pc' = [pc EXCEPT ![c] = "idle"] /\ is_closed' = is_closed
    BY <1>20 DEF PutFails
  <2> QED
    BY <2>1, <2>2, ZenonT(60) DEF Becomes
<1>21. CASE PutLocks(c)
  BY <1>21 DEF PutLocks, LocksIdle
<1>22. CASE PutReturns(c)
  <2>1. \/ /\ Range(mine[c]) \subseteq all_conns
           /\ Becomes(Range(idle_pool) \cup Range(mine[c]), all_conns, open, c, {})
           /\ pc' = [pc EXCEPT ![c] = "put_push"]
        \/ /\ Becomes(Range(idle_pool), all_conns, open \ Range(mine[c]), c, {})
           /\ pc' = [pc EXCEPT ![c] = "idle"]
    BY <1>22, PutReturnsEffect
  <2>2. pc[c] = "put_all" /\ is_closed' = is_closed
    BY <1>22 DEF PutReturns
  <2>3. ASSUME Range(mine[c]) \subseteq all_conns,
               Becomes(Range(idle_pool) \cup Range(mine[c]), all_conns, open, c, {}),
               pc' = [pc EXCEPT ![c] = "put_push"]
        PROVE  KnownInv'
    BY <2>2, <2>3 DEF Becomes
  <2>4. ASSUME Becomes(Range(idle_pool), all_conns, open \ Range(mine[c]), c, {}),
               pc' = [pc EXCEPT ![c] = "idle"]
        PROVE  KnownInv'
    BY <2>2, <2>4, ZenonT(60) DEF Becomes
  <2> QED
    BY <2>1, <2>3, <2>4
<1>23. CASE PutPushes(c)
  BY <1>23 DEF PutPushes, Push
<1>24. CASE PushPanics(c)
  BY <1>24 DEF PushPanics
<1>25. CASE GetCounts(c)
  BY <1>25 DEF GetCounts, Counts
<1>26. CASE PutBegins(c)
  BY <1>26 DEF PutBegins
<1>27. CASE PutSubtracts(c)
  BY <1>27 DEF PutSubtracts, Counts
<1> QED
  BY <1>1, <1>2, <1>3, <1>4, <1>5, <1>6, <1>7, <1>8, <1>9, <1>10, <1>11, <1>12, <1>13, <1>14,
     <1>15, <1>16, <1>17, <1>18, <1>19, <1>20, <1>21, <1>22, <1>23, <1>24, <1>25, <1>26,
     <1>27 DEF ClientStep, CreateStep

(* The steps of maintenance and of the main thread preserve what clients use while the *)
(* pool is open and bring back when it is not.                                         *)
LEMMA KnownOther ==
  ASSUME LockInv, StageInv, HandInv, LoopInv, LimitInv, OwnInv, NewInv, OrderInv, KnownInv,
         MaintStep \/ MainStep \/ update_config \/ CloseBegins
  PROVE  KnownInv'
<1> USE ConnPoolAssumption DEF KnownInv, OwnInv, LockInv, Goto, Proc, Emptied, poolVars
<1>1. ASSUME NEW p \in {Main, Maint}, CreateLocks(p) PROVE KnownInv'
  BY <1>1 DEF CreateLocks
<1>2. ASSUME NEW p \in {Main, Maint}, CreateSucceeds(p) PROVE KnownInv'
  <2>1. PICK k \in Fresh :
          Becomes(Range(idle_pool), all_conns, open \cup {k}, p, Range(mine[p]) \cup {k})
    BY <1>2, CreateSucceedsEffect
  <2>0. k \notin all_conns /\ k \notin open /\ \A q \in Proc : k \notin Range(mine[q])
    BY <2>1 DEF Fresh
  <2>2. pc[p] = "factory" /\ \E l \in {"create",
      "check_closed"} : pc' = [pc EXCEPT ![p] = l] /\ is_closed' = is_closed
    BY <1>2 DEF CreateSucceeds, Created
  <2> QED
    BY <2>0, <2>1, <2>2 DEF Becomes
<1>3. ASSUME NEW p \in {Main, Maint}, CreateFails(p) PROVE KnownInv'
  BY <1>3 DEF CreateFails, Created
<1>4. ASSUME NEW p \in {Main, Maint}, PruneLocks(p) PROVE KnownInv'
  BY <1>4 DEF PruneLocks
<1>5. ASSUME NEW p \in {Main, Maint}, PruneKeeps(p) PROVE KnownInv'
  BY <1>5 DEF PruneKeeps
<1>6. ASSUME NEW p \in {Main, Maint}, PruneEvicts(p) PROVE KnownInv'
  <2>1. PICK k \in Range(idle_pool) :
          Becomes(Range(idle_pool) \ {k}, all_conns \ {k}, open \ {k}, p, Range(mine[p]))
    BY <1>6, PruneEvictsEffect
  <2>2. pc[p] = "look" /\ pc' = pc /\ is_closed' = is_closed
    BY <1>6 DEF PruneEvicts
  <2> QED
    BY <2>1, <2>2 DEF Becomes
<1>7. ASSUME NEW p \in {Main, Maint}, PruneUnlocks(p) PROVE KnownInv'
  BY <1>7 DEF PruneUnlocks
<1>8. ASSUME NEW p \in {Main, Maint}, PruneChecks(p) PROVE KnownInv'
  <2>1. CASE is_closed
    <3>1. Becomes(Range(idle_pool), all_conns, open \ Range(mine[p]), p, {})
      BY <1>8, <2>1, PruneChecksEffect
    <3>2. pc[p] = "check_closed" /\ is_closed' = is_closed /\ \E l \in {"ready",
        "select"} : pc' = [pc EXCEPT ![p] = l] /\ (p = Main => l = "ready")
      BY <1>8, <2>1 DEF PruneChecks, PruneReturns
    <3> QED
      BY <2>1, <3>1, <3>2 DEF Becomes
  <2>2. CASE ~is_closed
    <3>1. /\ UNCHANGED <<all_conns, open, idle_pool, mine, is_closed>>
          /\ pc[p] = "check_closed" /\ pc' = [pc EXCEPT ![p] = "add"]
      BY <1>8, <2>2 DEF PruneChecks
    <3> QED
      BY <2>2, <3>1
  <2> QED
    BY <2>1, <2>2
<1>9. ASSUME NEW p \in {Main, Maint}, PruneLocksAgain(p) PROVE KnownInv'
  BY <1>9 DEF PruneLocksAgain, LocksIdle
<1>10. ASSUME NEW p \in {Main, Maint}, PruneAdds(p) PROVE KnownInv'
  <2>1. PICK A \in SUBSET Range(mine[p]) :
          Becomes(Range(idle_pool) \cup A, all_conns \cup A, open \ (Range(mine[p]) \ A), p, {})
    BY <1>10, PruneAddsEffect, ZenonT(60)
  <2>2. pc[p] = "add_all" /\ \E l \in {"ready",
      "select"} : pc' = [pc EXCEPT ![p] = l] /\ (p = Main => l = "ready") /\ is_closed' = is_closed
    BY <1>10 DEF PruneAdds, PruneReturns
  <2>3. pc[Main] \notin Emptied
    BY <2>2 DEF OrderInv, Closing
  <2>4. /\ pc \in [Proc -> Places] /\ p \notin Client
        /\ \A q \in Proc \ {p} : Range(mine[q]) \cap Range(mine[p]) = {}
    OBVIOUS
  <2>5. pc'[Main] \notin Emptied /\ \A c \in Client : pc'[c] = pc[c] /\ mine'[c] = mine[c]
    BY <2>1, <2>2, <2>3, <2>4 DEF Becomes
  <2> HIDE DEF OwnInv, LockInv
  <2> QED
    BY <2>1, <2>2, <2>4, <2>5 DEF Becomes
<1>11. CASE MaintStops
  BY <1>11 DEF MaintStops
<1>12. CASE MaintEvent
  BY <1>12 DEF MaintEvent, MaintPrunes
<1>13. CASE MaintTimer
  BY <1>13 DEF MaintTimer, MaintPrunes
<1>14. CASE update_config
  BY <1>14 DEF update_config
<1>15. CASE send_eviction
  BY <1>15 DEF send_eviction, Push
<1>16. CASE CloseBegins
  BY <1>16 DEF CloseBegins
<1>17. CASE CloseJoins
  BY <1>17 DEF CloseJoins, LocksIdle
<1>18. CASE CloseAll
  <2>1. Becomes({}, {}, open \ all_conns, Main, Range(mine[Main]))
    BY <1>18, CloseAllEffect
  <2>2. pc[Main] = "close_all" /\ pc' = [pc EXCEPT ![Main] = "close_queue"] /\ is_closed' = is_closed
    BY <1>18 DEF CloseAll
  <2>3. is_closed
    BY <2>2 DEF OrderInv, Closing
  <2> QED
    BY <2>1, <2>2, <2>3 DEF Becomes
<1>19. CASE CloseQueue
  BY <1>19 DEF CloseQueue
<1>20. CASE CloseNotifies
  BY <1>20 DEF CloseNotifies
<1>21. CASE CloseEnds
  BY <1>21 DEF CloseEnds
<1>22. CASE CloseEvents
  BY <1>22 DEF CloseEvents
<1> QED
  BY <1>1, <1>2, <1>3, <1>4, <1>5, <1>6, <1>7, <1>8, <1>9, <1>10, <1>11, <1>12, <1>13, <1>14,
     <1>15, <1>16, <1>17, <1>18, <1>19, <1>20, <1>21, <1>22 DEF MaintStep, MainStep, PruneStep, CreateStep

-----------------------------------------------------------------------------
(* Who waits *)

(* The call of get of a client goes on, or is left, without a new reason to wait. *)
GoesOn(d) ==
  /\ d \in Range(wait_queue') => pc'[d] = "waiting"
  /\ Leaving(d) => Leaving(d)'
  /\ InGet(d)' => InGet(d)

(* A step may take clients from the queue, and may notify only those that were in it. *)
LEMMA WaitStep ==
  ASSUME WaitInv, UNCHANGED <<gets, waiters>>,
         wait_queue' \in Seq(Client), IsInjective(wait_queue'),
         Range(wait_queue') \subseteq Range(wait_queue),
         notified' \in [Client -> BOOLEAN],
         \A d \in Client : notified'[d] => notified[d] \/ d \in Range(wait_queue),
         \A d \in Range(wait_queue') : ~notified'[d],
         \A d \in Client : GoesOn(d)
  PROVE  WaitInv'
<1>1. Range(wait_queue) \subseteq Client /\ Range(wait_queue') \subseteq Client
  BY RangeFacts DEF WaitInv
<1>2. \A d \in Range(wait_queue') : pc'[d] = "waiting"
  BY <1>1 DEF GoesOn
<1>3. ASSUME NEW d \in Client, notified'[d] PROVE Leaving(d)'
  <2>1. Leaving(d)
    BY <1>3 DEF WaitInv, Leaving
  <2> QED
    BY <2>1 DEF GoesOn
<1>4. ASSUME NEW w \in Range(waiters), InGet(w[1])', gets[w[1]] = w[2]
      PROVE  Leaving(w[1])' /\ ~notified'[w[1]] /\ w[1] \notin Range(wait_queue')
  <2>1. w[1] \in Client
    BY RangeFacts DEF WaitInv
  <2>2. Leaving(w[1]) /\ ~notified[w[1]] /\ w[1] \notin Range(wait_queue)
    BY <1>4, <2>1 DEF WaitInv, GoesOn
  <2> QED
    BY <2>1, <2>2 DEF GoesOn
<1>5. Range(waiters') = Range(waiters) /\ \A c : InGet(c)' <=> pc'[c] \notin
        {"idle", "using", "put_sub", "put_check", "reset", "put_all", "put_push"}
  BY DEF InGet
<1> QED
  BY <1>2, <1>3, <1>4, <1>5 DEF WaitInv, InGet

(* The steps that leave the queue and the notifications alone. *)
LEMMA WaitSame ==
  ASSUME WaitInv, UNCHANGED <<gets, waiters, wait_queue, notified>>,
         \A d \in Client : GoesOn(d)
  PROVE  WaitInv'
<1>1. \A d \in Range(wait_queue) : d \in Client /\ ~notified[d]
  BY RangeFacts DEF WaitInv
<1> QED
  BY <1>1, WaitStep DEF WaitInv

(* try_wakeup_waiters takes at most the first of the queue, and notifies it. *)
LEMMA WakesFirst ==
  ASSUME WaitInv, NEW idle, NEW all,
         try_wakeup_waiters(idle, all) \/ UNCHANGED <<notified, wait_queue>>
  PROVE  /\ wait_queue' \in Seq(Client) /\ IsInjective(wait_queue')
         /\ Range(wait_queue') \subseteq Range(wait_queue)
         /\ notified' \in [Client -> BOOLEAN]
         /\ \A d \in Client : notified'[d] => notified[d] \/ d \in Range(wait_queue)
         /\ \A d \in Range(wait_queue') : ~notified'[d]
<1>1. wait_queue \in Seq(Client) /\ IsInjective(wait_queue) /\ Range(wait_queue) \subseteq Client
  BY RangeFacts DEF WaitInv
<1>2. CASE UNCHANGED <<notified, wait_queue>>
  BY <1>1, <1>2 DEF WaitInv
<1>3. CASE /\ wait_queue # <<>> /\ wait_queue' = Tail(wait_queue)
           /\ notified' = [notified EXCEPT ![Head(wait_queue)] = TRUE]
  <2>1. /\ Tail(wait_queue) \in Seq(Client) /\ IsInjective(Tail(wait_queue))
        /\ Head(wait_queue) \in Range(wait_queue) /\ Head(wait_queue) \in Client
        /\ Range(Tail(wait_queue)) \subseteq Range(wait_queue)
        /\ Head(wait_queue) \notin Range(Tail(wait_queue))
    BY <1>1, <1>3, HeadTailFacts
  <2> QED
    BY <1>1, <1>3, <2>1 DEF WaitInv
<1> QED
  BY <1>2, <1>3 DEF try_wakeup_waiters

(* A step of a client preserves the wait queue, the notifications and the list of *)
(* close.                                                                         *)
LEMMA WaitClient ==
  ASSUME LockInv, StageInv, WaitInv, NEW c \in Client,
         GetBegins(c) \/ PutBegins(c) \/ ClientStep(c)
  PROVE  WaitInv'
<1> USE ConnPoolAssumption
    DEF WaitInv, GoesOn, LockInv, StageInv, Leaving, InGet, Trying, Goto, Proc, poolVars,
        localVars, loopVars, boundVars
<1>1. CASE CreateLocks(c)
  <2>1. UNCHANGED <<gets, waiters, wait_queue, notified>>
    BY <1>1 DEF CreateLocks
  <2>2. ASSUME NEW d \in Client PROVE GoesOn(d)
    BY <1>1, RangeFacts DEF CreateLocks
  <2> HIDE DEF WaitInv
  <2> QED
    BY <2>1, <2>2, WaitSame
<1>2. CASE CreateSucceeds(c)
  <2>1. UNCHANGED <<gets, waiters, wait_queue, notified>>
    BY <1>2 DEF CreateSucceeds, Created
  <2>2. ASSUME NEW d \in Client PROVE GoesOn(d)
    BY <1>2, RangeFacts DEF CreateSucceeds, Created
  <2> HIDE DEF WaitInv
  <2> QED
    BY <2>1, <2>2, WaitSame
<1>3. CASE CreateFails(c)
  <2>1. UNCHANGED <<gets, waiters, wait_queue, notified>>
    BY <1>3 DEF CreateFails, Created
  <2>2. ASSUME NEW d \in Client PROVE GoesOn(d)
    BY <1>3, RangeFacts DEF CreateFails, Created
  <2> HIDE DEF WaitInv
  <2> QED
    BY <2>1, <2>2, WaitSame
<1>4. CASE TryLocks(c)
  <2>1. UNCHANGED <<gets, waiters, wait_queue, notified>>
    BY <1>4 DEF TryLocks, LocksIdle
  <2>2. ASSUME NEW d \in Client PROVE GoesOn(d)
    BY <1>4, RangeFacts DEF TryLocks, LocksIdle
  <2> HIDE DEF WaitInv
  <2> QED
    BY <2>1, <2>2, WaitSame
<1>5. CASE TryPushes(c)
  <2>1. UNCHANGED <<gets, waiters, wait_queue, notified>>
    BY <1>5 DEF TryPushes, Push
  <2>2. ASSUME NEW d \in Client PROVE GoesOn(d)
    BY <1>5, RangeFacts DEF TryPushes, Push
  <2> HIDE DEF WaitInv
  <2> QED
    BY <2>1, <2>2, WaitSame
<1>6. CASE TryTakes(c)
  <2>1. UNCHANGED <<gets, waiters, wait_queue, notified>>
    BY <1>6 DEF TryTakes, TryReturns
  <2>2. ASSUME NEW d \in Client PROVE GoesOn(d)
    BY <1>6, RangeFacts DEF TryTakes, TryReturns
  <2> HIDE DEF WaitInv
  <2> QED
    BY <2>1, <2>2, WaitSame
<1>7. CASE TryDrops(c)
  <2>1. UNCHANGED <<gets, waiters, wait_queue, notified>>
    BY <1>7 DEF TryDrops, Discards
  <2>2. ASSUME NEW d \in Client PROVE GoesOn(d)
    BY <1>7, RangeFacts DEF TryDrops, Discards
  <2> HIDE DEF WaitInv
  <2> QED
    BY <2>1, <2>2, WaitSame
<1>8. CASE TryNone(c)
  <2>1. UNCHANGED <<gets, waiters, wait_queue, notified>>
    BY <1>8 DEF TryNone, TryReturns
  <2>2. ASSUME NEW d \in Client PROVE GoesOn(d)
    BY <1>8, RangeFacts DEF TryNone, TryReturns
  <2> HIDE DEF WaitInv
  <2> QED
    BY <2>1, <2>2, WaitSame
<1>9. CASE GetBegins(c)
  <2>1. /\ UNCHANGED <<waiters, wait_queue, stage>> /\ pc' = [pc EXCEPT ![c] = "get"]
        /\ pc[c] = "idle" /\ gets' = [gets EXCEPT ![c] = gets[c] - 1] /\ gets[c] > 0
        /\ notified' = [notified EXCEPT ![c] = FALSE]
    BY <1>9 DEF GetBegins
  <2>2. c \notin Range(wait_queue) /\ Range(wait_queue) \subseteq Client
    BY <2>1, RangeFacts
  <2>3. gets' \in [Client -> Nat] /\ notified' \in [Client -> BOOLEAN]
    BY <2>1
  <2>4. \A d \in Client : d # c => /\ Leaving(d)' = Leaving(d) /\ gets'[d] = gets[d]
                                   /\ notified'[d] = notified[d] /\ pc'[d] = pc[d]
    BY <2>1
  <2>5. ASSUME NEW w \in Range(waiters)
        PROVE  /\ gets'[w[1]] <= w[2]
               /\ InGet(w[1])' /\ gets'[w[1]] = w[2]
                    => Leaving(w[1])' /\ ~notified'[w[1]] /\ w[1] \notin Range(wait_queue)
    <3>1. w[1] \in Client /\ w[2] \in Nat /\ gets[w[1]] <= w[2]
      BY RangeFacts
    <3>2. CASE w[1] = c
      BY <2>1, <3>1, <3>2
    <3>3. CASE w[1] # c
      BY <2>4, <3>1, <3>3
    <3> QED
      BY <3>2, <3>3
  <2>6. \A d \in Client : notified'[d] => Leaving(d)'
    BY <2>1, <2>4
  <2>7. \A d \in Range(wait_queue') : pc'[d] = "waiting" /\ ~notified'[d]
    BY <2>1, <2>2, <2>4
  <2> QED
    BY <2>1, <2>3, <2>5, <2>6, <2>7
<1>10. CASE GetLoops(c)
  <2>1. /\ UNCHANGED <<gets, waiters, wait_queue, notified>> /\ pc[c] = "get"
        /\ \E l \in {"idle", "try"} : pc' = [pc EXCEPT ![c] = l]
        /\ stage' = stage \/ stage' = [stage EXCEPT ![c] = "first"]
    BY <1>10 DEF GetLoops, CallsTry
  <2>2. \A d \in Range(wait_queue) : d \in Client /\ pc[d] = "waiting"
    BY RangeFacts
  <2>3. ~Leaving(c) /\ c \notin Range(wait_queue) /\ InGet(c)
    BY <2>1, <2>2
  <2>4. \A d \in Client : d # c => pc'[d] = pc[d] /\ stage'[d] = stage[d]
    BY <2>1
  <2> HIDE DEF WaitInv, LockInv, StageInv
  <2>5. ASSUME NEW d \in Client PROVE GoesOn(d)
    <3>1. CASE d = c
      BY <2>1, <2>3, <3>1
    <3>2. CASE d # c
      BY <2>1, <2>2, <2>4, <3>2
    <3> QED
      BY <3>1, <3>2
  <2> QED
    BY <2>1, <2>5, WaitSame
<1>11. CASE GetPushes(c)
  <2>1. UNCHANGED <<gets, waiters, wait_queue, notified>>
    BY <1>11 DEF GetPushes, Push
  <2>2. ASSUME NEW d \in Client PROVE GoesOn(d)
    BY <1>11, RangeFacts DEF GetPushes, Push
  <2> HIDE DEF WaitInv
  <2> QED
    BY <2>1, <2>2, WaitSame
<1>12. CASE GetChecks(c)
  <2>1. /\ UNCHANGED <<gets, waiters, wait_queue, notified>> /\ pc[c] = "can_create"
        /\ \E l \in {"create", "try"} : pc' = [pc EXCEPT ![c] = l]
        /\ stage' = stage \/ stage' = [stage EXCEPT ![c] = "second"]
    BY <1>12 DEF GetChecks, CallsTry
  <2>2. \A d \in Range(wait_queue) : d \in Client /\ pc[d] = "waiting"
    BY RangeFacts
  <2>3. ~Leaving(c) /\ c \notin Range(wait_queue) /\ InGet(c)
    BY <2>1, <2>2
  <2>4. \A d \in Client : d # c => pc'[d] = pc[d] /\ stage'[d] = stage[d]
    BY <2>1
  <2> HIDE DEF WaitInv, LockInv, StageInv
  <2>5. ASSUME NEW d \in Client PROVE GoesOn(d)
    <3>1. CASE d = c
      BY <2>1, <2>3, <3>1
    <3>2. CASE d # c
      BY <2>1, <2>2, <2>4, <3>2
    <3> QED
      BY <3>1, <3>2
  <2> QED
    BY <2>1, <2>5, WaitSame
<1>13. CASE GetRechecks(c)
  <2>1. UNCHANGED <<gets, waiters, wait_queue, notified>>
    BY <1>13 DEF GetRechecks, Drop, Holds
  <2>2. ASSUME NEW d \in Client PROVE GoesOn(d)
    BY <1>13, RangeFacts DEF GetRechecks, Drop, Holds
  <2> HIDE DEF WaitInv
  <2> QED
    BY <2>1, <2>2, WaitSame
<1>14. CASE GetInserts(c)
  <2>1. /\ UNCHANGED <<gets, waiters, wait_queue, notified>> /\ pc[c] = "insert"
        /\ \E l \in {"count", "try", "idle"} : pc' = [pc EXCEPT ![c] = l]
        /\ stage' = stage \/ stage' = [stage EXCEPT ![c] = "second"]
    BY <1>14 DEF GetInserts, CallsTry
  <2>2. \A d \in Range(wait_queue) : d \in Client /\ pc[d] = "waiting"
    BY RangeFacts
  <2>3. ~Leaving(c) /\ c \notin Range(wait_queue) /\ InGet(c)
    BY <2>1, <2>2
  <2>4. \A d \in Client : d # c => pc'[d] = pc[d] /\ stage'[d] = stage[d]
    BY <2>1
  <2> HIDE DEF WaitInv, LockInv, StageInv
  <2>5. ASSUME NEW d \in Client PROVE GoesOn(d)
    <3>1. CASE d = c
      BY <2>1, <2>3, <3>1
    <3>2. CASE d # c
      BY <2>1, <2>2, <2>4, <3>2
    <3> QED
      BY <3>1, <3>2
  <2> QED
    BY <2>1, <2>5, WaitSame
<1>15. CASE GetGivesUp(c)
  <2>1. UNCHANGED <<gets, waiters, wait_queue, notified>>
    BY <1>15 DEF GetGivesUp
  <2>2. ASSUME NEW d \in Client PROVE GoesOn(d)
    BY <1>15, RangeFacts DEF GetGivesUp
  <2> HIDE DEF WaitInv
  <2> QED
    BY <2>1, <2>2, WaitSame
<1>16. CASE GetEnqueues(c)
  <2>1. /\ wait_queue' = Append(wait_queue, c) /\ UNCHANGED <<gets, waiters, stage, notified>>
        /\ pc[c] = "enqueue" /\ pc' = [pc EXCEPT ![c] = "waiting"]
    BY <1>16 DEF GetEnqueues
  <2>2. ~Leaving(c) /\ Range(wait_queue) \subseteq Client
    BY <2>1, RangeFacts
  <2>3. c \notin Range(wait_queue) /\ ~notified[c]
    BY <2>1, <2>2
  <2>4. /\ wait_queue' \in Seq(Client) /\ IsInjective(wait_queue')
        /\ Range(wait_queue') = Range(wait_queue) \cup {c}
    BY <2>1, <2>3, AppendFacts
  <2>5. \A d \in Client : d # c => Leaving(d)' = Leaving(d) /\ pc'[d] = pc[d]
    BY <2>1
  <2>6. ASSUME NEW w \in Range(waiters), InGet(w[1])', gets[w[1]] = w[2]
        PROVE  Leaving(w[1])' /\ ~notified[w[1]] /\ w[1] \notin Range(wait_queue')
    <3>1. w[1] \in Client
      BY RangeFacts
    <3>2. w[1] # c
      BY <2>1, <2>2, <2>6
    <3> QED
      BY <2>4, <2>5, <2>6, <3>1, <3>2
  <2>7. \A d \in Client : notified[d] => Leaving(d)'
    BY <2>3, <2>5, ZenonT(60)
  <2>8. \A d \in Range(wait_queue') : pc'[d] = "waiting" /\ ~notified[d]
    BY <2>1, <2>2, <2>3, <2>4, <2>5
  <2> QED
    BY <2>1, <2>4, <2>6, <2>7, <2>8
<1>17. CASE GetWakes(c)
  BY <1>17 DEF GetWakes
<1>18. CASE GetTimesOut(c)
  <2>1. /\ wait_queue' = RemoveFirst(wait_queue, c) /\ UNCHANGED <<gets, waiters>>
        /\ notified' = [notified EXCEPT ![c] = FALSE]
    BY <1>18 DEF GetTimesOut
  <2>2. /\ wait_queue' \in Seq(Client) /\ IsInjective(wait_queue')
        /\ Range(wait_queue') = Range(wait_queue) \ {c}
    BY <2>1, RemoveFirstFacts
  <2>3. Range(wait_queue) \subseteq Client
    BY RangeFacts
  <2>4. /\ notified' \in [Client -> BOOLEAN] /\ \A d \in Client : notified'[d] => notified[d]
        /\ \A d \in Range(wait_queue') : ~notified'[d]
    BY <2>1, <2>2, <2>3
  <2>5. ASSUME NEW d \in Client PROVE GoesOn(d)
    BY <1>18, <2>2 DEF GetTimesOut, CallsTry
  <2> HIDE DEF WaitInv
  <2> QED
    BY <2>1, <2>2, <2>4, <2>5, WaitStep
<1>19. CASE PutChecks(c)
  <2>1. UNCHANGED <<gets, waiters, wait_queue, notified>>
    BY <1>19 DEF PutChecks, Drop, Holds
  <2>2. ASSUME NEW d \in Client PROVE GoesOn(d)
    BY <1>19, RangeFacts DEF PutChecks, Drop, Holds
  <2> HIDE DEF WaitInv
  <2> QED
    BY <2>1, <2>2, WaitSame
<1>20. CASE PutFails(c)
  <2>1. UNCHANGED <<gets, waiters, wait_queue, notified>>
    BY <1>20 DEF PutFails, Drop, Holds, Discards
  <2>2. ASSUME NEW d \in Client PROVE GoesOn(d)
    BY <1>20, RangeFacts DEF PutFails, Drop, Holds, Discards
  <2> HIDE DEF WaitInv
  <2> QED
    BY <2>1, <2>2, WaitSame
<1>21. CASE PutLocks(c)
  <2>1. UNCHANGED <<gets, waiters, wait_queue, notified>>
    BY <1>21 DEF PutLocks, LocksIdle
  <2>2. ASSUME NEW d \in Client PROVE GoesOn(d)
    BY <1>21, RangeFacts DEF PutLocks, LocksIdle
  <2> HIDE DEF WaitInv
  <2> QED
    BY <2>1, <2>2, WaitSame
<1>22. CASE PutReturns(c)
  <2>1. /\ UNCHANGED <<gets, waiters, stage>> /\ pc[c] = "put_all"
        /\ \E l \in {"put_push", "idle"} : pc' = [pc EXCEPT ![c] = l]
        /\ try_wakeup_waiters(idle_pool', all_conns) \/ UNCHANGED <<notified, wait_queue>>
    BY <1>22 DEF PutReturns
  <2>2. Range(wait_queue') \subseteq Range(wait_queue)
    BY <2>1, WakesFirst
  <2>3. ASSUME NEW d \in Client PROVE GoesOn(d)
    BY <2>1, <2>2
  <2> HIDE DEF WaitInv
  <2> QED
    BY <2>1, <2>3, WakesFirst, WaitStep
<1>23. CASE PutPushes(c)
  <2>1. UNCHANGED <<gets, waiters, wait_queue, notified>>
    BY <1>23 DEF PutPushes, Push
  <2>2. ASSUME NEW d \in Client PROVE GoesOn(d)
    BY <1>23, RangeFacts DEF PutPushes, Push
  <2> HIDE DEF WaitInv
  <2> QED
    BY <2>1, <2>2, WaitSame
<1>24. CASE PushPanics(c)
  <2>1. UNCHANGED <<gets, waiters, wait_queue, notified>>
    BY <1>24 DEF PushPanics
  <2>2. ASSUME NEW d \in Client PROVE GoesOn(d)
    BY <1>24, RangeFacts DEF PushPanics
  <2> HIDE DEF WaitInv
  <2> QED
    BY <2>1, <2>2, WaitSame
<1>25. CASE GetCounts(c)
  <2>1. UNCHANGED <<gets, waiters, wait_queue, notified>>
    BY <1>25 DEF GetCounts, Counts
  <2>2. ASSUME NEW d \in Client PROVE GoesOn(d)
    BY <1>25, RangeFacts DEF GetCounts, Counts
  <2> HIDE DEF WaitInv
  <2> QED
    BY <2>1, <2>2, WaitSame
<1>26. CASE PutBegins(c)
  <2>1. UNCHANGED <<gets, waiters, wait_queue, notified>>
    BY <1>26 DEF PutBegins
  <2>2. ASSUME NEW d \in Client PROVE GoesOn(d)
    BY <1>26, RangeFacts DEF PutBegins
  <2> HIDE DEF WaitInv
  <2> QED
    BY <2>1, <2>2, WaitSame
<1>27. CASE PutSubtracts(c)
  <2>1. UNCHANGED <<gets, waiters, wait_queue, notified>>
    BY <1>27 DEF PutSubtracts, Counts
  <2>2. ASSUME NEW d \in Client PROVE GoesOn(d)
    BY <1>27, RangeFacts DEF PutSubtracts, Counts
  <2> HIDE DEF WaitInv
  <2> QED
    BY <2>1, <2>2, WaitSame
<1> QED
  BY <1>1, <1>2, <1>3, <1>4, <1>5, <1>6, <1>7, <1>8, <1>9, <1>10, <1>11, <1>12, <1>13, <1>14,
     <1>15, <1>16, <1>17, <1>18, <1>19, <1>20, <1>21, <1>22, <1>23, <1>24, <1>25, <1>26,
     <1>27 DEF ClientStep, CreateStep

(* The steps of maintenance and of the main thread preserve the wait queue, the *)
(* notifications and the list of close.                                         *)
LEMMA WaitOther ==
  ASSUME LockInv, StageInv, WaitInv,
         MaintStep \/ MainStep \/ update_config \/ CloseBegins
  PROVE  WaitInv'
<1> USE ConnPoolAssumption
    DEF WaitInv, GoesOn, LockInv, StageInv, Leaving, InGet, Trying, Goto, Proc, poolVars,
        localVars, loopVars, boundVars
<1>1. ASSUME NEW p \in {Main, Maint}, CreateLocks(p) PROVE WaitInv'
  <2>1. UNCHANGED <<gets, waiters, wait_queue, notified>>
    BY <1>1 DEF CreateLocks
  <2>2. ASSUME NEW d \in Client PROVE GoesOn(d)
    BY <1>1, RangeFacts DEF CreateLocks
  <2> HIDE DEF WaitInv
  <2> QED
    BY <2>1, <2>2, WaitSame
<1>2. ASSUME NEW p \in {Main, Maint}, CreateSucceeds(p) PROVE WaitInv'
  <2>1. UNCHANGED <<gets, waiters, wait_queue, notified>>
    BY <1>2 DEF CreateSucceeds, Created
  <2>2. ASSUME NEW d \in Client PROVE GoesOn(d)
    BY <1>2, RangeFacts DEF CreateSucceeds, Created
  <2> HIDE DEF WaitInv
  <2> QED
    BY <2>1, <2>2, WaitSame
<1>3. ASSUME NEW p \in {Main, Maint}, CreateFails(p) PROVE WaitInv'
  <2>1. UNCHANGED <<gets, waiters, wait_queue, notified>>
    BY <1>3 DEF CreateFails, Created
  <2>2. ASSUME NEW d \in Client PROVE GoesOn(d)
    BY <1>3, RangeFacts DEF CreateFails, Created
  <2> HIDE DEF WaitInv
  <2> QED
    BY <2>1, <2>2, WaitSame
<1>4. ASSUME NEW p \in {Main, Maint}, PruneLocks(p) PROVE WaitInv'
  <2>1. UNCHANGED <<gets, waiters, wait_queue, notified>>
    BY <1>4 DEF PruneLocks
  <2>2. ASSUME NEW d \in Client PROVE GoesOn(d)
    BY <1>4, RangeFacts DEF PruneLocks
  <2> HIDE DEF WaitInv
  <2> QED
    BY <2>1, <2>2, WaitSame
<1>5. ASSUME NEW p \in {Main, Maint}, PruneKeeps(p) PROVE WaitInv'
  <2>1. UNCHANGED <<gets, waiters, wait_queue, notified>>
    BY <1>5 DEF PruneKeeps
  <2>2. ASSUME NEW d \in Client PROVE GoesOn(d)
    BY <1>5, RangeFacts DEF PruneKeeps
  <2> HIDE DEF WaitInv
  <2> QED
    BY <2>1, <2>2, WaitSame
<1>6. ASSUME NEW p \in {Main, Maint}, PruneEvicts(p) PROVE WaitInv'
  <2>1. UNCHANGED <<gets, waiters, wait_queue, notified>>
    BY <1>6 DEF PruneEvicts, Discards
  <2>2. ASSUME NEW d \in Client PROVE GoesOn(d)
    BY <1>6, RangeFacts DEF PruneEvicts, Discards
  <2> HIDE DEF WaitInv
  <2> QED
    BY <2>1, <2>2, WaitSame
<1>7. ASSUME NEW p \in {Main, Maint}, PruneUnlocks(p) PROVE WaitInv'
  <2>1. UNCHANGED <<gets, waiters, wait_queue, notified>>
    BY <1>7 DEF PruneUnlocks
  <2>2. ASSUME NEW d \in Client PROVE GoesOn(d)
    BY <1>7, RangeFacts DEF PruneUnlocks
  <2> HIDE DEF WaitInv
  <2> QED
    BY <2>1, <2>2, WaitSame
<1>8. ASSUME NEW p \in {Main, Maint}, PruneChecks(p) PROVE WaitInv'
  <2>1. UNCHANGED <<gets, waiters, wait_queue, notified>>
    BY <1>8 DEF PruneChecks, Drop, PruneReturns
  <2>2. ASSUME NEW d \in Client PROVE GoesOn(d)
    BY <1>8, RangeFacts DEF PruneChecks, Drop, PruneReturns
  <2> HIDE DEF WaitInv
  <2> QED
    BY <2>1, <2>2, WaitSame
<1>9. ASSUME NEW p \in {Main, Maint}, PruneLocksAgain(p) PROVE WaitInv'
  <2>1. UNCHANGED <<gets, waiters, wait_queue, notified>>
    BY <1>9 DEF PruneLocksAgain, LocksIdle
  <2>2. ASSUME NEW d \in Client PROVE GoesOn(d)
    BY <1>9, RangeFacts DEF PruneLocksAgain, LocksIdle
  <2> HIDE DEF WaitInv
  <2> QED
    BY <2>1, <2>2, WaitSame
<1>10. ASSUME NEW p \in {Main, Maint}, PruneAdds(p) PROVE WaitInv'
  <2>1. /\ UNCHANGED <<gets, waiters, stage>> /\ pc[p] = "add_all"
        /\ \E l : pc' = [pc EXCEPT ![p] = l]
        /\ try_wakeup_waiters(idle_pool', all_conns') \/ UNCHANGED <<notified, wait_queue>>
    BY <1>10 DEF PruneAdds, PruneReturns
  <2>2. Range(wait_queue') \subseteq Range(wait_queue)
    BY <2>1, WakesFirst
  <2>3. ASSUME NEW d \in Client PROVE GoesOn(d)
    BY <2>1, <2>2
  <2> HIDE DEF WaitInv
  <2> QED
    BY <2>1, <2>3, WakesFirst, WaitStep
<1>11. CASE MaintStops
  <2>1. UNCHANGED <<gets, waiters, wait_queue, notified>>
    BY <1>11 DEF MaintStops
  <2>2. ASSUME NEW d \in Client PROVE GoesOn(d)
    BY <1>11, RangeFacts DEF MaintStops
  <2> HIDE DEF WaitInv
  <2> QED
    BY <2>1, <2>2, WaitSame
<1>12. CASE MaintEvent
  <2>1. UNCHANGED <<gets, waiters, wait_queue, notified>>
    BY <1>12 DEF MaintEvent, MaintPrunes
  <2>2. ASSUME NEW d \in Client PROVE GoesOn(d)
    BY <1>12, RangeFacts DEF MaintEvent, MaintPrunes
  <2> HIDE DEF WaitInv
  <2> QED
    BY <2>1, <2>2, WaitSame
<1>13. CASE MaintTimer
  <2>1. UNCHANGED <<gets, waiters, wait_queue, notified>>
    BY <1>13 DEF MaintTimer, MaintPrunes
  <2>2. ASSUME NEW d \in Client PROVE GoesOn(d)
    BY <1>13, RangeFacts DEF MaintTimer, MaintPrunes
  <2> HIDE DEF WaitInv
  <2> QED
    BY <2>1, <2>2, WaitSame
<1>14. CASE update_config
  <2>1. UNCHANGED <<gets, waiters, wait_queue, notified>>
    BY <1>14 DEF update_config
  <2>2. ASSUME NEW d \in Client PROVE GoesOn(d)
    BY <1>14, RangeFacts DEF update_config
  <2> HIDE DEF WaitInv
  <2> QED
    BY <2>1, <2>2, WaitSame
<1>15. CASE send_eviction
  <2>1. UNCHANGED <<gets, waiters, wait_queue, notified>>
    BY <1>15 DEF send_eviction, Push
  <2>2. ASSUME NEW d \in Client PROVE GoesOn(d)
    BY <1>15, RangeFacts DEF send_eviction, Push
  <2> HIDE DEF WaitInv
  <2> QED
    BY <2>1, <2>2, WaitSame
<1>16. CASE CloseBegins
  <2>1. UNCHANGED <<gets, waiters, wait_queue, notified>>
    BY <1>16 DEF CloseBegins
  <2>2. ASSUME NEW d \in Client PROVE GoesOn(d)
    BY <1>16, RangeFacts DEF CloseBegins
  <2> HIDE DEF WaitInv
  <2> QED
    BY <2>1, <2>2, WaitSame
<1>17. CASE CloseJoins
  <2>1. UNCHANGED <<gets, waiters, wait_queue, notified>>
    BY <1>17 DEF CloseJoins, LocksIdle
  <2>2. ASSUME NEW d \in Client PROVE GoesOn(d)
    BY <1>17, RangeFacts DEF CloseJoins, LocksIdle
  <2> HIDE DEF WaitInv
  <2> QED
    BY <2>1, <2>2, WaitSame
<1>18. CASE CloseAll
  <2>1. UNCHANGED <<gets, waiters, wait_queue, notified>>
    BY <1>18 DEF CloseAll
  <2>2. ASSUME NEW d \in Client PROVE GoesOn(d)
    BY <1>18, RangeFacts DEF CloseAll
  <2> HIDE DEF WaitInv
  <2> QED
    BY <2>1, <2>2, WaitSame
<1>19. CASE CloseQueue
  <2>1. /\ waiters' = [i \in DOMAIN wait_queue |-> <<wait_queue[i], gets[wait_queue[i]]>>]
        /\ wait_queue' = <<>> /\ UNCHANGED <<gets, stage, notified>>
        /\ pc' = [pc EXCEPT ![Main] = "close_notify"]
    BY <1>19 DEF CloseQueue
  <2>2. \A d \in Client : pc'[d] = pc[d]
    BY <2>1
  <2>3. /\ DOMAIN wait_queue = 1 .. Len(wait_queue) /\ Len(wait_queue) \in Nat
        /\ \A i \in 1 .. Len(wait_queue) : /\ wait_queue[i] \in Client
                                           /\ wait_queue[i] \in Range(wait_queue)
                                           /\ gets[wait_queue[i]] \in Nat
    BY RangeFacts
  <2>4. waiters' \in Seq(Client \X Nat) /\ Len(waiters') = Len(wait_queue)
    BY <2>1, <2>3
  <2>5. \A i, j \in 1 .. Len(waiters') : waiters'[i][1] = waiters'[j][1] => i = j
    <3>1. \A i \in 1 .. Len(waiters') : waiters'[i][1] = wait_queue[i]
      BY <2>1, <2>3, <2>4
    <3>2. \A i, j \in 1 .. Len(wait_queue) : wait_queue[i] = wait_queue[j] => i = j
      BY RangeFacts
    <3> QED
      BY <2>4, <3>1, <3>2
  <2>6. ASSUME NEW w \in Range(waiters')
        PROVE  /\ gets[w[1]] <= w[2]
               /\ w[1] \in Client /\ pc[w[1]] = "waiting" /\ ~notified[w[1]]
    <3>1. PICK i \in 1 .. Len(waiters') : waiters'[i] = w
      BY <2>4, RangeFacts
    <3>2. w = <<wait_queue[i], gets[wait_queue[i]]>> /\ wait_queue[i] \in Range(wait_queue)
      BY <2>1, <2>3, <2>4, <3>1
    <3> QED
      BY <2>3, <2>4, <3>1, <3>2
  <2>7. <<>> \in Seq(Client) /\ IsInjective(<<>>) /\ Range(<<>>) = {}
    BY DEF IsInjective, Range
  <2> QED
    BY <2>1, <2>2, <2>4, <2>5, <2>6, <2>7
<1>20. CASE CloseNotifies
  <2> DEFINE w == Head(waiters)
             c == w[1]
             t == Tail(waiters)
  <2>1. /\ waiters # <<>> /\ waiters' = t
        /\ UNCHANGED <<gets, stage, pc, wait_queue>>
        /\ \/ /\ InGet(c) /\ gets[c] = w[2]
              /\ notified' = [notified EXCEPT ![c] = TRUE]
           \/ notified' = notified
    BY <1>20 DEF CloseNotifies
  <2>2. /\ w \in Client \X Nat /\ w \in Range(waiters) /\ w = waiters[1]
        /\ t \in Seq(Client \X Nat) /\ Len(t) = Len(waiters) - 1 /\ Len(waiters) \in Nat \ {0}
        /\ Range(t) \subseteq Range(waiters)
        /\ \A i \in 1 .. Len(t) : t[i] = waiters[i + 1]
    BY <2>1, HeadTailFacts
  <2> HIDE DEF t
  <2>3. 1 \in 1 .. Len(waiters) /\ \A i \in 1 .. Len(t) : i + 1 \in 1 .. Len(waiters) /\ i + 1 # 1
    <3> HIDE DEF WaitInv, w, c
    <3>1. Len(t) = Len(waiters) - 1 /\ Len(waiters) \in Nat \ {0}
      BY <2>2
    <3> QED
      BY <3>1
  <2>4. \A i, j \in 1 .. Len(t) : t[i][1] = t[j][1] => i = j
    <3>1. ASSUME NEW i \in 1 .. Len(t), NEW j \in 1 .. Len(t), t[i][1] = t[j][1] PROVE i = j
      <4>1. waiters[i + 1][1] = waiters[j + 1][1]
        BY <2>2, <3>1
      <4>2. i + 1 = j + 1
        BY <2>3, <4>1
      <4> QED
        BY <4>2
    <3> QED
      BY <3>1
  <2>5. \A v \in Range(t) : v[1] # c
    <3>1. ASSUME NEW v \in Range(t) PROVE v[1] # c
      <4>1. PICK i \in 1 .. Len(t) : t[i] = v
        BY <2>2, RangeFacts
      <4>2. waiters[i + 1][1] # waiters[1][1]
        BY <2>3
      <4> QED
        BY <2>2, <4>1, <4>2
    <3> QED
      BY <3>1
  <2>6. c \in Client
    BY <2>2
  <2>7. InGet(c) /\ gets[c] = w[2] => Leaving(c) /\ c \notin Range(wait_queue)
    BY <2>2
  <2> HIDE DEF w, c, InGet, Leaving
  <2>8. /\ notified' \in [Client -> BOOLEAN]
        /\ \A d \in Client : d # c => notified'[d] = notified[d]
        /\ notified'[c] => Leaving(c)
        /\ notified'[c] => notified[c] \/ c \notin Range(wait_queue)
    <3>1. CASE notified' = notified
      BY <2>6, <3>1
    <3>2. CASE InGet(c) /\ gets[c] = w[2] /\ notified' = [notified EXCEPT ![c] = TRUE]
      BY <2>6, <2>7, <3>2
    <3> QED
      BY <2>1, <3>1, <3>2
  <2>9. ASSUME NEW d \in Range(wait_queue) PROVE pc[d] = "waiting" /\ ~notified'[d]
    <3>1. d \in Client /\ pc[d] = "waiting" /\ ~notified[d]
      BY RangeFacts
    <3> QED
      BY <2>8, <3>1
  <2>10. ASSUME NEW v \in Range(waiters')
         PROVE  /\ gets[v[1]] <= v[2]
                /\ InGet(v[1]) /\ gets[v[1]] = v[2]
                     => Leaving(v[1]) /\ ~notified'[v[1]] /\ v[1] \notin Range(wait_queue)
    <3>1. v \in Range(waiters) /\ v[1] \in Client /\ v[1] # c
      BY <2>1, <2>2, <2>5, RangeFacts
    <3> QED
      BY <2>8, <3>1
  <2>11. \A d \in Client : notified'[d] => Leaving(d)
    BY <2>8
  <2> QED
    BY <2>1, <2>2, <2>4, <2>8, <2>9, <2>10, <2>11 DEF InGet, Leaving
<1>21. CASE CloseEnds
  <2>1. UNCHANGED <<gets, waiters, wait_queue, notified>>
    BY <1>21 DEF CloseEnds
  <2>2. ASSUME NEW d \in Client PROVE GoesOn(d)
    BY <1>21, RangeFacts DEF CloseEnds
  <2> HIDE DEF WaitInv
  <2> QED
    BY <2>1, <2>2, WaitSame
<1>22. CASE CloseEvents
  <2>1. UNCHANGED <<gets, waiters, wait_queue, notified>>
    BY <1>22 DEF CloseEvents
  <2>2. ASSUME NEW d \in Client PROVE GoesOn(d)
    BY <1>22, RangeFacts DEF CloseEvents
  <2> HIDE DEF WaitInv
  <2> QED
    BY <2>1, <2>2, WaitSame
<1> QED
  BY SMTT(30), <1>1, <1>2, <1>3, <1>4, <1>5, <1>6, <1>7, <1>8, <1>9, <1>10, <1>11, <1>12, <1>13, <1>14,
     <1>15, <1>16, <1>17, <1>18, <1>19, <1>20, <1>21, <1>22 DEF MaintStep, MainStep, PruneStep, CreateStep

-----------------------------------------------------------------------------
(* What active_count counts *)

InUse == {"get_push", "using", "put_sub"}

(* A step that is no news to active_count. *)
CountsOn ==
  /\ active_count' = active_count
  /\ pc[Main] = "closed" => pc'[Main] = "closed"
  /\ \A d \in Client : pc'[d] \in InUse <=> pc[d] \in InUse

LEMMA CountedSame ==
  ASSUME ActiveCounted, CountsOn
  PROVE  ActiveCounted'
<1>1. CheckedOut' = CheckedOut
  BY DEF CheckedOut, CountsOn, InUse
<1> QED
  BY <1>1 DEF ActiveCounted, CountsOn

(* The clients that have a connection checked out are finitely many. *)
LEMMA CheckedOutFinite ==
  IsFiniteSet(CheckedOut) /\ Cardinality(CheckedOut) \in Nat
<1>1. CheckedOut \in SUBSET Client
  BY DEF CheckedOut
<1>2. IsFiniteSet(CheckedOut)
  BY <1>1, FS_Subset, ConnPoolAssumption
<1> QED
  BY <1>2, FS_CardinalityType

(* A client that is counted in has checked a connection out just now. *)
LEMMA CountedIn ==
  ASSUME LockInv, ActiveCounted, NEW c \in Client, NEW l \in InUse, pc[c] \notin InUse,
         pc' = [pc EXCEPT ![c] = l], active_count' = active_count + 1
  PROVE  ActiveCounted'
<1>1. CheckedOut' = CheckedOut \cup {c} /\ c \notin CheckedOut
  BY DEF CheckedOut, InUse, LockInv, Proc
<1>2. Cardinality(CheckedOut') = Cardinality(CheckedOut) + 1
  BY <1>1, CheckedOutFinite, FS_AddElement
<1>3. pc'[Main] = pc[Main]
  BY ConnPoolAssumption DEF LockInv, Proc
<1> QED
  BY <1>2, <1>3 DEF ActiveCounted

(* A client that is counted out has had a connection checked out until now. *)
LEMMA CountedOut ==
  ASSUME LockInv, ActiveCounted, NEW c \in Client, NEW l, l \notin InUse, pc[c] \in InUse,
         pc' = [pc EXCEPT ![c] = l], active_count' = active_count - 1
  PROVE  ActiveCounted'
<1>1. CheckedOut' = CheckedOut \ {c} /\ c \in CheckedOut
  BY DEF CheckedOut, InUse, LockInv, Proc
<1>2. Cardinality(CheckedOut') = Cardinality(CheckedOut) - 1
  BY <1>1, CheckedOutFinite, FS_RemoveElement
<1>3. pc'[Main] = pc[Main]
  BY ConnPoolAssumption DEF LockInv, Proc
<1> QED
  BY <1>2, <1>3 DEF ActiveCounted

(* While a connection is checked out, and close has not reset the count, put finds *)
(* that there is something to count down from.                                     *)
LEMMA PutFindsCount ==
  ASSUME ActiveCounted, NEW c \in Client, pc[c] \in InUse, pc[Main] # "closed"
  PROVE  active_count > 0
<1>1. c \in CheckedOut
  BY DEF CheckedOut, InUse
<1>2. Cardinality(CheckedOut) # 0
  BY <1>1, CheckedOutFinite, FS_EmptySet
<1> QED
  BY <1>2, CheckedOutFinite DEF ActiveCounted

(* A step of a client preserves what active_count counts. *)
LEMMA CountedClient ==
  ASSUME LockInv, StageInv, ActiveCounted, NEW c \in Client,
         GetBegins(c) \/ PutBegins(c) \/ ClientStep(c)
  PROVE  ActiveCounted'
<1> USE ConnPoolAssumption DEF LockInv, Goto, Proc, InUse, poolVars
<1>1. CASE CreateLocks(c)
  <2>1. CountsOn
    BY <1>1 DEF CountsOn, CreateLocks
  <2> QED
    BY <2>1, CountedSame
<1>2. CASE CreateSucceeds(c)
  <2>1. CountsOn
    BY <1>2 DEF CountsOn, CreateSucceeds, Created
  <2> QED
    BY <2>1, CountedSame
<1>3. CASE CreateFails(c)
  <2>1. CountsOn
    BY <1>3 DEF CountsOn, CreateFails, Created
  <2> QED
    BY <2>1, CountedSame
<1>4. CASE TryLocks(c)
  <2>1. CountsOn
    BY <1>4 DEF CountsOn, TryLocks, LocksIdle
  <2> QED
    BY <2>1, CountedSame
<1>5. CASE TryPushes(c)
  <2>1. CountsOn
    BY <1>5 DEF CountsOn, TryPushes, Push
  <2> QED
    BY <2>1, CountedSame
<1>6. CASE TryTakes(c)
  <2>1. /\ pc[c] \notin InUse /\ active_count' = active_count + 1
        /\ \E l \in InUse : pc' = [pc EXCEPT ![c] = l]
    BY <1>6 DEF TryTakes, TryReturns
  <2> QED
    BY <2>1, CountedIn
<1>7. CASE TryDrops(c)
  <2>1. CountsOn
    BY <1>7 DEF CountsOn, TryDrops, Discards
  <2> QED
    BY <2>1, CountedSame
<1>8. CASE TryNone(c)
  <2>1. CountsOn
    BY <1>8 DEF CountsOn, TryNone, TryReturns, StageInv, Trying
  <2> QED
    BY <2>1, CountedSame
<1>9. CASE GetBegins(c)
  <2>1. CountsOn
    BY <1>9 DEF CountsOn, GetBegins
  <2> QED
    BY <2>1, CountedSame
<1>10. CASE GetLoops(c)
  <2>1. CountsOn
    BY <1>10 DEF CountsOn, GetLoops, CallsTry
  <2> QED
    BY <2>1, CountedSame
<1>11. CASE GetPushes(c)
  <2>1. CountsOn
    BY <1>11 DEF CountsOn, GetPushes, Push
  <2> QED
    BY <2>1, CountedSame
<1>12. CASE GetChecks(c)
  <2>1. CountsOn
    BY <1>12 DEF CountsOn, GetChecks, CallsTry
  <2> QED
    BY <2>1, CountedSame
<1>13. CASE GetRechecks(c)
  <2>1. CountsOn
    BY <1>13 DEF CountsOn, GetRechecks
  <2> QED
    BY <2>1, CountedSame
<1>14. CASE GetInserts(c)
  <2>1. CountsOn
    BY <1>14 DEF CountsOn, GetInserts, CallsTry
  <2> QED
    BY <2>1, CountedSame
<1>15. CASE GetGivesUp(c)
  <2>1. CountsOn
    BY <1>15 DEF CountsOn, GetGivesUp
  <2> QED
    BY <2>1, CountedSame
<1>16. CASE GetEnqueues(c)
  <2>1. CountsOn
    BY <1>16 DEF CountsOn, GetEnqueues
  <2> QED
    BY <2>1, CountedSame
<1>17. CASE GetWakes(c)
  <2>1. CountsOn
    BY <1>17 DEF CountsOn, GetWakes
  <2> QED
    BY <2>1, CountedSame
<1>18. CASE GetTimesOut(c)
  <2>1. CountsOn
    BY <1>18 DEF CountsOn, GetTimesOut, CallsTry
  <2> QED
    BY <2>1, CountedSame
<1>19. CASE PutChecks(c)
  <2>1. CountsOn
    BY <1>19 DEF CountsOn, PutChecks
  <2> QED
    BY <2>1, CountedSame
<1>20. CASE PutFails(c)
  <2>1. CountsOn
    BY <1>20 DEF CountsOn, PutFails, Discards
  <2> QED
    BY <2>1, CountedSame
<1>21. CASE PutLocks(c)
  <2>1. CountsOn
    BY <1>21 DEF CountsOn, PutLocks, LocksIdle
  <2> QED
    BY <2>1, CountedSame
<1>22. CASE PutReturns(c)
  <2>1. CountsOn
    BY <1>22 DEF CountsOn, PutReturns
  <2> QED
    BY <2>1, CountedSame
<1>23. CASE PutPushes(c)
  <2>1. CountsOn
    BY <1>23 DEF CountsOn, PutPushes, Push
  <2> QED
    BY <2>1, CountedSame
<1>24. CASE PushPanics(c)
  <2>1. CountsOn
    BY <1>24 DEF CountsOn, PushPanics
  <2> QED
    BY <2>1, CountedSame
<1>25. CASE GetCounts(c)
  <2>1. /\ pc[c] \notin InUse /\ active_count' = active_count + 1
        /\ \E l \in InUse : pc' = [pc EXCEPT ![c] = l]
    BY <1>25 DEF GetCounts, Counts
  <2> QED
    BY <2>1, CountedIn
<1>26. CASE PutBegins(c)
  <2>1. CASE pc[Main] = "closed"
    <3>1. pc'[Main] = "closed"
      BY <1>26, <2>1 DEF PutBegins
    <3> QED
      BY <3>1 DEF ActiveCounted
  <2>2. CASE pc[Main] # "closed"
    <3>1. active_count > 0
      BY <1>26, <2>2, PutFindsCount DEF PutBegins
    <3>2. CountsOn
      BY <1>26, <3>1 DEF PutBegins, CountsOn
    <3> QED
      BY <3>2, CountedSame
  <2> QED
    BY <2>1, <2>2
<1>27. CASE PutSubtracts(c)
  <2>1. /\ pc[c] \in InUse /\ active_count' = active_count - 1
        /\ pc' = [pc EXCEPT ![c] = "put_check"] /\ "put_check" \notin InUse
    BY <1>27 DEF PutSubtracts, Counts
  <2> QED
    BY <2>1, CountedOut
<1> QED
  BY <1>1, <1>2, <1>3, <1>4, <1>5, <1>6, <1>7, <1>8, <1>9, <1>10, <1>11, <1>12, <1>13, <1>14,
     <1>15, <1>16, <1>17, <1>18, <1>19, <1>20, <1>21, <1>22, <1>23, <1>24, <1>25, <1>26,
     <1>27 DEF ClientStep, CreateStep

(* Maintenance does not touch active_count; close resets it when it ends. *)
LEMMA CountedOther ==
  ASSUME LockInv, ActiveCounted,
         MaintStep \/ MainStep \/ update_config \/ CloseBegins
  PROVE  ActiveCounted'
<1> USE ConnPoolAssumption DEF LockInv, Goto, Proc, InUse, poolVars
<1>1. ASSUME NEW p \in {Main, Maint}, CreateLocks(p) PROVE ActiveCounted'
  <2>1. CountsOn
    BY <1>1 DEF CountsOn, CreateLocks
  <2> QED
    BY <2>1, CountedSame
<1>2. ASSUME NEW p \in {Main, Maint}, CreateSucceeds(p) PROVE ActiveCounted'
  <2>1. CountsOn
    BY <1>2 DEF CountsOn, CreateSucceeds, Created
  <2> QED
    BY <2>1, CountedSame
<1>3. ASSUME NEW p \in {Main, Maint}, CreateFails(p) PROVE ActiveCounted'
  <2>1. CountsOn
    BY <1>3 DEF CountsOn, CreateFails, Created
  <2> QED
    BY <2>1, CountedSame
<1>4. ASSUME NEW p \in {Main, Maint}, PruneLocks(p) PROVE ActiveCounted'
  <2>1. CountsOn
    BY <1>4 DEF CountsOn, PruneLocks
  <2> QED
    BY <2>1, CountedSame
<1>5. ASSUME NEW p \in {Main, Maint}, PruneKeeps(p) PROVE ActiveCounted'
  <2>1. CountsOn
    BY <1>5 DEF CountsOn, PruneKeeps
  <2> QED
    BY <2>1, CountedSame
<1>6. ASSUME NEW p \in {Main, Maint}, PruneEvicts(p) PROVE ActiveCounted'
  <2>1. CountsOn
    BY <1>6 DEF CountsOn, PruneEvicts, Discards
  <2> QED
    BY <2>1, CountedSame
<1>7. ASSUME NEW p \in {Main, Maint}, PruneUnlocks(p) PROVE ActiveCounted'
  <2>1. CountsOn
    BY <1>7 DEF CountsOn, PruneUnlocks
  <2> QED
    BY <2>1, CountedSame
<1>8. ASSUME NEW p \in {Main, Maint}, PruneChecks(p) PROVE ActiveCounted'
  <2>1. CountsOn
    BY <1>8 DEF CountsOn, PruneChecks, PruneReturns
  <2> QED
    BY <2>1, CountedSame
<1>9. ASSUME NEW p \in {Main, Maint}, PruneLocksAgain(p) PROVE ActiveCounted'
  <2>1. CountsOn
    BY <1>9 DEF CountsOn, PruneLocksAgain, LocksIdle
  <2> QED
    BY <2>1, CountedSame
<1>10. ASSUME NEW p \in {Main, Maint}, PruneAdds(p) PROVE ActiveCounted'
  <2>1. CountsOn
    BY <1>10 DEF CountsOn, PruneAdds, PruneReturns
  <2> QED
    BY <2>1, CountedSame
<1>11. CASE MaintStops
  <2>1. CountsOn
    BY <1>11 DEF CountsOn, MaintStops
  <2> QED
    BY <2>1, CountedSame
<1>12. CASE MaintEvent
  <2>1. CountsOn
    BY <1>12 DEF CountsOn, MaintEvent, MaintPrunes
  <2> QED
    BY <2>1, CountedSame
<1>13. CASE MaintTimer
  <2>1. CountsOn
    BY <1>13 DEF CountsOn, MaintTimer, MaintPrunes
  <2> QED
    BY <2>1, CountedSame
<1>14. CASE update_config
  <2>1. CountsOn
    BY <1>14 DEF CountsOn, update_config
  <2> QED
    BY <2>1, CountedSame
<1>15. CASE send_eviction
  <2>1. CountsOn
    BY <1>15 DEF CountsOn, send_eviction, Push
  <2> QED
    BY <2>1, CountedSame
<1>16. CASE CloseBegins
  <2>1. CountsOn
    BY <1>16 DEF CountsOn, CloseBegins
  <2> QED
    BY <2>1, CountedSame
<1>17. CASE CloseJoins
  <2>1. CountsOn
    BY <1>17 DEF CountsOn, CloseJoins, LocksIdle
  <2> QED
    BY <2>1, CountedSame
<1>18. CASE CloseAll
  <2>1. CountsOn
    BY <1>18 DEF CountsOn, CloseAll
  <2> QED
    BY <2>1, CountedSame
<1>19. CASE CloseQueue
  <2>1. CountsOn
    BY <1>19 DEF CountsOn, CloseQueue
  <2> QED
    BY <2>1, CountedSame
<1>20. CASE CloseNotifies
  <2>1. CountsOn
    BY <1>20 DEF CountsOn, CloseNotifies
  <2> QED
    BY <2>1, CountedSame
<1>21. CASE CloseEnds
  <2>1. pc'[Main] = "closed"
    BY <1>21 DEF CloseEnds
  <2> QED
    BY <2>1 DEF ActiveCounted
<1>22. CASE CloseEvents
  <2>1. CountsOn
    BY <1>22 DEF CountsOn, CloseEvents
  <2> QED
    BY <2>1, CountedSame
<1> QED
  BY SMTT(30), <1>1, <1>2, <1>3, <1>4, <1>5, <1>6, <1>7, <1>8, <1>9, <1>10, <1>11, <1>12, <1>13, <1>14,
     <1>15, <1>16, <1>17, <1>18, <1>19, <1>20, <1>21, <1>22 DEF MaintStep, MainStep, PruneStep, CreateStep

-----------------------------------------------------------------------------
(* The theorems *)

(* new_connection_pool leaves the pool in a state that satisfies the invariant: the *)
(* first min_idle_conns connections are idle, known and open, and nobody holds one. *)
LEMMA InitIInv ==
  ASSUME Init
  PROVE  IInv
<1> DEFINE n == config.min_idle_conns
<1>1. /\ config \in Configs /\ gets \in [Client -> Nat] /\ admin \in Nat
      /\ n \in Nat /\ n <= NumConn /\ n <= config.max_conns /\ config.max_conns \in Nat
  BY ConnPoolAssumption DEF Init
<1>2. NumConn \in Nat /\ eviction_ch_cap \in Nat /\ 1 .. n \subseteq Conn
  BY <1>1, ConnPoolAssumption DEF Conn
<1>3. /\ idle_pool = [i \in 1 .. n |-> i] /\ all_conns = 1 .. n /\ open = 1 .. n
      /\ wait_queue = <<>> /\ waiters = <<>>
      /\ mine = [p \in Proc |-> <<>>] /\ limit = config.max_conns
  BY DEF Init
<1> HIDE DEF n
<1>4. /\ idle_pool \in Seq(Conn) /\ Len(idle_pool) = n /\ DOMAIN idle_pool = 1 .. n
      /\ \A i \in 1 .. n : idle_pool[i] = i
  BY <1>1, <1>2, <1>3
<1>5. Range(idle_pool) = 1 .. n /\ IsInjective(idle_pool)
  BY <1>4 DEF Range, IsInjective
<1>6. Range(<<>>) = {} /\ IsInjective(<<>>)
  BY DEF Range, IsInjective
<1>7. \A p \in Proc : mine[p] = <<>>
  BY <1>3
<1>8. Cardinality(all_conns) <= limit
  <2>1. Cardinality(1 .. n) = n
    BY <1>1, FS_Interval
  <2> QED
    BY <1>1, <1>3, <2>1
<1>9. /\ pc \in [Proc -> {"prune", "select", "idle"}]
      /\ pc[Main] = "prune" /\ pc[Maint] = "select" /\ \A c \in Client : pc[c] = "idle"
  BY ConnPoolAssumption DEF Init, Proc
<1>10. LockInv
  BY <1>9, ConnPoolAssumption
  DEF Init, LockInv, Proc, Places, Pruning, ClientPlaces, MaintPlaces, MainPlaces, HoldIdle, Closing
<1>11. StageInv /\ LoopInv
  BY <1>9 DEF Init, StageInv, LoopInv, Trying
<1>12. HandInv
  BY <1>3, <1>7, <1>9 DEF HandInv, Holding, Proc
<1>13. LimitInv
  BY <1>1, <1>3, <1>8 DEF Init, LimitInv
<1>14. OwnInv
  BY <1>2, <1>3, <1>4, <1>5, <1>6, <1>7 DEF OwnInv
<1>15. NewInv
  BY <1>6, <1>7, <1>9 DEF NewInv, Proc
<1>16. OrderInv /\ KnownInv
  BY <1>9 DEF Init, OrderInv, KnownInv, Closing, Emptied
<1>17. WaitInv
  <2>1. notified \in [Client -> BOOLEAN] /\ \A c \in Client : ~notified[c]
    BY DEF Init
  <2>2. /\ <<>> \in Seq(Client) /\ <<>> \in Seq(Client \X Nat)
        /\ \A i \in 1 .. Len(<<>>) : FALSE
    OBVIOUS
  <2> QED
    BY <1>1, <1>3, <1>6, <2>1, <2>2 DEF WaitInv
<1>18. CountInv
  <2>1. {stop_ch, evClosed, panicked, pending} = {FALSE} /\ events = 0 /\ active_count = 0
    BY DEF Init
  <2>2. {stop_ch, evClosed, panicked, pending} \subseteq BOOLEAN
    BY <2>1, Zenon
  <2> QED
    BY <1>1, <1>2, <2>1, <2>2 DEF CountInv
<1>19. ActiveCounted
  <2>1. CheckedOut = {} /\ active_count = 0
    BY <1>9 DEF Init, CheckedOut
  <2> QED
    BY <2>1, FS_EmptySet DEF ActiveCounted
<1> QED
  BY <1>10, <1>11, <1>12, <1>13, <1>14, <1>15, <1>16, <1>17, <1>18, <1>19 DEF IInv

(* No variable of the pool changes in a step that only others take. *)
LEMMA StutterIInv ==
  ASSUME IInv, UNCHANGED vars
  PROVE  IInv'
<1> USE DEF vars, poolVars, evVars, mxVars, localVars, loopVars, boundVars
<1>1. LockInv' /\ StageInv' /\ HandInv' /\ LoopInv' /\ LimitInv'
  BY DEF IInv, LockInv, StageInv, HandInv, LoopInv, LimitInv
<1>2. OwnInv' /\ NewInv' /\ OrderInv' /\ KnownInv'
  BY DEF IInv, OwnInv, NewInv, OrderInv, KnownInv
<1>3. WaitInv' /\ CountInv'
  BY DEF IInv, WaitInv, CountInv, InGet, Leaving
<1>4. ActiveCounted'
  BY DEF IInv, ActiveCounted, CheckedOut
<1> QED
  BY <1>1, <1>2, <1>3, <1>4 DEF IInv

(* Every step of a client, of maintenance and of the main thread preserves the *)
(* invariant.                                                                  *)
LEMMA NextIInv ==
  ASSUME IInv, Next
  PROVE  IInv'
<1> USE DEF IInv
<1>1. ASSUME NEW c \in Client, GetBegins(c) \/ PutBegins(c) \/ ClientStep(c)
      PROVE  IInv'
  BY <1>1, LockClient, StageClient, HandClient, LoopClient, LimitClient, OwnClient, NewClient,
     OrderClient, KnownClient, WaitClient, CountClient, CountedClient
<1>2. CASE MaintStep \/ MainStep \/ update_config \/ CloseBegins
  BY <1>2, LockOther, StageOther, HandOther, LoopOther, LimitOther, OwnOther, NewOther,
     OrderOther, KnownOther, WaitOther, CountOther, CountedOther
<1> QED
  BY <1>1, <1>2 DEF Next

(* The invariant holds in every state that the pool reaches. *)
THEOREM Invariance == Spec => []IInv
<1>1. Init => IInv
  BY InitIInv
<1>2. IInv /\ [Next]_vars => IInv'
  BY NextIInv, StutterIInv
<1> QED
  BY <1>1, <1>2, PTL DEF Spec

(* Types, which process holds each mutex and who is in the wait queue. *)
THEOREM PoolTypes == Spec => []TypeOK
<1>1. ASSUME IInv PROVE TypeOK
  <2>1. /\ config \in Configs /\ limit \in Nat
        /\ is_closed \in BOOLEAN /\ stop_ch \in BOOLEAN /\ evClosed \in BOOLEAN
        /\ panicked \in BOOLEAN /\ pending \in BOOLEAN /\ active_count \in Int
        /\ left \in [Proc -> Nat] /\ snap \in [Proc -> Configs]
        /\ events \in 0 .. eviction_ch_cap
    BY <1>1 DEF IInv, LimitInv, CountInv, OrderInv, LoopInv
  <2>2. all_conns \subseteq Conn /\ open \subseteq Conn /\ idle_pool \in Seq(Conn)
    BY <1>1 DEF IInv, OwnInv
  <2>3. /\ Range(wait_queue) \subseteq {c \in Client : pc[c] = "waiting"}
        /\ IsInjective(wait_queue) /\ notified \in [Client -> BOOLEAN]
    BY <1>1, RangeFacts DEF IInv, WaitInv
  <2>4. /\ pc \in [Proc -> Places]
        /\ idleMx = Free <=> \A p \in Proc : pc[p] \notin HoldIdle
        /\ allMx = Free <=> \A p \in Proc : pc[p] # "put_push"
        /\ createMx = Free <=> \A p \in Proc : pc[p] # "factory"
    BY <1>1, ConnPoolAssumption DEF IInv, LockInv
  <2>5. /\ stage \in [Client -> {"none", "first", "second", "last"}]
        /\ \A p \in Proc : mine[p] \in Seq(Conn)
    BY <1>1 DEF IInv, StageInv, HandInv
  <2> QED
    BY <2>1, <2>2, <2>3, <2>4, <2>5 DEF TypeOK, HoldIdle
<1> QED
  BY <1>1, Invariance, PTL

(* Until close resets it, active_count is the number of connections that clients have *)
(* checked out, although put looks at it and counts down in two steps.                *)
THEOREM ActiveIsCounted == Spec => []ActiveCounted
<1>1. IInv => ActiveCounted
  BY DEF IInv
<1> QED
  BY <1>1, Invariance, PTL

(* A connection is never in two places, and the pool never knows more than it may. *)
THEOREM PoolIsConsistent == Spec => []PoolConsistent
<1>1. ASSUME IInv PROVE PoolConsistent
  <2>1. /\ IsInjective(idle_pool)
        /\ Range(idle_pool) \subseteq all_conns \cap open
        /\ \A p \in Proc : Range(mine[p]) \cap Range(idle_pool) = {}
        /\ \A p, q \in Proc : p # q => Range(mine[p]) \cap Range(mine[q]) = {}
    BY <1>1 DEF IInv, OwnInv
  <2>2. ASSUME ~is_closed, NEW c \in Client, pc[c] = "using"
        PROVE  Holds(c) \in all_conns \cap open
    <3>1. Range(mine[c]) = {Holds(c)}
      BY <1>1, <2>2, HeldFacts DEF IInv, Holding
    <3> QED
      BY <1>1, <2>2, <3>1 DEF IInv, KnownInv
  <2>3. Cardinality(all_conns) <= limit
    BY <1>1 DEF IInv, LimitInv
  <2> QED
    BY <2>1, <2>2, <2>3 DEF PoolConsistent
<1> QED
  BY <1>1, Invariance, PTL

(* Every open connection is idle or in the hands of somebody who will close it or *)
(* bring it back, and close leaves none idle.                                     *)
THEOREM PoolDoesNotLeak == Spec => []NoLeak
<1>1. ASSUME IInv PROVE NoLeak
  <2>1. open \subseteq Range(idle_pool) \cup UNION {Range(mine[p]) : p \in Proc}
    BY <1>1 DEF IInv, OwnInv
  <2>2. pc[Main] = "closed" => Range(idle_pool) = {}
    BY <1>1 DEF IInv, KnownInv, Emptied
  <2>3. idle_pool \in Seq(Conn)
    BY <1>1 DEF IInv, OwnInv
  <2> QED
    BY <2>1, <2>2, <2>3, RangeFacts DEF NoLeak
<1> QED
  BY <1>1, Invariance, PTL

=============================================================================

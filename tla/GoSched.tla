------------------------------ MODULE GoSched ------------------------------
(***************************************************************************)
(* The GMP scheduler of vlib/goroutines (scheduler.v, park.v, init.v):     *)
(* worker threads (M) that hold a processor (P) look for a goroutine (G)   *)
(* in the global queue, in their own local queue and in those of the       *)
(* others, spin, park, and are woken by whoever makes a goroutine          *)
(* runnable.                                                               *)
(*                                                                         *)
(* One step is one critical section of gsched.mu, one operation of a local *)
(* queue (GoRunq models those at the level of their atomic instructions),  *)
(* or one access to another variable that threads share.  What a goroutine *)
(* does is up to its function: it creates and readies goroutines, and it   *)
(* yields, parks or exits.  That goready finds its goroutine waiting is    *)
(* the caller's duty (park.v:16); GoChan shows that channels fulfil it.    *)
(***************************************************************************)
EXTENDS Integers, Sequences, FiniteSets

CONSTANTS Goroutine,
          NoG,
          gomaxprocs,       \* number of Ps
          MaxM,             \* bound: number of worker threads that can be told apart
          local_queue_size,
          global_queue_check_interval,
          SpinTries         \* rounds of the spin loop (20 in the code)

ASSUME SchedAssumption ==
  /\ NoG \notin Goroutine
  /\ gomaxprocs \in Nat \ {0}
  /\ MaxM \in Nat /\ MaxM > gomaxprocs
  /\ local_queue_size \in Nat \ {0}
  /\ global_queue_check_interval \in Nat \ {0}
  /\ SpinTries \in Nat \ {0}

Processor == 0..(gomaxprocs - 1)
NoP == -1
Machine == 1..MaxM
M0 == 0                      \* the main thread: it runs no scheduling loop and has no P
Thread == {M0} \cup Machine

VARIABLES status,      \* Goroutine.status
          runq,        \* gsched.runq, the global queue
          local,       \* local[p]: the ring of p, oldest first
          runnext,     \* runnext[p]
          g_free,      \* g_free[p]: dead goroutines of p, to be reused
          sched_tick,  \* sched_tick[p], modulo the check interval
          pidle,       \* idle Ps, the top of the stack first
          midle,       \* idle Ms, the top of the stack first
          mnext,       \* id of the next M
          nmspinning,
          stopped,
          mp_p,        \* mp_p[t]: the P of thread t
          spinning,
          park,        \* park[m]: count of the semaphore m sleeps on
          pc,          \* where thread t is
          curg,        \* the goroutine thread t has found, runs, or hands off
          handoff,     \* what the scheduler has to do with curg[m]
          tries,       \* rounds of the spin loop m has begun
          victims,     \* Ps m has still to try to steal from
          newp, newm   \* P and M in the hands of thread t, inside wake_p

queueVars == <<runq, local, runnext, g_free>>
idleVars == <<pidle, midle, mnext>>
findVars == <<tries, victims>>
wakeVars == <<newp, newm>>
vars == <<status, queueVars, sched_tick, idleVars, nmspinning, stopped, mp_p, spinning,
          park, pc, curg, handoff, findVars, wakeVars>>

Find == {"fair", "local", "global", "steal"}
Wake == {"wake", "start", "wire", "post", "new"}

TypeOK ==
  /\ status \in [Goroutine -> {"idle", "runnable", "running", "waiting", "dead"}]
  /\ runq \in Seq(Goroutine)
  /\ local \in [Processor -> Seq(Goroutine)]
  /\ \A p \in Processor : Len(local[p]) <= local_queue_size
  /\ runnext \in [Processor -> Goroutine \cup {NoG}]
  /\ g_free \in [Processor -> Seq(Goroutine)]
  /\ sched_tick \in [Processor -> 0..(global_queue_check_interval - 1)]
  /\ pidle \in Seq(Processor)
  /\ midle \in Seq(Machine)
  /\ mnext \in 1..(MaxM + 1)
  /\ nmspinning \in 0..MaxM
  /\ stopped \in BOOLEAN
  /\ mp_p \in [Thread -> Processor \cup {NoP}]
  /\ spinning \in [Machine -> BOOLEAN]
  /\ park \in [Machine -> Nat]
  /\ pc \in [Thread -> Find \cup Wake \cup {"none", "top", "got", "run", "switch", "park",
                                              "asleep", "exited", "broadcast"}]
  /\ curg \in [Machine -> Goroutine \cup {NoG}]
  /\ handoff \in [Machine -> {"none", "parked", "yielded", "exited"}]
  /\ tries \in [Machine -> 0..SpinTries]
  /\ victims \in [Machine -> SUBSET Processor]
  /\ newp \in [Thread -> Processor \cup {NoP}]
  /\ newm \in [Thread -> Machine \cup {M0}]

(* init: the Ps are pushed on the idle stack in order; no worker exists yet. *)
Init ==
  /\ status = [g \in Goroutine |-> "idle"]
  /\ runq = <<>>
  /\ local = [p \in Processor |-> <<>>]
  /\ runnext = [p \in Processor |-> NoG]
  /\ g_free = [p \in Processor |-> <<>>]
  /\ sched_tick = [p \in Processor |-> 0]
  /\ pidle = [i \in 1..gomaxprocs |-> gomaxprocs - i]
  /\ midle = <<>>
  /\ mnext = 1
  /\ nmspinning = 0
  /\ stopped = FALSE
  /\ mp_p = [t \in Thread |-> NoP]
  /\ spinning = [m \in Machine |-> FALSE]
  /\ park = [m \in Machine |-> 0]
  /\ pc = [t \in Thread |-> IF t = M0 THEN "run" ELSE "none"]
  /\ curg = [m \in Machine |-> NoG]
  /\ handoff = [m \in Machine |-> "none"]
  /\ tries = [m \in Machine |-> 0]
  /\ victims = [m \in Machine |-> {}]
  /\ newp = [t \in Thread |-> NoP]
  /\ newm = [t \in Thread |-> M0]

Goto(t, l) == pc' = [pc EXCEPT ![t] = l]

-----------------------------------------------------------------------------
(* Local queue of a P *)

(* Mutant: the full ring takes one more. *)
runq_put_offByOne(p, g) ==
  IF Len(local[p]) <= local_queue_size
  THEN /\ local' = [local EXCEPT ![p] = Append(@, g)]
       /\ runq' = runq
  ELSE LET n == Len(local[p]) \div 2 IN
       /\ local' = [local EXCEPT ![p] = SubSeq(@, n + 1, Len(@))]
       /\ runq' = runq \o SubSeq(local[p], 1, n) \o <<g>>

(* The ring takes g; a full one moves its older half and g to runq. *)
runq_put(p, g) ==
  IF Len(local[p]) < local_queue_size
  THEN /\ local' = [local EXCEPT ![p] = Append(@, g)]
       /\ runq' = runq
  ELSE LET n == Len(local[p]) \div 2 IN
       /\ local' = [local EXCEPT ![p] = SubSeq(@, n + 1, Len(@))]
       /\ runq' = runq \o SubSeq(local[p], 1, n) \o <<g>>

(* g takes the place of runnext, which is kicked out to the ring. *)
runq_put_next(p, g) ==
  /\ runnext' = [runnext EXCEPT ![p] = g]
  /\ IF runnext[p] = NoG THEN UNCHANGED <<local, runq>> ELSE runq_put(p, runnext[p])

-----------------------------------------------------------------------------
(* What running code, on a worker or on the main thread, may call *)

(* goroutine_create: newproc1 reuses a dead G of the caller's P, if any. *)
goroutine_create(t) ==
  /\ pc[t] = "run"
  /\ \E g \in Goroutine :
       /\ IF mp_p[t] # NoP /\ g_free[mp_p[t]] # <<>>
          THEN /\ g = Head(g_free[mp_p[t]])
               /\ g_free' = [g_free EXCEPT ![mp_p[t]] = Tail(@)]
          ELSE /\ status[g] = "idle"
               /\ g_free' = g_free
       /\ status' = [status EXCEPT ![g] = "runnable"]
       /\ runq' = Append(runq, g)
  /\ Goto(t, "wake")
  /\ UNCHANGED <<local, runnext, sched_tick, idleVars, nmspinning, stopped, mp_p, spinning,
                 park, curg, handoff, findVars, wakeVars>>

goready(t) ==
  /\ pc[t] = "run"
  /\ \E g \in Goroutine :
       /\ status[g] = "waiting"
       /\ status' = [status EXCEPT ![g] = "runnable"]
       /\ IF mp_p[t] # NoP
          THEN runq_put_next(mp_p[t], g)
          ELSE runq' = Append(runq, g) /\ UNCHANGED <<local, runnext>>
  /\ Goto(t, "wake")
  /\ UNCHANGED <<g_free, sched_tick, idleVars, nmspinning, stopped, mp_p, spinning,
                 park, curg, handoff, findVars, wakeVars>>

(* gosched, gopark and goexit0 leave a note for the scheduler and switch to *)
(* its stack; the goroutine's stack is in use until the switch is made.     *)
Leave(m, note) ==
  /\ m # M0
  /\ pc[m] = "run"
  /\ handoff' = [handoff EXCEPT ![m] = note]
  /\ Goto(m, "switch")
  /\ UNCHANGED <<queueVars, sched_tick, idleVars, nmspinning, stopped, mp_p, spinning,
                 park, curg, findVars, wakeVars>>

(* Mutant: the goroutine is queued while the thread is still on its stack. *)
gosched_publishesEarly(m) ==
  /\ m # M0
  /\ pc[m] = "run"
  /\ handoff' = [handoff EXCEPT ![m] = "parked"]
  /\ status' = [status EXCEPT ![curg[m]] = "runnable"]
  /\ local' = [local EXCEPT ![mp_p[m]] = Append(@, curg[m])]
  /\ Goto(m, "switch")
  /\ UNCHANGED <<runq, runnext, g_free, sched_tick, idleVars, nmspinning, stopped, mp_p,
                 spinning, park, curg, findVars, wakeVars>>

gosched(m) == Leave(m, "yielded") /\ status' = status

gopark(m) == Leave(m, "parked") /\ status' = status

goexit0(m) == Leave(m, "exited") /\ status' = [status EXCEPT ![curg[m]] = "dead"]

(* shutdown, called by the main thread once: the flag, then the broadcast. *)
shutdown ==
  /\ pc[M0] = "run"
  /\ ~stopped
  /\ stopped' = TRUE
  /\ Goto(M0, "broadcast")
  /\ UNCHANGED <<status, queueVars, sched_tick, idleVars, nmspinning, mp_p, spinning,
                 park, curg, handoff, findVars, wakeVars>>

shutdown_broadcast ==
  /\ pc[M0] = "broadcast"
  /\ park' = [m \in Machine |->
                IF \E i \in 1..Len(midle) : midle[i] = m THEN park[m] + 1 ELSE park[m]]
  /\ Goto(M0, "run")
  /\ UNCHANGED <<status, queueVars, sched_tick, idleVars, nmspinning, stopped, mp_p,
                 spinning, curg, handoff, findVars, wakeVars>>

-----------------------------------------------------------------------------
(* wake_p, start_m and new_m *)

wake_p(t) ==
  /\ pc[t] = "wake"
  /\ IF pidle = <<>> \/ nmspinning > 0
     THEN Goto(t, "run") /\ UNCHANGED <<pidle, newp>>
     ELSE /\ newp' = [newp EXCEPT ![t] = Head(pidle)]
          /\ pidle' = Tail(pidle)
          /\ Goto(t, "start")
  /\ UNCHANGED <<status, queueVars, sched_tick, midle, mnext, nmspinning, stopped, mp_p,
                 spinning, park, curg, handoff, findVars, newm>>

(* Mutant: idle Ms are not reused. *)
start_m_alwaysNew(t) ==
  /\ pc[t] = "start"
  /\ mnext <= MaxM
  /\ newm' = [newm EXCEPT ![t] = mnext]
  /\ mnext' = mnext + 1
  /\ Goto(t, "new")
  /\ UNCHANGED <<status, queueVars, sched_tick, pidle, midle, nmspinning, stopped, mp_p,
                 spinning, park, curg, handoff, findVars, newp>>

start_m(t) ==
  /\ pc[t] = "start"
  /\ IF midle # <<>>
     THEN /\ newm' = [newm EXCEPT ![t] = Head(midle)]
          /\ midle' = Tail(midle)
          /\ Goto(t, "wire")
          /\ mnext' = mnext
     ELSE /\ mnext <= MaxM
          /\ newm' = [newm EXCEPT ![t] = mnext]
          /\ mnext' = mnext + 1
          /\ Goto(t, "new")
          /\ midle' = midle
  /\ UNCHANGED <<status, queueVars, sched_tick, pidle, nmspinning, stopped, mp_p,
                 spinning, park, curg, handoff, findVars, newp>>

(* The M taken from the idle list gets the P ...                           *)
wire_p(t) ==
  /\ pc[t] = "wire"
  /\ mp_p' = [mp_p EXCEPT ![newm[t]] = newp[t]]
  /\ newp' = [newp EXCEPT ![t] = NoP]
  /\ Goto(t, "post")
  /\ UNCHANGED <<status, queueVars, sched_tick, idleVars, nmspinning, stopped, spinning,
                 park, curg, handoff, findVars, newm>>

(* ... and is woken.                                                        *)
post(t) ==
  /\ pc[t] = "post"
  /\ park' = [park EXCEPT ![newm[t]] = @ + 1]
  /\ newm' = [newm EXCEPT ![t] = M0]
  /\ Goto(t, "run")
  /\ UNCHANGED <<status, queueVars, sched_tick, idleVars, nmspinning, stopped, mp_p,
                 spinning, curg, handoff, findVars, newp>>

(* A new M has its P and counts as spinning before its thread starts. *)
new_m(t) ==
  /\ pc[t] = "new"
  /\ mp_p' = [mp_p EXCEPT ![newm[t]] = newp[t]]
  /\ spinning' = [spinning EXCEPT ![newm[t]] = TRUE]
  /\ nmspinning' = nmspinning + 1
  /\ pc' = [pc EXCEPT ![newm[t]] = "top", ![t] = "run"]
  /\ newp' = [newp EXCEPT ![t] = NoP]
  /\ newm' = [newm EXCEPT ![t] = M0]
  /\ UNCHANGED <<status, queueVars, sched_tick, idleVars, stopped, park, curg, handoff,
                 findVars>>

-----------------------------------------------------------------------------
(* schedule_loop and find_runnable *)

(* Mutant: no tick check. *)
FindStart_unfair(tick) == "local"

(* find_runnable begins with the global queue at every tick that is a       *)
(* multiple of the interval, else with the local queue.                     *)
FindStart(tick) == IF tick = 0 THEN "fair" ELSE "local"

(* The top of the loop. An M always has a P here (WorkersHoldPs), so        *)
(* schedule_loop's acquire_p is never reached.                              *)
schedule_loop(m) ==
  /\ pc[m] = "top"
  /\ IF stopped
     THEN Goto(m, "exited") /\ UNCHANGED <<sched_tick, tries>>
     ELSE LET tick == (sched_tick[mp_p[m]] + 1) % global_queue_check_interval IN
          /\ sched_tick' = [sched_tick EXCEPT ![mp_p[m]] = tick]
          /\ Goto(m, FindStart(tick))
          /\ tries' = [tries EXCEPT ![m] = 0]
  /\ UNCHANGED <<status, queueVars, idleVars, nmspinning, stopped, mp_p, spinning, park,
                 curg, handoff, victims, wakeVars>>

Found(m, g) == curg' = [curg EXCEPT ![m] = g] /\ Goto(m, "got")

(* What no step of find_runnable touches. *)
FindFrame == UNCHANGED <<status, g_free, sched_tick, idleVars, nmspinning, stopped, mp_p,
                         spinning, park, handoff, tries, wakeVars>>

(* glob_runq_get, for the tick check and after the local queue was empty. *)
glob_runq_get(m) ==
  /\ pc[m] \in {"fair", "global"}
  /\ IF runq # <<>>
     THEN /\ Found(m, Head(runq))
          /\ runq' = Tail(runq)
          /\ victims' = victims
     ELSE /\ Goto(m, IF pc[m] = "fair" THEN "local" ELSE "steal")
          /\ victims' = [victims EXCEPT ![m] = Processor \ {mp_p[m]}]
          /\ UNCHANGED <<runq, curg>>
  /\ UNCHANGED <<local, runnext>>
  /\ FindFrame

runq_get(m) ==
  /\ pc[m] = "local"
  /\ LET p == mp_p[m] IN
     IF runnext[p] # NoG
     THEN /\ Found(m, runnext[p])
          /\ runnext' = [runnext EXCEPT ![p] = NoG]
          /\ local' = local
     ELSE IF local[p] # <<>>
     THEN /\ Found(m, Head(local[p]))
          /\ local' = [local EXCEPT ![p] = Tail(@)]
          /\ runnext' = runnext
     ELSE Goto(m, "global") /\ UNCHANGED <<curg, local, runnext>>
  /\ UNCHANGED <<runq, victims>>
  /\ FindFrame

(* runq_steal takes the older half of a ring, or runnext if the ring is     *)
(* empty; the first goroutine is run, the others go to the thief's ring.    *)
(* steal_work visits the Ps from a random one on, here in any order.        *)
steal_work(m) ==
  /\ pc[m] = "steal"
  /\ \E v \in victims[m] :
       LET n == Len(local[v]) - Len(local[v]) \div 2 IN
       /\ IF local[v] # <<>>
          THEN /\ Found(m, Head(local[v]))
               /\ local' = [local EXCEPT ![v] = SubSeq(@, n + 1, Len(@)),
                                         ![mp_p[m]] = @ \o SubSeq(local[v], 2, n)]
               /\ runnext' = runnext
          ELSE IF runnext[v] # NoG
          THEN /\ Found(m, runnext[v])
               /\ runnext' = [runnext EXCEPT ![v] = NoG]
               /\ local' = local
          ELSE UNCHANGED <<pc, curg, local, runnext>>
       /\ victims' = [victims EXCEPT ![m] = @ \ {v}]
  /\ UNCHANGED runq
  /\ FindFrame

(* Mutant: an M that spins already, as a new one does, is counted again. *)
Spin_countsTwice(m) ==
  /\ pc[m] = "steal"
  /\ victims[m] = {}
  /\ tries[m] < SpinTries
  /\ tries' = [tries EXCEPT ![m] = @ + 1]
  /\ spinning' = [spinning EXCEPT ![m] = TRUE]
  /\ nmspinning' = nmspinning + 1
  /\ Goto(m, FindStart(sched_tick[mp_p[m]]))
  /\ UNCHANGED <<status, queueVars, sched_tick, idleVars, stopped, mp_p, park, curg,
                 handoff, victims, wakeVars>>

(* find_runnable found nothing: spin, and look again ... *)
Spin(m) ==
  /\ pc[m] = "steal"
  /\ victims[m] = {}
  /\ tries[m] < SpinTries
  /\ tries' = [tries EXCEPT ![m] = @ + 1]
  /\ spinning' = [spinning EXCEPT ![m] = TRUE]
  /\ nmspinning' = IF spinning[m] THEN nmspinning ELSE nmspinning + 1
  /\ Goto(m, FindStart(sched_tick[mp_p[m]]))
  /\ UNCHANGED <<status, queueVars, sched_tick, idleVars, stopped, mp_p, park, curg,
                 handoff, victims, wakeVars>>

(* ... or stop spinning and park. *)
StopSpinning(m) ==
  /\ pc[m] = "steal"
  /\ victims[m] = {}
  /\ tries[m] = SpinTries
  /\ spinning' = [spinning EXCEPT ![m] = FALSE]
  /\ nmspinning' = nmspinning - 1
  /\ Goto(m, "park")
  /\ UNCHANGED <<status, queueVars, sched_tick, idleVars, stopped, mp_p, park, curg,
                 handoff, findVars, wakeVars>>

(* An M that found work no longer spins, and runs it. *)
execute(m) ==
  /\ pc[m] = "got"
  /\ spinning' = [spinning EXCEPT ![m] = FALSE]
  /\ nmspinning' = IF spinning[m] THEN nmspinning - 1 ELSE nmspinning
  /\ status' = [status EXCEPT ![curg[m]] = "running"]
  /\ Goto(m, "run")
  /\ UNCHANGED <<queueVars, sched_tick, idleVars, stopped, mp_p, park, curg, handoff,
                 findVars, wakeVars>>

(* The rest of execute, on the scheduler's stack: what becomes of the       *)
(* goroutine that left.                                                     *)
execute_handoff(m) ==
  /\ pc[m] = "switch"
  /\ LET g == curg[m] IN
     \/ /\ handoff[m] = "parked"
        /\ status' = [status EXCEPT ![g] = "waiting"]
        /\ UNCHANGED <<runq, local, g_free>>
     \/ /\ handoff[m] = "yielded"
        /\ status' = [status EXCEPT ![g] = "runnable"]
        /\ runq_put(mp_p[m], g)
        /\ g_free' = g_free
     \/ /\ handoff[m] = "exited"
        /\ g_free' = [g_free EXCEPT ![mp_p[m]] = <<g>> \o @]
        /\ UNCHANGED <<status, runq, local>>
  /\ handoff' = [handoff EXCEPT ![m] = "none"]
  /\ curg' = [curg EXCEPT ![m] = NoG]
  /\ Goto(m, "top")
  /\ UNCHANGED <<runnext, sched_tick, idleVars, nmspinning, stopped, mp_p, spinning, park,
                 findVars, wakeVars>>

(* Mutant: no second look at the global queue. *)
park_m_noRecheck(m) ==
  /\ pc[m] = "park"
  /\ pidle' = <<mp_p[m]>> \o pidle
  /\ mp_p' = [mp_p EXCEPT ![m] = NoP]
  /\ midle' = <<m>> \o midle
  /\ Goto(m, "asleep")
  /\ UNCHANGED <<status, queueVars, sched_tick, mnext, nmspinning, stopped, spinning, park,
                 curg, handoff, findVars, wakeVars>>

(* park_m looks at the global queue once more under the lock. *)
park_m(m) ==
  /\ pc[m] = "park"
  /\ IF runq # <<>>
     THEN Goto(m, "top") /\ UNCHANGED <<pidle, midle, mp_p>>
     ELSE /\ pidle' = <<mp_p[m]>> \o pidle
          /\ mp_p' = [mp_p EXCEPT ![m] = NoP]
          /\ midle' = <<m>> \o midle
          /\ Goto(m, "asleep")
  /\ UNCHANGED <<status, queueVars, sched_tick, mnext, nmspinning, stopped, spinning, park,
                 curg, handoff, findVars, wakeVars>>

(* Mutant: a woken M always takes an idle P. *)
park_m_woken_acquires(m) ==
  /\ pc[m] = "asleep"
  /\ park[m] > 0
  /\ park' = [park EXCEPT ![m] = @ - 1]
  /\ IF pidle # <<>>
     THEN /\ mp_p' = [mp_p EXCEPT ![m] = Head(pidle)]
          /\ pidle' = Tail(pidle)
     ELSE UNCHANGED <<mp_p, pidle>>
  /\ Goto(m, "top")
  /\ UNCHANGED <<status, queueVars, sched_tick, midle, mnext, nmspinning, stopped, spinning,
                 curg, handoff, findVars, wakeVars>>

(* The rest of park_m: a waker has wired a P, the broadcast has not.        *)
park_m_woken(m) ==
  /\ pc[m] = "asleep"
  /\ park[m] > 0
  /\ park' = [park EXCEPT ![m] = @ - 1]
  /\ IF mp_p[m] = NoP /\ pidle # <<>>
     THEN /\ mp_p' = [mp_p EXCEPT ![m] = Head(pidle)]
          /\ pidle' = Tail(pidle)
     ELSE UNCHANGED <<mp_p, pidle>>
  /\ Goto(m, "top")
  /\ UNCHANGED <<status, queueVars, sched_tick, midle, mnext, nmspinning, stopped, spinning,
                 curg, handoff, findVars, wakeVars>>

-----------------------------------------------------------------------------
WakeStep(t) == wake_p(t) \/ start_m(t) \/ wire_p(t) \/ post(t) \/ new_m(t)

LoopStep(m) ==
  \/ schedule_loop(m) \/ glob_runq_get(m) \/ runq_get(m) \/ steal_work(m)
  \/ Spin(m) \/ StopSpinning(m)
  \/ execute(m) \/ execute_handoff(m)
  \/ park_m(m) \/ park_m_woken(m)

LeaveStep(m) == gosched(m) \/ gopark(m) \/ goexit0(m)

Next ==
  \/ \E t \in Thread : goroutine_create(t) \/ goready(t) \/ WakeStep(t)
  \/ \E m \in Machine : LeaveStep(m) \/ LoopStep(m)
  \/ shutdown
  \/ shutdown_broadcast

Spec == Init /\ [][Next]_vars

(* The operating system runs every thread, and every goroutine yields,      *)
(* parks or exits in the end (scheduling is cooperative).                   *)
Fairness ==
  /\ \A t \in Thread : WF_vars(WakeStep(t))
  /\ \A m \in Machine : WF_vars(LoopStep(m)) /\ SF_vars(LeaveStep(m))
  /\ WF_vars(shutdown_broadcast)

FairSpec == Spec /\ Fairness

-----------------------------------------------------------------------------
(* Properties *)

Occurrences(g, s) == Cardinality({i \in 1..Len(s) : s[i] = g})

(* The places from which a goroutine can be taken to be run. *)
Copies(g) ==
  Occurrences(g, runq)
  + Cardinality({pi \in Processor \X (1..local_queue_size) :
                   pi[2] <= Len(local[pi[1]]) /\ local[pi[1]][pi[2]] = g})
  + Cardinality({p \in Processor : runnext[p] = g})
  + Cardinality({m \in Machine : pc[m] = "got" /\ curg[m] = g})

OnStack(m) == pc[m] \in {"run", "switch"} \cup Wake

(* A runnable goroutine is queued exactly once, so execute never panics     *)
(* ("want runnable", scheduler.v:209) and nothing is run twice; a goroutine *)
(* that runs, waits or is dead is not queued.  While its stack is in use by *)
(* a thread it is neither queued, nor ready to be woken, nor reusable.      *)
EachGoroutineOnce ==
  /\ \A g \in Goroutine : Copies(g) = IF status[g] = "runnable" THEN 1 ELSE 0
  /\ \A m \in Machine : OnStack(m) =>
       /\ status[curg[m]] \in {"running", "dead"}
       /\ \A n \in Machine \ {m} : OnStack(n) => curg[n] # curg[m]
       /\ \A p \in Processor : Occurrences(curg[m], g_free[p]) = 0

Holders(p) ==
  Cardinality({i \in 1..Len(pidle) : pidle[i] = p})
  + Cardinality({t \in Thread : mp_p[t] = p})
  + Cardinality({t \in Thread : newp[t] = p})

(* Every P is idle, wired to one M, or in the hands of one waker: none is   *)
(* stranded (the comment of park_m, scheduler.v:301) and none has two       *)
(* threads working on its single-producer queue.  After shutdown a woken M  *)
(* may take a P of its own just before a waker wires another.               *)
EachProcessorOnce == ~stopped => \A p \in Processor : Holders(p) = 1

(* An M that runs or looks for work has a P, so the branch of schedule_loop *)
(* without one is dead; an idle P has no work that nobody would look for;   *)
(* and there are never more workers than Ps.                                *)
WorkersHoldPs ==
  /\ \A m \in Machine : pc[m] \notin {"none", "asleep", "exited"} /\ ~stopped => mp_p[m] # NoP
  /\ \A p \in Processor :
       (\A t \in Thread : mp_p[t] # p) => local[p] = <<>> /\ runnext[p] = NoG
  /\ mnext - 1 <= gomaxprocs

(* nmspinning counts the spinning Ms; wake_p relies on it.                  *)
SpinCount == nmspinning = Cardinality({m \in Machine : spinning[m]})

Awake(m) == pc[m] \notin {"none", "asleep", "exited"} \/ park[m] > 0

(* No lost wakeup: with a goroutine in the global queue and nobody on the   *)
(* way to wake an M, some M is awake and will look there before it parks.   *)
(* wake_p does nothing while an M spins, hence the recheck of park_m        *)
(* (scheduler.v:282).                                                       *)
NoStrandedWork ==
  runq # <<>> /\ ~stopped /\ (\A t \in Thread : pc[t] \notin Wake) => \E m \in Machine : Awake(m)

(* Every goroutine put on the global queue leaves it, however busy the      *)
(* local queues are (the tick check of find_runnable, scheduler.v:173).     *)
GlobalQueueServed ==
  \A g \in Goroutine :
    (\E i \in 1..Len(runq) : runq[i] = g) ~> (~\E i \in 1..Len(runq) : runq[i] = g) \/ stopped

(* What shutdown is for: "Wake all idle M's so they can exit" (init.v:104), *)
(* and schedule_loop "returns only after shutdown()" (scheduler.v:396).     *)
ShutdownEndsWorkers ==
  \A m \in Machine : stopped /\ pc[m] # "none" ~> pc[m] = "exited"
=============================================================================

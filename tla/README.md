# TLA+ specification of V's concurrency runtime

This directory holds TLA+ models of the concurrency core of V: the goroutine
runtime of `vlib/goroutines` (scheduler, run queues, channels, goroutine reuse),
the channels and `select` of spawned threads (`vlib/sync`), and two libraries built
on threads and channels, `vlib/context` and `vlib/pool`. Every module is translated
from the source; line numbers in comments are those of the files that the head of
the module names.

## 1. Inventory

| Component | State | Operations | What is hard |
|---|---|---|---|
| goroutine channel (`chan.v`, `park.v`) | spin lock, ring buffer with `qcount`, `sendx`, `recvx`, two wait lists, `closed` | `chan_make`, `chan_send`, `chan_recv`, `chan_close`, direct hand-offs | the lock is released by another context than the one that took it; copies and wakeups after unlocking; `goready` drops a wakeup that comes too early |
| GMP scheduler (`scheduler.v`, `park.v`, `init.v`) | per G: status; per P: local queue, `runnext`, tick, free list; per M: P, current G, hand-off note, spinning flag, semaphore; global: run queue, idle lists, spin count, `stopped` | `goroutine_create`, `gosched`, `gopark`, `goready`, `goexit0`, `schedule_loop`, `find_runnable`, `execute`, `wake_p`, `start_m`, `new_m`, `park_m`, `steal_work`, `shutdown` | lost wakeups between the last look for work and parking; stranded Ps; a G queued while its stack is still in use; fairness of the global queue; shutdown |
| local run queue (`scheduler.v`) | `runq_head`, `runq_tail` (u32), 256 slots, `runnext` | `runq_put`, `runq_put_slow`, `runq_get`, `runq_steal` | lock-free, one producer and many consumers, counters that wrap, slots copied before they are claimed |
| goroutine identity and reuse (`scheduler.v`, `init.v`) | ids, id caches of Ps, global counter, free lists, `allgs` | `newproc1`, `assign_goid`, `gfget`, `gfput`, `goexit0`, `num_goroutine` | ranges of ids; reuse only after the stack is free |
| context switching, thread-local storage, atomics (`context_*.v`, `tls.c`, `atomic_ops.c.v`) | registers and stacks | switch, set, init | below the level of these models; assumed |
| spawn channels and `select` (`vlib/sync/channels.c.v`) | semaphores, ring with a status per slot, advertised addresses, subscriptions | push, pop, try, close, select with time-out | several atomic words and four semaphores, close racing a hand-off, time-out racing a claim |
| blocking primitives (`vlib/sync`: `cond.v`, `barrier.v`, `latch.v`, `phaser.v`, `stamped_lock.v`, `waitgroup.c.v`, `once.v`, `once_lock.v`, `park.v`, `timer.c.v`) | counters, generations, wait lists | wait, signal, arrive, register, lock, add, done | lost wakeups, reuse across generations |
| contexts (`vlib/context`) | tree of contexts; per context: mutex, `err`, `cause`, `done`, map of children | the four `with_` functions, cancel functions, watcher and timer threads | a parent's mutex is held while its children are cancelled; the map of children is changed without it |
| connection pool (`vlib/pool`) | all connections, the idle ones, wait queue, eviction channel, configuration, five mutexes | `get`, `put`, `prune_connections`, `update_config`, `close` | background thread, time-outs, a bounded channel filled under a lock its reader needs |
| lock-free structures (`vlib/datatypes/lockfree`) | ring buffer, counter | push, pop | reservation and commit by several threads |
| compiler, tools, builtin, network, databases, formats, graphics | - | - | sequential or pure I/O; not modelled (see section 8) |

How they interact. A goroutine (G) runs on a thread (M) that holds a processor
(P). Code on a G calls channel operations; one that must block enqueues itself
and leaves a note for the scheduler (`handoff`, `park_unlock`), switches to the
M's scheduling stack, and *the scheduler* marks it waiting and releases the
channel's lock (`execute`, scheduler.v:233). The side that serves it calls
`goready`, which queues it on the P of the caller and wakes another M through
`wake_p`. The main goroutine has no scheduler: it blocks on the semaphore
`main_park`.

## 2. Modules

| Module | Models | Notes |
|---|---|---|
| `FifoChan` | what a channel promises | no lock, ring or scheduler: one queue, two lists, a mailbox per caller |
| `GoChan` | `chan.v` with the handshake of `park.v` | implements `FifoChan` |
| `GoChan_proofs` | theorems about `GoChan`, and that it implements `FifoChan` | |
| `GoSched` | scheduler | local queues are atomic here |
| `GoSched_proofs` | theorems about `GoSched` | |
| `GoRunq` | one local queue, instruction by instruction | justifies the atomic local queue of `GoSched` |
| `GoRunq_proofs` | theorems about `GoRunq` | |
| `GoLifecycle` | ids, free lists, `allgs` | |
| `GoLifecycle_proofs` | theorems about `GoLifecycle` | |
| `SyncChan` | `sync/channels.c.v`: push, pop, close and `select` | one atomic instruction per step |
| `SyncChan_proofs` | theorems about `SyncChan` | |
| `Context` | `context/cancel.v`, `deadline.v`, `cause.v` | |
| `Context_proofs` | theorems about `Context` | |
| `ConnPool` | `pool/connection.v` | |
| `ConnPool_proofs` | theorems about `ConnPool` | |
| `SequenceFacts` | lemmas about `Head`, `Tail`, `Append`, `SubSeq`, `Range`, counting and remainders | used by the proofs |
| `MCGoChan`, `MCGoSched`, `MCGoRunq`, `MCGoLifecycle` | the symmetry sets of the TLC runs | |
| `MCSyncChan`, `MCContext`, `MCConnPool` | the programs the TLC runs look at | |

A definition whose comment begins with "Mutant" is a plausible bug: used in
place of the definition that follows it, it violates a property. No
specification refers to it.

### GoChan

The variables `mu`, `qcount`, `buf`, `sendx`, `recvx`, `closed`, `recvq`,
`sendq` are the fields of `Chan`; `status` and `main_park` belong to the
scheduler. `pc` tells where a goroutine is between two critical sections.
A step is one critical section of the spin lock, since nothing outside it
touches the fields. There are three exceptions, which are the interesting ones:

- `SendToReceiver` releases the lock with the dequeued receiver in hand, and
  `SendDirect` (copy, success flag, `goready`) comes later (chan.v:76-77);
- a blocking call keeps the lock (`pc = "park_..."`) until `SchedUnlock`, which
  is the scheduler's part of `gopark_unlock`; for the main goroutine it is
  the part before `main_park.wait()`;
- a close keeps the lock over one step per waiter, which runs meanwhile.

`goready` is modelled with its silent return. Panics end the calling goroutine
only; in the program they end the process, so every behaviour of the program up
to a panic is one of the model. `block = false` and `TRUE` are the choice
between `...GivesUp` and `...Parks`. An `ep` that is nil is a destination nobody
reads.

### GoSched

`Machine` are the worker threads, `M0` the main thread, which may create and
ready goroutines and call `shutdown` but runs none. `pc[t]` names the next shared
access of thread t. `wake_p` is split at every point where it releases
`gsched.mu` (`wake`, `start`, `wire`/`post` or `new`), `find_runnable` in its
four probes, `steal_work` in one step per victim (in any order: the code starts at
a random P), and a goroutine that leaves is in `pc = "switch"` until
the thread is on its own stack again (`execute_handoff`). What a goroutine's
function does is nondeterministic. `sched_tick` is kept modulo the interval. The
fields that follow from others (`npidle`, `nmidle`, `g.m`, `p.m`, `P.status`) are
left out, as is the bounded wait for `started`, which only delays the creator.

### GoRunq

The owner (`pc`) and each thief (`tpc`) take one step per atomic load, store,
exchange or compare-and-swap, and one per slot copied. The counters are numbers
modulo `W` (2^32 in the code) and start at `Start`, so a run with `Start` near `W`
wraps. `out[g]` counts the threads that were handed `g`.

### GoLifecycle

`newproc1` is split where it appends to `allgs`, and `goexit0` from the `gfput`
that the scheduler does for it after the switch. Status "alive" stands for
runnable, running and waiting; "exiting" is dead with the stack in use.

### SyncChan

`ch` is the `Channel` struct, field by field; `subs` and `mtx` are the two lists of
subscribed selects and their mutexes, `sel[t]` the state word and semaphore
of a select. A thread's place is `pc[t]`, its locals are `fr[t]`. A compare-and-swap
loop is one step at the moment it succeeds; a bounded spin may end at any time. The
address that a call lends to the channel is the thread that called, so
an address that outlives its call points at the object of the next one: this is
what the stack of the program does, and `PartnerIsThere` and `ExactlyOnce` see it.
What the threads do is a program (`use`: capacity, the calls each thread may make,
the time-outs of its selects), chosen in the initial state, so one run
covers buffered and unbuffered channels, closes and selects. A select has one
case: the order in which several cases are tried is not modelled.

### Context

A process is one call or one spawned thread, `pc[p]` its place, `stack[p]` its
nested calls of `cancel`, which holds the mutex of a context while it cancels the
children. `cancel` of the three types differs in what comes before and after
(`CancelCause`, `RemoveLooks`). The map of children is a race in the code: an
insertion or a deletion is a read and a write of the map here, and a loop over it
may or may not see an entry that comes or goes meanwhile. `done` is "open", "sent"
(the 0 that `cancel` pushes is still there) or "closed"; a `select` with `else`
ignores a closed channel, so the difference matters.

### ConnPool

`pc[p]` is the place of a client, of the maintenance thread or of the main thread,
which made the pool and closes it; `mine[p]` are the connections it has in its
hands, `open` those that exist at the server. `config_mutex` and
`wait_queue_mutex` are released before anything is waited for, so their sections
are steps. A connection is stale or valid by choice, a call of the factory or of
`reset` may fail, a wait may time out. A push on a closed channel panics, which ends the program
(`panicked`). `active_count` is atomic and guarded by no lock, so `get` counts in a step
of its own after the insertion, `put` looks and subtracts in two, and `close` resets it
in its last. Where the code closes a connection it has found superfluous, the close may
fail, and the call then returns the error. Closed connections that nobody can name any more are used again as new
ones, the smallest first.

## 3. Runs

| Run | Instance | Checks | States |
|---|---|---|---|
| `chan_buffered` | 3 goroutines, 2 calls each, 2 slots, fair | `TypeOK`, `RingConsistent`, `NobodyWaitsInVain`, `NoDroppedWakeup`, `ImplementsFifo`, `WaitersAreReadied` | 38 k |
| `sched_safety` | 2 Ps, 3 Gs, local queues of 2, interval 2 | `TypeOK`, `EachGoroutineOnce`, `EachProcessorOnce`, `WorkersHoldPs`, `SpinCount`, `NoStrandedWork` | 2.9 M |
| `sched_served` | 1 P, 3 Gs, interval 3, fair | `GlobalQueueServed` | 45 k |
| `sched_shutdown` | 1 P, 1 G, fair | `ShutdownEndsWorkers` **is violated** | |
| `runq_race` | owner and 2 thieves, 3 slots, batches of 2, counters modulo 6 from 5 | `TypeOK`, `NothingLostOrDoubled`, `NoDesync`, `OldestLeavesFirst`, no deadlock | 899 k |
| `lifecycle_ids` | 2 Ps and the main thread, 3 Gs, batches of 2 | `TypeOK`, `CachesDisjoint`, `UniqueIds`, `FreeMeansDead` | 385 k |
| `syncchan_all` | 9 programs of 3 or 4 threads, capacities 0 to 3, fair | `TypeOK`, `ExactlyOnce`, `SlotOrder`, `TokenMeansSpace`, `NobodyWaitsInVain`, `ClosedMeansDrained`, `PartnerIsThere`, `CloseReleasesReaders` | 358 k |
| `syncchan_handoff_close` | 2 senders, one of which closes, and a receiver, unbuffered | `ExactlyOnce` **is violated** | |
| `syncchan_overtaking` | 2 senders and 2 receivers, 3 calls each, capacity 3 | `SlotOrder` **is violated** | |
| `context_tree` | 6 trees of 3 contexts of all types, fair | `TypeOK`, `CancelReachesChildren`, `CancelReleases`, `CallsReturn`, `LateChildIsCanceled` | 550 k |
| `context_orphan` | a parent and two children, fair | `ParentCancelReachesChild` **is violated** | |
| `pool_calls` | 4 uses of pools of 1 and 2 connections, eviction channel of 1, fair | `TypeOK`, `PoolConsistent`, `ActiveCounted`, `NoLeak`, `CallsReturn` | 303 k |

What they show. The channel of goroutines does what a queue with two wait lists
does, in every interleaving of the steps after unlocking (`ImplementsFifo`), and
no wakeup is lost: whoever leaves a wait list is handed to the scheduler, and a close
hands over everybody. The scheduler never queues a goroutine or a
P twice and never leaves work behind with everybody asleep. The lock-free queue
hands every goroutine to one thread although slots are copied before they are
claimed. The channel of threads delivers every value once and, with one sender, one
receiver or at most two slots, in the order of reservation, never strands a caller beside what it waits for, and close
releases all receivers. A cancel reaches the children that were made before it, and the
mutexes of parent and child, taken in both directions, deadlock nobody. The pool
never shares, loses or leaks a connection whichever check fails, counts those in use
correctly until it is closed, and its calls return, but for one state (Findings, 9).

Bounds. With three goroutines and two calls each, a ring of two slots fills, wraps
and drains, one goroutine waits behind a full or an empty ring and another closes.
The unbuffered channel (`dataqsiz` = 0) has the same actions without the ring; the
theorem `Refinement` (section 5) covers it, as every other size. `MaxM` is one more than `gomaxprocs`; `WorkersHoldPs` shows
that no run wants more threads than Ps, so the bound is not felt. Two Ps are
the least with stealing, three goroutines fill a local queue of two while one runs.
`SpinTries` = 1 keeps one round of the spin loop (20 in the code: more
rounds of the same). In `runq_race` `MaxPuts` exceeds the distance of `Start` to
`W`, so the counters wrap, and stays below `W`, because a thief that sleeps
through a whole turn of the counter is the ABA case the code accepts at 2^32; three
slots are the least from which a thief takes two. `MaxId` allows three refills of the id
caches. The programs of `syncchan_all` give two senders a full ring with a slow
writer in the middle, two selects at one channel, selects that face each other in
every order of their state words, and closes by two threads. Three contexts are
a parent with a grandchild or with two siblings. Two clients compete for the
last connection of a pool, while maintenance makes one of its own and close comes at
any time; an eviction channel of one slot fills as one of 1000 does, only sooner.
`NumConn` is more than all threads together can have in their hands.

Deadlock is checked for `GoRunq`, which never stops. The others may stop
because of their bounds or because everybody waits on a channel, which is the
user's doing; where a wait would be the code's fault, a property says so.

Fairness. `GoChan!FairSpec`: weak fairness of the steps a thread is bound to take next
(finish a direct send or a close, unlock after a park), and of the main goroutine, a
thread of its own, returning from a posted semaphore; nothing obliges a goroutine to
call the channel again. That a goroutine which has been readied *runs* is not assumed,
because the scheduler does not promise it (Findings, 12): `WaitersAreReadied` ends where
the goroutine is runnable.
`GoSched!FairSpec`: weak fairness of each thread's own steps, which the operating
system gives, and strong fairness of a goroutine leaving its thread: scheduling
is cooperative, and a goroutine that never yields, parks or returns holds its P
for ever. Strong, because creating and readying others interrupt the state in which it
can leave. `SyncChan!FairSpec`: weak fairness of each thread inside its call.
`Context!FairSpec`: some thread goes on while one can, and sleeps end.
`ConnPool!FairSpec`: weak fairness of each thread inside its call; the factory
returns; and strong fairness of a `get` running out of time, because it looks at
the clock each time around its loop and time passes.

## 4. Findings

With a run that shows them:

1. **shutdown can leave a worker asleep for ever** (`sched_shutdown`). `shutdown` sets
   `stopped`, then posts the Ms that are on the idle list. A worker that has
   passed the check of `stopped` (scheduler.v:406) and finds nothing puts itself on the
   list after that. `park_m` looks at the global queue once more, not at
   `stopped`.
2. **A close that races a hand-off breaks the report of the send**
   (`syncchan_handoff_close`). A receiver has taken the sender's address and not yet
   acknowledged it when `close` posts `writesem_im`: the sender returns `.closed`
   (channels.c.v:436-443) and the receiver copies the value and returns `.success`.
3. **Values overtake each other in a ring of three or more** (`syncchan_overtaking`).
   A sender reserves slot 0 and stores late; the values in slots 1 and 2 are
   received and their entries freed, so another sender reserves slot 0 for the next
   lap, stores first, and its value is taken for the first one. The comment above
   `race_sync_on` (channels.c.v:251-253) counts on the order. The proof of `SlotOrder`
   failed on this: it takes two senders and two receivers, and `InOrder` is the
   condition under which it cannot happen.
4. **A child entered while its parent is cancelled is never cancelled**
   (`context_orphan`): `propagate_cancel` reads `err` and inserts the child without the
   parent's mutex (cancel.v:156-157).

Met while modelling; the properties of the passing runs are stated around them:

5. The first goroutine has the main goroutine's id: `goid_gen` starts at 0 and
   `fetch_add` returns the old value (scheduler.v:694); `main_g.id` is 0. `UniqueIds`,
   proved, says that this is the only clash.
6. `num_goroutine` counts reused goroutines several times (init.v:88): `newproc1`
   appends to `allgs` also on reuse (scheduler.v:77). A test records the first half
   ("reused goroutines appear there more than once", goroutines_test.c.v:290).
7. Channels of threads. A receive that does not wait, so a `select` too, can report a
   closed channel before the last values are taken (channels.c.v:625-632). A
   timed `select` on an unbuffered channel that runs out of time may overwrite
   the claim of a sender (channels.c.v:947-956). A sender that passed the check for a
   closed channel can spin on `adr_written` after the close (channels.c.v:350-357).
8. Contexts with a cause. Their cancel functions remove an id from the parent
   under which nothing was entered, so the parent keeps them (cause.v:57); a later
   cancel of the parent then replaces their own cause (cause.v:188). A deadline that
   finds its context alive may store its cause after a cancel has come in
   between (cause.v:94).
9. The pool can stop for good when `eviction_ch` is full: `try_get` and `put` push to
   it with `idle_pool_mutex` held (connection.v:337, 420), and its only reader
   takes that mutex in `prune_connections` (connection.v:559). `EvictionDeadlock`
   describes the state; TLC reaches it with channels of one and of three slots, and
   `CallsReturn` shows that no other state blocks a call. `get_timeout` ("Max time to
   wait for a connection", connection.v:29) does not help there.
10. A client of the pool can wait its whole time-out beside an idle connection: it
   enters the wait queue after its last look (connection.v:266-289), and a `put`
   in between wakes nobody. Maintenance wakes clients only for connections it made.
   A client whose time runs out just as it is notified drops the notification, and
   nobody else is woken for it (connection.v:291-308).
11. `get` and `put` panic if `close` closes `eviction_ch` under them, and `close` panics
   if it posts to a `get` that has timed out meanwhile (connection.v:457-461). The
   pool's README asks for `close` after the other threads have finished; the checks
   of `is_closed` inside `get` suggest more than that.
12. A readied goroutine may never run. `goready` always puts it in `runnext` (park.v:79),
   `runq_get` prefers that slot, the flag `inherit` it returns for it is thrown away
   (scheduler.v:178, 421), nothing preempts, and the tick check (scheduler.v:174) serves
   the global queue only. On one P two goroutines that ready each other in turn keep
   the rest of the local ring waiting for ever. Go's scheduler avoids it by letting the
   second one inherit the rest of the time slice.
13. `put` loads `active_count`, and subtracts from it in a second atomic operation
   (connection.v:377-380, with a "TODO: may need a atomic check here, compare_exchange?").
   Between clients this is harmless: `ActiveIsCounted`, proved, says that before
   `close` resets the count it is the number of checked-out connections, each of which is
   counted out by one client only. But `close` may store 0 (line 464) between the two,
   and the count is -1 from then on, which `stats` reports (line 734).

## 5. Proofs

For every set of goroutines, buffer size and number of calls:

- `ChanTypes`, `RingIsConsistent`, `WaitersAreServed`, `WakeupsAreKept`:
  the four invariants of `chan_buffered`. The inductive invariant `IInv`
  (`GoChan_proofs`) adds to them who holds the lock (`LockInv`: exactly a parking
  or closing goroutine, at a step boundary), that a goroutine is queued at most
  once, on the list of its call and on no list while it runs (`QueueInv`), how
  status and place of a goroutine agree (`StatusInv`), when the main goroutine's
  semaphore is posted (`MainInv`), and that after a close only the closer is at
  work on non-empty lists (`CloseInv`). `NoDroppedWakeup` alone is not inductive:
  that a queued goroutine is waiting follows from the lock being held until the park
  is complete, and that two direct senders never have the same receiver from
  a receiver being queued once. The proof has a lemma per kind of step
  (`WakeQuiet`, `WakeSendToReceiver`, `WakeParks`, `WakeSchedUnlock`, `WakeReadies`,
  `WakeResume`, ...), over lemmas about `Head`, `Tail` and `Append` of duplicate-free
  sequences.
- `Refinement`: `GoChan` implements `FifoChan`, the property
  `ImplementsFifo` of the runs. Every step is one step of the abstract channel or
  none: a transfer counts when the receiver is dequeued, so `SendDirect`, `SchedUnlock`, the
  wakeups and the return from a park change nothing abstract. Beyond `IInv` the
  mapping needs `WaiterInv`: a goroutine that closes has set `closed`, and whoever is
  queued has not been told of a success yet.

For every set of Ps and goroutines and every batch size:

- `IdsUnique`, `CachesStayDisjoint`, `LifecycleTypes`: the invariant is `TypeOK`, `CachesDisjoint` and
  `UniqueIds` together. Uniqueness rests on the caches: an id still in a cache
  is nobody's, and two caches do not overlap.
- `FreeListsHoldTheDead`: the free lists hold exactly the dead goroutines, once each.
  It is inductive with `TypeOK`, since `newproc1` and `gfput` change status and list
  together.

For every number of Ps and Ms, queue size, tick interval and set of goroutines
(`GoSched_proofs`): `SchedTypes`, `SpinnersCounted`, `WorkersHavePs`, `NoLostWakeup`,
`GoroutinesOnce`, `ProcessorsOnce`.

- The invariants of the run count (`Copies(g) = 1`, `Holders(p) = 1`), which says
  nothing of a step that moves a P through three hands. The inductive invariant `Shape`
  says instead where each thing is: what a thread inside `wake_p` holds and in
  which state the M is that it is about to start (`WakerInv`); where an M is, when it
  sleeps, and who is about to post it (`MachineInv`); that the idle list, the owners
  and the wakers do not share a P (`OwnerInv`); that an M about to park has
  emptied its queue (`WorkInv`); when the spinning flag is set (`SpinInv`); and the
  places of the goroutines (`QueueInv`, `StatusInv`, `StackInv`). The counts
  follow from it at the end, by cardinality of sets with at most one element.
- A shutdown breaks half of it: the broadcast wakes every M, and one that had been
  popped by a waker takes an idle P just before the waker wires another. `Resting`
  and `Unwired` say what is left then, which is enough for `GoroutinesOnce` to hold
  after a shutdown as well.
- `NoStrandedWork` is inductive on top of `Shape`. A waker that gives up has seen that an M
  spins or that no P is idle, and both mean that somebody is awake; an M that parks
  has looked at the global queue in the same critical section.

For every number of thieves, ring size, width and start of the counters
(`GoRunq_proofs`): `RunqTypes`, `RingNeverOverflows`, `NothingLost`, `OldestFirst`.

- The argument counts positions that do not wrap: `End` is the number of puts plus
  `Start`, and `At(c)` the position that a wrapped counter stands for. A
  counter that somebody has read was the head at some time (`Past`), so it is at most
  the head; if it is equal modulo `W` it is the head, because fewer than `W` goroutines
  were put. This is where the assumption `MaxPuts < W` is used: in the code a
  thief that sleeps for exactly 2^32 puts would take its old copy for a new one.
- `ThiefInv`: what a thief has copied is what the ring holds as long as its head is
  current, so a compare-and-swap that succeeds claims what was copied. The owner
  overwrites a slot only when the head has passed it, and then the copy is
  void. `OwnerInv` says the same of the owner's `get` and of its batch in `put_slow`.
- `OnceInv` and `PlaceInv` say that every goroutine is in one place, with sets instead of
  occurrences in sequences; `NothingLostOrDoubled` follows by counting.
- That the ring size divides `W` (256 and 2^32 in the code) makes the slot of a
  wrapped counter that of its position.

For every finite set of threads, every capacity and every program (`SyncChan_proofs`):
`ChannelTypes`, `TokensAreSpace` and `PartnersAreThere`; of programs whose receives
wait, `CloseDrains` (`OnlyWaits`); of programs with one sender, one receiver or at
most two slots, `SlotsInOrder` (`InOrder`). The invariant `IInv` has a part per
mechanism of the code:

- `TypeInv`: which calls can be where and what their locals are there (`PlaceAt`), when
  `closed` and the mark in `adr_written` can be set (`CloseInv`), and that a
  subscribed thread is in its select, once (`SubsInv`).
- `CountInv`: entries of the ring that are free, reserved, available and claimed add up
  to the capacity (`RingCount`); a free entry has a token of `writesem` or a thread
  that holds one (`WriteTokens`), an available value one of `readsem`
  (`ReadTokens`). `TokenMeansSpace` is not inductive: a close posts tokens
  for which there is no space, and what keeps them harmless is that whoever takes one
  sees `closed` at its second check. Since `RingCount` bounds the counters, the type
  invariant of the run needs it too. On a buffered channel `write_adr` is used only
  after the mark (`LateInv`).
- `HandInv`: on an open unbuffered channel there is one token for each side, so at most
  one address is out for each; it is in `read_adr`, in the hands of one thread, in
  `adr_read` or has been collected, and the semaphore of the hand-over has been posted
  exactly in the last two (`ReaderHand`, `WriterHand`). This is why the loop that posts a
  semaphore back which "was not for us" (channels.c.v:452) never runs before a close.
- `DrainInv`: the values of all sends that were told of success, and of those that are
  about to be, are claimed or available, and a receive that goes to sleep has seen
  that those sent before the close are claimed.
- `RingInv`: reservations are numbered, and the slot of number k is k - 1 modulo the
  capacity. With `InOrder` no two writers and no two readers wait for one slot
  (`WritersNear`, `ReadersNear`), a writer for the next lap waits until the reader of this
  one has left (`ReaderFirst`), and a slot is full exactly if its value is stored and not
  loaded (`SlotHolds`, `SlotFull`). That a ring of two needs no further
  condition is arithmetic: a reservation is at most one lap and one entry ahead. After
  a close a sender may hold a stale address; its owner sends nothing more
  (`StaleInv`), so no value that is about to be stored is overwritten.
- `LoadedInv`: a receive on its way out of the ring has the value of its number.

Every action has a lemma that says which of these places and counters it moves
(`CountStep`, `ReaderQuiet`, `RingQuiet`, `TicketStep`, ...), and each part of the
invariant is shown from those.

For every set of clients, number of connections, set of configurations and size of
the eviction channel (`ConnPool_proofs`): `PoolTypes`, `PoolIsConsistent`,
`PoolDoesNotLeak`, `ActiveIsCounted`.

- The invariant says who holds which mutex in which place (`LockInv`), what each
  process has in its hands there (`HandInv`, `StageInv`, `LoopInv`), that hands, idle
  list and map agree on the connections (`OwnInv`, `NewInv`, `KnownInv`), that no
  configuration anybody has read allows more than `limit` (`LimitInv`), that
  close waits for maintenance before it takes the pool apart (`OrderInv`),
  and which waiting calls may still be notified (`WaitInv`). `NoLeak` needs `OrderInv`: a
  connection that maintenance adds late is seen by `CloseAll` only because
  close has joined the thread.
- `ActiveIsCounted` compares a counter with the cardinality of a set of clients, so it needs
  the clients to be finitely many; a client that looks at the counter in `put` is itself
  in the set, so the counter is positive (`PutFindsCount`), and `TypeOK` claims no more
  than that it is an integer.
- A lemma (`Fits`) reduces a step that moves connections between a process, the
  idle list and the map to what it does to these three sets.

For every set of contexts, every tree of them and every mixture of their types
(`Context_proofs`): `ContextTypes`; and where the map of children is not raced,
`CancelReaches` and `CancelIsReleased`.

- `IInv` holds of every tree, also of one whose maps are raced: where the
  processes of a context can be (`PlaceInv`); that of the nested calls of a process
  only the innermost is at work, the others wait in their loops, each on the parent of
  the next, and the outermost is on the process's own context (`CallInv`); that the
  mutex of a context is held by exactly one call, between its first look at `err` and
  the end of its loop, and how far `done` is then (`LockInv`); and that a map holds
  children only (`ChildInv`).
- The two properties of `cancel` do not hold where two threads write one map at
  once: an entry may be lost. `Unraced` is the hypothesis: the children of a
  context are made and cancelled by one thread, and a context with siblings has no
  deadline of its own; a context may have any number of children. Every tree of
  the runs satisfies it, and TLC evaluates that.
- `RInv` then says that a process about to write a map has read what is still in
  it (`PendingInv`), that a context is in its parent's map until one of the two is
  cancelled (`EnrolledInv`), and of each nested call which of the children that were there at
  the start it has still to reach: they are cancelled, or in the map and not yet
  seen, or the call above it is at work on them (`ReachInv`). `CancelReleases`
  needs to know why a `cancel` that finds its context cancelled may return without
  removing it: for a context of `with_cancel` the parent is then cancelled too
  (`InheritInv`, `OutsetInv`).

The assumptions are those of the modules (`ChanAssumption`, `ZeroAssumption`,
`LifecycleAssumption`, `SchedAssumption`, `RunqAssumption`, `ConnPoolAssumption`,
`ContextAssumption`, `SyncChanAssumption`): nil is no goroutine, `background()` is no context that a program
makes, the main thread is no P, sizes are natural numbers, the zero value is not
sent, there are more Ms than Ps, the threads that share a channel and the clients of a pool are finitely many, and in a pool's configuration `min_idle_conns` is at
most `max_conns` (connection.v:651-655). TLC evaluates them in every run, and checked
each inductive invariant on the instances of the runs before it was proved.

## 6. Only model-checked

Every liveness property (`WaitersAreReadied`, `GlobalQueueServed`, `ShutdownEndsWorkers`, `CallsReturn`,
`CloseReleasesReaders` and the like): liveness under fairness is outside of what the
proof system does. Of `SyncChan` also `NobodyWaitsInVain` and `ExactlyOnce`. The first
speaks of states in which no thread can go on, and an invariant for it has to say of
every wake-up of every subscribed select who is about to pass it on. The second needs,
beside `IInv`, the place of every value at every step of a hand-over.

## 7. Plan

Done: `GoChan` and its abstract specification, `GoSched`, `GoRunq`, `GoLifecycle`,
`SyncChan` with `select`, `Context`, `ConnPool`. Left, in this order:

1. Proofs: `ExactlyOnce` and `NobodyWaitsInVain` of `SyncChan`.
2. The buffered half of `SyncChan` against `FifoChan`'s delivery, as a refinement.
3. `SyncCond` over channels, and on it barrier, latch and phaser; wait group,
   once, stamped lock: no lost wakeup, one leader per round, no thread in two
   rounds at once, no reader with a writer.
4. The ring buffer of `datatypes/lockfree`.

## 8. Not modelled

Context switches, thread-local storage and atomics are assumed to do what their
names say, and memory is sequentially consistent (the code uses
sequentially consistent atomics and locks for what threads share; the plain
accesses to `stopped`, `status` and `nmspinning` are single words). `set_max_procs`
stores a number that nothing reads after `init`; `schedule()` and `gfput_global`
have no callers. The compiler, its tools, the builtin types, network, database,
format, crypto and graphics libraries are sequential programs over unbounded data
or I/O, where model checking has little to say. Of `vlib/context`, `with_value` and the
comparison with the parent's deadline are left out; of `vlib/pool`, `stats`, which
only reads, and several threads that call `close` at once, which both pass its
first check (connection.v:430). The blocking primitives of `vlib/sync` other than
channels, and `vlib/datatypes/lockfree`, follow in the order of the plan.

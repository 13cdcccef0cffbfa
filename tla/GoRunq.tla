------------------------------- MODULE GoRunq -------------------------------
(***************************************************************************)
(* The lock-free local run queue of a P (vlib/goroutines/scheduler.v,      *)
(* runq_put, runq_put_slow, runq_get and runq_steal), one atomic           *)
(* instruction per step.  The M that owns the P puts and gets; the Ms of   *)
(* the other Ps steal.  Head and tail are u32 counters that wrap; a slot   *)
(* is counter % local_queue_size.                                          *)
(*                                                                         *)
(* A goroutine that was taken from the queue runs and may be put again:    *)
(* `out` counts, for each one, the threads it was handed to.  What a thief *)
(* does with its batch (runq_put into the ring of its own P) is not in     *)
(* this queue.                                                             *)
(***************************************************************************)
EXTENDS Integers, Sequences, FiniteSets

CONSTANTS Goroutine, NoG,
          Thief,             \* threads that steal
          local_queue_size,
          W,                 \* the counters are numbers modulo W (2^32 in the code)
          Start,             \* where the counters start
          MaxPuts            \* bound: puts into the ring; below W, a stale head is never current again

ASSUME RunqAssumption ==
  /\ NoG \notin Goroutine
  /\ local_queue_size \in Nat \ {0}
  /\ W \in Nat /\ W > local_queue_size
  /\ W % local_queue_size = 0
  /\ Start \in 0..(W - 1)
  /\ MaxPuts \in 0..(W - 1)

VARIABLES runq_head, runq_tail, runq, runnext,
          glob,        \* gsched.runq
          out,         \* out[g]: threads that were given g and have not put it back
          puts,        \* puts made, bounded by MaxPuts
          pc, gp, batch, h,   \* the owner: what it puts, what it copied, the head it read
          tpc, th, tt, tnext, tbatch \* the thieves: head, tail, runnext they read, what they copied

ringVars == <<runq_head, runq_tail, runq, runnext>>
ownerVars == <<pc, gp, batch, h, puts>>
thiefVars == <<tpc, th, tt, tnext, tbatch>>
vars == <<ringVars, glob, out, ownerVars, thiefVars>>

(* Mutant: a counter that does not wrap. *)
Plus_unbounded(a, k) == a + k

Plus(a, k) == (a + k) % W
Minus(a, b) == (a - b) % W
Slot(c) == c % local_queue_size

TypeOK ==
  /\ runq_head \in 0..(W - 1)
  /\ runq_tail \in 0..(W - 1)
  /\ runq \in [0..(local_queue_size - 1) -> Goroutine \cup {NoG}]
  /\ runnext \in Goroutine \cup {NoG}
  /\ glob \in Seq(Goroutine)
  /\ out \in [Goroutine -> Nat]
  /\ puts \in 0..MaxPuts
  /\ pc \in {"idle", "put", "put_store", "put_publish", "slow", "slow_copy", "slow_global",
             "get_next", "get", "get_copy", "get_cas"}
  /\ gp \in Goroutine \cup {NoG}
  /\ batch \in Seq(Goroutine)
  /\ h \in 0..(W - 1)
  /\ tpc \in [Thief -> {"idle", "tail", "next", "next_take", "copy"}]
  /\ th \in [Thief -> 0..(W - 1)]
  /\ tt \in [Thief -> 0..(W - 1)]
  /\ tnext \in [Thief -> Goroutine \cup {NoG}]
  /\ tbatch \in [Thief -> Seq(Goroutine)]

Init ==
  /\ runq_head = Start
  /\ runq_tail = Start
  /\ runq = [i \in 0..(local_queue_size - 1) |-> NoG]
  /\ runnext = NoG
  /\ glob = <<>>
  /\ out = [g \in Goroutine |-> 1]
  /\ puts = 0
  /\ pc = "idle"
  /\ gp = NoG
  /\ batch = <<>>
  /\ h = 0
  /\ tpc = [t \in Thief |-> "idle"]
  /\ th = [t \in Thief |-> 0]
  /\ tt = [t \in Thief |-> 0]
  /\ tnext = [t \in Thief |-> NoG]
  /\ tbatch = [t \in Thief |-> <<>>]

Occurrences(g, s) == Cardinality({i \in 1..Len(s) : s[i] = g})

HandOut(s) == out' = [g \in Goroutine |-> out[g] + Occurrences(g, s)]

-----------------------------------------------------------------------------
(* The owner: runq_put.  Puts into the ring are bounded by MaxPuts. *)

runq_put(g) ==
  /\ pc = "idle"
  /\ puts < MaxPuts
  /\ out[g] > 0
  /\ out' = [out EXCEPT ![g] = @ - 1]
  /\ gp' = g
  /\ pc' = "put"
  /\ UNCHANGED <<ringVars, glob, batch, h, puts, thiefVars>>

(* next = true: exchange runnext; the goroutine found there goes to the ring. *)
runq_put_next(g) ==
  /\ pc = "idle"
  /\ puts < MaxPuts
  /\ out[g] > 0
  /\ out' = [out EXCEPT ![g] = @ - 1]
  /\ runnext' = g
  /\ gp' = runnext
  /\ pc' = IF runnext = NoG THEN "idle" ELSE "put"
  /\ UNCHANGED <<runq_head, runq_tail, runq, glob, batch, h, puts, thiefVars>>

(* Mutant: a full ring takes one more. *)
PutLoad_offByOne ==
  /\ pc = "put"
  /\ pc' = IF Minus(runq_tail, runq_head) <= local_queue_size THEN "put_store" ELSE "slow"
  /\ UNCHANGED <<ringVars, glob, out, gp, batch, h, puts, thiefVars>>

PutLoad ==
  /\ pc = "put"
  /\ pc' = IF Minus(runq_tail, runq_head) < local_queue_size THEN "put_store" ELSE "slow"
  /\ UNCHANGED <<ringVars, glob, out, gp, batch, h, puts, thiefVars>>

(* Mutant: the slot is chosen by the head. *)
PutStore_wrongSlot ==
  /\ pc = "put_store"
  /\ runq' = [runq EXCEPT ![Slot(runq_head)] = gp]
  /\ pc' = "put_publish"
  /\ UNCHANGED <<runq_head, runq_tail, runnext, glob, out, gp, batch, h, puts, thiefVars>>

PutStore ==
  /\ pc = "put_store"
  /\ runq' = [runq EXCEPT ![Slot(runq_tail)] = gp]
  /\ pc' = "put_publish"
  /\ UNCHANGED <<runq_head, runq_tail, runnext, glob, out, gp, batch, h, puts, thiefVars>>

PutPublish ==
  /\ pc = "put_publish"
  /\ runq_tail' = Plus(runq_tail, 1)
  /\ puts' = puts + 1
  /\ gp' = NoG
  /\ pc' = "idle"
  /\ UNCHANGED <<runq_head, runq, runnext, glob, out, batch, h, thiefVars>>

-----------------------------------------------------------------------------
(* The owner: runq_put_slow.  The tail is the owner's, so it is read as it is. *)

SlowCount(head) == Minus(runq_tail, head) \div 2

SlowLoad ==
  /\ pc = "slow"
  /\ h' = runq_head
  /\ batch' = <<>>
  /\ pc' = IF SlowCount(runq_head) = 0 THEN "slow_global" ELSE "slow_copy"
  /\ UNCHANGED <<ringVars, glob, out, gp, puts, thiefVars>>

SlowCopy ==
  /\ pc = "slow_copy"
  /\ Len(batch) < SlowCount(h)
  /\ batch' = Append(batch, runq[Slot(Plus(h, Len(batch)))])
  /\ UNCHANGED <<ringVars, glob, out, pc, gp, h, puts, thiefVars>>

SlowClaim ==
  /\ pc = "slow_copy"
  /\ Len(batch) = SlowCount(h)
  /\ IF runq_head = h
     THEN runq_head' = Plus(h, SlowCount(h)) /\ pc' = "slow_global"
     ELSE runq_head' = runq_head /\ pc' = "slow"
  /\ UNCHANGED <<runq_tail, runq, runnext, glob, out, gp, batch, h, puts, thiefVars>>

SlowGlobal ==
  /\ pc = "slow_global"
  /\ glob' = glob \o batch \o <<gp>>
  /\ gp' = NoG
  /\ batch' = <<>>
  /\ h' = 0
  /\ pc' = "idle"
  /\ UNCHANGED <<ringVars, out, puts, thiefVars>>

(* Any M takes a goroutine from the global queue, under gsched.mu. *)
glob_runq_get ==
  /\ glob # <<>>
  /\ glob' = Tail(glob)
  /\ HandOut(<<Head(glob)>>)
  /\ UNCHANGED <<ringVars, ownerVars, thiefVars>>

-----------------------------------------------------------------------------
(* The owner: runq_get *)

GetNext ==
  /\ pc = "idle"
  /\ gp' = runnext
  /\ pc' = IF runnext = NoG THEN "get" ELSE "get_next"
  /\ UNCHANGED <<ringVars, glob, out, batch, h, puts, thiefVars>>

GetNextTake ==
  /\ pc = "get_next"
  /\ gp' = NoG
  /\ IF runnext = gp
     THEN runnext' = NoG /\ HandOut(<<gp>>) /\ pc' = "idle"
     ELSE UNCHANGED <<runnext, out>> /\ pc' = "get"
  /\ UNCHANGED <<runq_head, runq_tail, runq, glob, batch, h, puts, thiefVars>>

GetLoad ==
  /\ pc = "get"
  /\ IF runq_tail = runq_head
     THEN pc' = "idle" /\ h' = 0
     ELSE pc' = "get_copy" /\ h' = runq_head
  /\ UNCHANGED <<ringVars, glob, out, gp, batch, puts, thiefVars>>

GetCopy ==
  /\ pc = "get_copy"
  /\ gp' = runq[Slot(h)]
  /\ pc' = "get_cas"
  /\ UNCHANGED <<ringVars, glob, out, batch, h, puts, thiefVars>>

GetClaim ==
  /\ pc = "get_cas"
  /\ IF runq_head = h
     THEN runq_head' = Plus(h, 1) /\ HandOut(<<gp>>) /\ pc' = "idle"
     ELSE UNCHANGED <<runq_head, out>> /\ pc' = "get"
  /\ gp' = NoG
  /\ h' = 0
  /\ UNCHANGED <<runq_tail, runq, runnext, glob, batch, puts, thiefVars>>

-----------------------------------------------------------------------------
(* A thief: runq_steal *)

StealHead(t) ==
  /\ tpc[t] = "idle"
  /\ th' = [th EXCEPT ![t] = runq_head]
  /\ tpc' = [tpc EXCEPT ![t] = "tail"]
  /\ UNCHANGED <<ringVars, glob, out, ownerVars, tt, tnext, tbatch>>

(* Head and tail were not read together: their difference may exceed the size. *)
StealTail(t) ==
  /\ tpc[t] = "tail"
  /\ tt' = [tt EXCEPT ![t] = runq_tail]
  /\ LET n == Minus(runq_tail, th[t]) IN
     tpc' = [tpc EXCEPT ![t] = IF n = 0 THEN "next"
                               ELSE IF n > local_queue_size THEN "idle" ELSE "copy"]
  /\ UNCHANGED <<ringVars, glob, out, ownerVars, th, tnext, tbatch>>

StealCount(t) == Minus(tt[t], th[t]) - Minus(tt[t], th[t]) \div 2

StealCopy(t) ==
  /\ tpc[t] = "copy"
  /\ Len(tbatch[t]) < StealCount(t)
  /\ tbatch' = [tbatch EXCEPT ![t] = Append(@, runq[Slot(Plus(th[t], Len(@)))])]
  /\ UNCHANGED <<ringVars, glob, out, ownerVars, tpc, th, tt, tnext>>

(* Mutant: the head is stored, not compared and swapped. *)
StealClaim_noCas(t) ==
  /\ tpc[t] = "copy"
  /\ Len(tbatch[t]) = StealCount(t)
  /\ runq_head' = Plus(th[t], StealCount(t))
  /\ HandOut(tbatch[t])
  /\ tbatch' = [tbatch EXCEPT ![t] = <<>>]
  /\ tpc' = [tpc EXCEPT ![t] = "idle"]
  /\ UNCHANGED <<runq_tail, runq, runnext, glob, ownerVars, th, tt, tnext>>

StealClaim(t) ==
  /\ tpc[t] = "copy"
  /\ Len(tbatch[t]) = StealCount(t)
  /\ IF runq_head = th[t]
     THEN runq_head' = Plus(th[t], StealCount(t)) /\ HandOut(tbatch[t])
     ELSE UNCHANGED <<runq_head, out>>
  /\ tbatch' = [tbatch EXCEPT ![t] = <<>>]
  /\ tpc' = [tpc EXCEPT ![t] = "idle"]
  /\ UNCHANGED <<runq_tail, runq, runnext, glob, ownerVars, th, tt, tnext>>

StealNext(t) ==
  /\ tpc[t] = "next"
  /\ tnext' = [tnext EXCEPT ![t] = runnext]
  /\ tpc' = [tpc EXCEPT ![t] = IF runnext = NoG THEN "idle" ELSE "next_take"]
  /\ UNCHANGED <<ringVars, glob, out, ownerVars, th, tt, tbatch>>

StealNextTake(t) ==
  /\ tpc[t] = "next_take"
  /\ IF runnext = tnext[t]
     THEN runnext' = NoG /\ HandOut(<<tnext[t]>>)
     ELSE UNCHANGED <<runnext, out>>
  /\ tnext' = [tnext EXCEPT ![t] = NoG]
  /\ tpc' = [tpc EXCEPT ![t] = "idle"]
  /\ UNCHANGED <<runq_head, runq_tail, runq, glob, ownerVars, th, tt, tbatch>>

-----------------------------------------------------------------------------
OwnerStep ==
  \/ \E g \in Goroutine : runq_put(g) \/ runq_put_next(g)
  \/ PutLoad \/ PutStore \/ PutPublish
  \/ SlowLoad \/ SlowCopy \/ SlowClaim \/ SlowGlobal
  \/ GetNext \/ GetNextTake \/ GetLoad \/ GetCopy \/ GetClaim

runq_steal(t) ==
  \/ StealHead(t) \/ StealTail(t) \/ StealCopy(t) \/ StealClaim(t)
  \/ StealNext(t) \/ StealNextTake(t)

Next == OwnerStep \/ glob_runq_get \/ \E t \in Thief : runq_steal(t)

Spec == Init /\ [][Next]_vars

-----------------------------------------------------------------------------
(* Properties *)

(* The goroutines in the ring, oldest first. *)
Window == [i \in 1..Minus(runq_tail, runq_head) |-> runq[Slot(Plus(runq_head, i - 1))]]

(* Holds the goroutine that is on its way from one place to the next. *)
InHand == (IF pc \in {"put", "put_store", "put_publish", "slow", "slow_copy", "slow_global"}
           THEN <<gp>> ELSE <<>>)
          \o (IF pc = "slow_global" THEN batch ELSE <<>>)

(* Every goroutine is in exactly one place at any time - handed to one      *)
(* thread, in the ring, in runnext, in the global queue, or in the owner's  *)
(* hand between two of them - although slots are copied before they are     *)
(* claimed and are reused at once ("Snapshot before claiming",              *)
(* scheduler.v:505, 619).                                                   *)
NothingLostOrDoubled ==
  \A g \in Goroutine :
    out[g] + Occurrences(g, Window) + Occurrences(g, <<runnext>>)
           + Occurrences(g, glob) + Occurrences(g, InHand) = 1

(* "The local queue never holds more than local_queue_size entries"         *)
(* (scheduler.v:568), also while the counters wrap: the panic "runq desync  *)
(* in put_slow" cannot happen.                                              *)
NoDesync == Minus(runq_tail, runq_head) <= local_queue_size

(* Only what is oldest leaves the ring, and it leaves to be handed out or   *)
(* moved to the global queue: no step changes what is left behind.          *)
OldestLeavesFirst ==
  [][ \/ Window' = Append(Window, gp)
      \/ \E n \in 0..Len(Window) :
           /\ Window' = SubSeq(Window, n + 1, Len(Window))
           /\ n > 0 => \/ SlowClaim /\ batch = SubSeq(Window, 1, n)
                       \/ \A g \in Goroutine :
                            out'[g] - out[g] = Occurrences(g, SubSeq(Window, 1, n)) ]_vars
=============================================================================

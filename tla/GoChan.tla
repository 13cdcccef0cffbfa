------------------------------- MODULE GoChan -------------------------------
(***************************************************************************)
(* The goroutine channel of vlib/goroutines/chan.v with the parking        *)
(* handshake of park.v: a channel operation runs under the spin lock mu;   *)
(* an operation that blocks enqueues its Sudog and keeps mu until the      *)
(* scheduler has saved the goroutine's context (gopark_unlock, execute),   *)
(* and a direct send copies and readies the receiver after releasing mu.   *)
(*                                                                         *)
(* One step is one critical section of mu, except that a close keeps mu    *)
(* over one step per goroutine it readies (the readied ones run meanwhile) *)
(* and a parking goroutine keeps it up to SchedUnlock.  A Sudog is named   *)
(* by its goroutine, which has at most one: src[g] and dst[g] are the      *)
(* variables of g that its ep arguments point to, success[g] is the        *)
(* Sudog's success flag or, for a call that does not block, its result.    *)
(* The channel is not nil, and every caller is a goroutine.  A panic ends  *)
(* the process; here the others may still run, as its other threads do     *)
(* until then.                                                             *)
(***************************************************************************)
EXTENDS Naturals, Sequences

CONSTANTS Goroutine,  \* the goroutines that use the channel
          main_g,     \* the main goroutine (it blocks on a semaphore); NoG if it takes no part
          NoG,        \* the nil goroutine pointer
          Zero,       \* the zero value written by memset
          dataqsiz,   \* size of the circular buffer, 0 for an unbuffered channel
          MaxCalls    \* bound: channel calls per goroutine

ASSUME ChanAssumption ==
  /\ dataqsiz \in Nat
  /\ MaxCalls \in Nat
  /\ NoG \notin Goroutine
  /\ main_g \in Goroutine \cup {NoG}

(* The k-th call of g sends <<g, k>>, so that no two sent values are equal. *)
Value == Goroutine \X (1..MaxCalls)

ASSUME ZeroAssumption == Zero \notin Value

VARIABLES mu,         \* holder of Chan.mu, NoG when free
          qcount, buf, sendx, recvx, closed,
          recvq,      \* receivers whose Sudog is queued, first to last
          sendq,      \* senders whose Sudog is queued, first to last
          status,     \* Goroutine.status
          main_park,  \* count of the semaphore gsched.main_park
          pc,         \* where the goroutine is in the channel code
          peer,       \* peer[g]: the receiver a direct send of g has dequeued
          src, dst, success,
          calls       \* calls made, bounded by MaxCalls

chanVars == <<mu, qcount, buf, sendx, recvx, closed, recvq, sendq>>
goVars == <<status, main_park>>
callVars == <<pc, peer, src, dst, success, calls>>
vars == <<chanVars, goVars, callVars>>

Waits == {"wait_send", "wait_recv"}
Parks == {"park_send", "park_recv"}

Slots == 0..(dataqsiz - 1)

TypeOK ==
  /\ mu \in Goroutine \cup {NoG}
  /\ qcount \in 0..dataqsiz
  /\ buf \in [Slots -> Value \cup {Zero}]
  /\ sendx \in Nat
  /\ recvx \in Nat
  /\ closed \in BOOLEAN
  /\ recvq \in Seq(Goroutine)
  /\ sendq \in Seq(Goroutine)
  /\ status \in [Goroutine -> {"running", "waiting", "runnable"}]
  /\ main_park \in Nat
  /\ pc \in [Goroutine -> Waits \cup Parks \cup {"out", "send_direct", "closing", "panicked"}]
  /\ peer \in [Goroutine -> Goroutine \cup {NoG}]
  /\ src \in [Goroutine -> Value \cup {Zero}]
  /\ dst \in [Goroutine -> Value \cup {Zero}]
  /\ success \in [Goroutine -> BOOLEAN]
  /\ calls \in [Goroutine -> 0..MaxCalls]

(* chan_make *)
Init ==
  /\ mu = NoG
  /\ qcount = 0
  /\ buf = [i \in Slots |-> Zero]
  /\ sendx = 0
  /\ recvx = 0
  /\ closed = FALSE
  /\ recvq = <<>>
  /\ sendq = <<>>
  /\ status = [g \in Goroutine |-> "running"]
  /\ main_park = 0
  /\ pc = [g \in Goroutine |-> "out"]
  /\ peer = [g \in Goroutine |-> NoG]
  /\ src = [g \in Goroutine |-> Zero]
  /\ dst = [g \in Goroutine |-> Zero]
  /\ success = [g \in Goroutine |-> FALSE]
  /\ calls = [g \in Goroutine |-> 0]

-----------------------------------------------------------------------------
(* A ring index after one step: it restarts at 0 when it reaches dataqsiz. *)
NextIndex(x) == IF x + 1 = dataqsiz THEN 0 ELSE x + 1

(* goready(gp): posts the semaphore for the main goroutine; any other       *)
(* goroutine becomes runnable, but only if its status is waiting.           *)
goready(gp) ==
  IF gp = main_g
  THEN /\ main_park' = main_park + 1
       /\ status' = status
  ELSE /\ main_park' = main_park
       /\ status' = IF status[gp] = "waiting"
                    THEN [status EXCEPT ![gp] = "runnable"]
                    ELSE status

(* A goroutine that runs enters a channel operation and acquires mu. *)
Enter(g) ==
  /\ pc[g] = "out"
  /\ status[g] = "running"
  /\ mu = NoG
  /\ calls[g] < MaxCalls
  /\ calls' = [calls EXCEPT ![g] = @ + 1]

NewValue(g) == <<g, calls[g] + 1>>

-----------------------------------------------------------------------------
(* chan_send, in the order of its checks *)

SendOnClosed(g) ==
  /\ Enter(g)
  /\ closed
  /\ pc' = [pc EXCEPT ![g] = "panicked"]
  /\ success' = [success EXCEPT ![g] = FALSE]
  /\ UNCHANGED <<chanVars, goVars, peer, src, dst>>

SendToReceiver(g) ==
  /\ Enter(g)
  /\ ~closed
  /\ recvq # <<>>
  /\ recvq' = Tail(recvq)
  /\ peer' = [peer EXCEPT ![g] = Head(recvq)]
  /\ src' = [src EXCEPT ![g] = NewValue(g)]
  /\ success' = [success EXCEPT ![g] = TRUE]
  /\ pc' = [pc EXCEPT ![g] = "send_direct"]
  /\ UNCHANGED <<mu, qcount, buf, sendx, recvx, closed, sendq, goVars, dst>>

(* Mutant: one value too many is accepted. *)
SendBuffered_offByOne(g) ==
  /\ Enter(g)
  /\ ~closed
  /\ recvq = <<>>
  /\ qcount <= dataqsiz
  /\ buf' = [buf EXCEPT ![sendx] = NewValue(g)]
  /\ sendx' = NextIndex(sendx)
  /\ qcount' = qcount + 1
  /\ success' = [success EXCEPT ![g] = TRUE]
  /\ UNCHANGED <<mu, recvx, closed, recvq, sendq, goVars, pc, peer, src, dst>>

SendBuffered(g) ==
  /\ Enter(g)
  /\ ~closed
  /\ recvq = <<>>
  /\ qcount < dataqsiz
  /\ buf' = [buf EXCEPT ![sendx] = NewValue(g)]
  /\ sendx' = NextIndex(sendx)
  /\ qcount' = qcount + 1
  /\ success' = [success EXCEPT ![g] = TRUE]
  /\ UNCHANGED <<mu, recvx, closed, recvq, sendq, goVars, pc, peer, src, dst>>

SendFull(g) ==
  /\ Enter(g)
  /\ ~closed
  /\ recvq = <<>>
  /\ qcount = dataqsiz
  /\ success' = [success EXCEPT ![g] = FALSE]

SendGivesUp(g) ==
  /\ SendFull(g)
  /\ UNCHANGED <<chanVars, goVars, pc, peer, src, dst>>

(* Mutant: mu is released before the context is saved. *)
SendParks_unlocksEarly(g) ==
  /\ SendFull(g)
  /\ sendq' = Append(sendq, g)
  /\ src' = [src EXCEPT ![g] = NewValue(g)]
  /\ mu' = NoG
  /\ pc' = [pc EXCEPT ![g] = "park_send"]
  /\ UNCHANGED <<qcount, buf, sendx, recvx, closed, recvq, goVars, peer, dst>>

SendParks(g) ==
  /\ SendFull(g)
  /\ sendq' = Append(sendq, g)
  /\ src' = [src EXCEPT ![g] = NewValue(g)]
  /\ mu' = g
  /\ pc' = [pc EXCEPT ![g] = "park_send"]
  /\ UNCHANGED <<qcount, buf, sendx, recvx, closed, recvq, goVars, peer, dst>>

(* send_direct, after mu was released: copy to the receiver and ready it. *)
SendDirect(g) ==
  /\ pc[g] = "send_direct"
  /\ dst' = [dst EXCEPT ![peer[g]] = src[g]]
  /\ success' = [success EXCEPT ![peer[g]] = TRUE]
  /\ goready(peer[g])
  /\ peer' = [peer EXCEPT ![g] = NoG]
  /\ pc' = [pc EXCEPT ![g] = "out"]
  /\ UNCHANGED <<chanVars, src, calls>>

-----------------------------------------------------------------------------
(* chan_recv, in the order of its checks *)

(* Mutant: the sender's success flag is forgotten, and sendx keeps its value. *)
RecvFromSender_incomplete(g) ==
  /\ Enter(g)
  /\ sendq # <<>>
  /\ LET sg == Head(sendq) IN
     /\ sendq' = Tail(sendq)
     /\ IF dataqsiz = 0
        THEN /\ dst' = [dst EXCEPT ![g] = src[sg]]
             /\ UNCHANGED <<buf, recvx>>
        ELSE /\ dst' = [dst EXCEPT ![g] = buf[recvx]]
             /\ buf' = [buf EXCEPT ![recvx] = src[sg]]
             /\ recvx' = NextIndex(recvx)
     /\ success' = [success EXCEPT ![g] = TRUE]
     /\ goready(sg)
  /\ UNCHANGED <<mu, qcount, sendx, closed, recvq, pc, peer, src>>

(* Mutant: a buffered channel, too, hands over the sender's own value. *)
RecvFromSender_overtakes(g) ==
  /\ Enter(g)
  /\ sendq # <<>>
  /\ LET sg == Head(sendq) IN
     /\ sendq' = Tail(sendq)
     /\ dst' = [dst EXCEPT ![g] = src[sg]]
     /\ success' = [success EXCEPT ![g] = TRUE, ![sg] = TRUE]
     /\ goready(sg)
  /\ UNCHANGED <<mu, qcount, buf, sendx, recvx, closed, recvq, pc, peer, src>>

(* recv_direct on an unbuffered channel: the value comes from the sender;   *)
(* on a buffered one from the ring, and the sender's value takes its slot.  *)
RecvFromSender(g) ==
  /\ Enter(g)
  /\ sendq # <<>>
  /\ LET sg == Head(sendq) IN
     /\ sendq' = Tail(sendq)
     /\ IF dataqsiz = 0
        THEN /\ dst' = [dst EXCEPT ![g] = src[sg]]
             /\ UNCHANGED <<buf, sendx, recvx>>
        ELSE /\ dst' = [dst EXCEPT ![g] = buf[recvx]]
             /\ buf' = [buf EXCEPT ![recvx] = src[sg]]
             /\ recvx' = NextIndex(recvx)
             /\ sendx' = recvx'
     /\ success' = [success EXCEPT ![g] = TRUE, ![sg] = TRUE]
     /\ goready(sg)
  /\ UNCHANGED <<mu, qcount, closed, recvq, pc, peer, src>>

RecvBuffered(g) ==
  /\ Enter(g)
  /\ sendq = <<>>
  /\ qcount > 0
  /\ dst' = [dst EXCEPT ![g] = buf[recvx]]
  /\ recvx' = NextIndex(recvx)
  /\ qcount' = qcount - 1
  /\ success' = [success EXCEPT ![g] = TRUE]
  /\ UNCHANGED <<mu, buf, sendx, closed, recvq, sendq, goVars, pc, peer, src>>

RecvEmpty(g) ==
  /\ Enter(g)
  /\ sendq = <<>>
  /\ qcount = 0
  /\ success' = [success EXCEPT ![g] = FALSE]

RecvOnClosed(g) ==
  /\ RecvEmpty(g)
  /\ closed
  /\ dst' = [dst EXCEPT ![g] = Zero]
  /\ UNCHANGED <<chanVars, goVars, pc, peer, src>>

RecvGivesUp(g) ==
  /\ RecvEmpty(g)
  /\ ~closed
  /\ UNCHANGED <<chanVars, goVars, pc, peer, src, dst>>

RecvParks(g) ==
  /\ RecvEmpty(g)
  /\ ~closed
  /\ recvq' = Append(recvq, g)
  /\ mu' = g
  /\ pc' = [pc EXCEPT ![g] = "park_recv"]
  /\ UNCHANGED <<qcount, buf, sendx, recvx, closed, sendq, goVars, peer, src, dst>>

-----------------------------------------------------------------------------
(* chan_close *)

CloseOnClosed(g) ==
  /\ Enter(g)
  /\ closed
  /\ pc' = [pc EXCEPT ![g] = "panicked"]
  /\ UNCHANGED <<chanVars, goVars, peer, src, dst, success>>

CloseBegins(g) ==
  /\ Enter(g)
  /\ ~closed
  /\ closed' = TRUE
  /\ mu' = g
  /\ pc' = [pc EXCEPT ![g] = "closing"]
  /\ UNCHANGED <<qcount, buf, sendx, recvx, recvq, sendq, goVars, peer, src, dst, success>>

CloseReadiesReceiver(g) ==
  /\ pc[g] = "closing"
  /\ recvq # <<>>
  /\ recvq' = Tail(recvq)
  /\ dst' = [dst EXCEPT ![Head(recvq)] = Zero]
  /\ success' = [success EXCEPT ![Head(recvq)] = FALSE]
  /\ goready(Head(recvq))
  /\ UNCHANGED <<mu, qcount, buf, sendx, recvx, closed, sendq, pc, peer, src, calls>>

CloseReadiesSender(g) ==
  /\ pc[g] = "closing"
  /\ recvq = <<>>
  /\ sendq # <<>>
  /\ sendq' = Tail(sendq)
  /\ success' = [success EXCEPT ![Head(sendq)] = FALSE]
  /\ goready(Head(sendq))
  /\ UNCHANGED <<mu, qcount, buf, sendx, recvx, closed, recvq, pc, peer, src, dst, calls>>

(* Mutant: only the receivers are woken. *)
CloseEnds_leavesSenders(g) ==
  /\ pc[g] = "closing"
  /\ recvq = <<>>
  /\ mu' = NoG
  /\ pc' = [pc EXCEPT ![g] = "out"]
  /\ UNCHANGED <<qcount, buf, sendx, recvx, closed, recvq, sendq, goVars, peer, src, dst,
                 success, calls>>

CloseEnds(g) ==
  /\ pc[g] = "closing"
  /\ recvq = <<>>
  /\ sendq = <<>>
  /\ mu' = NoG
  /\ pc' = [pc EXCEPT ![g] = "out"]
  /\ UNCHANGED <<qcount, buf, sendx, recvx, closed, recvq, sendq, goVars, peer, src, dst,
                 success, calls>>

-----------------------------------------------------------------------------
(* Parking and resuming *)

(* The context is saved; the goroutine is waiting; only now mu is released. *)
SchedUnlock(g) ==
  /\ pc[g] \in Parks
  /\ status' = [status EXCEPT ![g] = "waiting"]
  /\ mu' = NoG
  /\ pc' = [pc EXCEPT ![g] = IF @ = "park_send" THEN "wait_send" ELSE "wait_recv"]
  /\ UNCHANGED <<qcount, buf, sendx, recvx, closed, recvq, sendq, main_park,
                 peer, src, dst, success, calls>>

(* A readied goroutine continues after its gopark_unlock: a sender that was *)
(* not served panics, every other call returns.                             *)
Resume(g) ==
  /\ pc[g] \in Waits
  /\ IF g = main_g
     THEN main_park > 0 /\ main_park' = main_park - 1
     ELSE status[g] = "runnable" /\ main_park' = main_park
  /\ status' = [status EXCEPT ![g] = "running"]
  /\ pc' = [pc EXCEPT ![g] = IF @ = "wait_send" /\ ~success[g] THEN "panicked" ELSE "out"]
  /\ UNCHANGED <<chanVars, peer, src, dst, success, calls>>

-----------------------------------------------------------------------------
chan_send(g) ==
  SendOnClosed(g) \/ SendToReceiver(g) \/ SendBuffered(g) \/ SendGivesUp(g) \/ SendParks(g)

chan_recv(g) ==
  RecvFromSender(g) \/ RecvBuffered(g) \/ RecvOnClosed(g) \/ RecvGivesUp(g) \/ RecvParks(g)

chan_close(g) == CloseOnClosed(g) \/ CloseBegins(g)

(* What the thread that runs g does next without waiting for anybody: it    *)
(* holds the lock, has dequeued a receiver, or is saving the context of g.  *)
OwnStep(g) ==
  \/ SendDirect(g)
  \/ CloseReadiesReceiver(g) \/ CloseReadiesSender(g) \/ CloseEnds(g)
  \/ SchedUnlock(g)

Continue(g) == OwnStep(g) \/ Resume(g)

Next == \E g \in Goroutine : chan_send(g) \/ chan_recv(g) \/ chan_close(g) \/ Continue(g)

Spec == Init /\ [][Next]_vars

(* A thread of the operating system takes its next step, and the main       *)
(* goroutine, whose thread blocks on main_park, returns from a posted       *)
(* semaphore.  The code does not promise that any other readied goroutine   *)
(* runs: goready puts it in runnext (park.v:79), runq_get prefers that slot *)
(* every time, and the tick check (scheduler.v:174) serves only the global  *)
(* queue, so two goroutines that ready each other can keep the local ring   *)
(* waiting for ever.  Nobody is bound to make another channel call.         *)
Fairness ==
  /\ \A g \in Goroutine : WF_vars(OwnStep(g))
  /\ \A g \in Goroutine \cap {main_g} : WF_vars(Resume(g))

FairSpec == Spec /\ Fairness

-----------------------------------------------------------------------------
(* Properties *)

Queued(g, s) == \E i \in 1..Len(s) : s[i] = g

(* The ring slot that holds the i-th value of the buffer, oldest first. *)
SlotOf(i) == IF recvx + i - 1 < dataqsiz THEN recvx + i - 1 ELSE recvx + i - 1 - dataqsiz

Contents == [i \in 1..qcount |-> buf[SlotOf(i)]]

(* The ring indices agree with the count: sendx is qcount slots after       *)
(* recvx, also after recv_direct's `ch.sendx = ch.recvx` (chan.v:261).      *)
RingConsistent ==
  dataqsiz > 0 => /\ sendx \in Slots
                  /\ recvx \in Slots
                  /\ sendx \in {recvx + qcount, recvx + qcount - dataqsiz}

(* The fast paths of chan_send and chan_recv are tried in an order that is  *)
(* right only because nobody waits while he could be served: senders wait   *)
(* only at a full buffer, receivers only at an empty one, never both, and   *)
(* once the lock of a close is released nobody is left behind.              *)
NobodyWaitsInVain ==
  /\ sendq # <<>> => qcount = dataqsiz /\ recvq = <<>>
  /\ recvq # <<>> => qcount = 0
  /\ closed /\ mu = NoG => sendq = <<>> /\ recvq = <<>>

(* goready returns silently when the goroutine is not waiting yet           *)
(* (park.v:70).  Whoever can be readied - queued while the lock is not held *)
(* by a goroutine that still parks, or dequeued by a direct send that has   *)
(* released the lock - has completed its park; and the main goroutine's     *)
(* semaphore never holds a second wakeup.                                   *)
NoDroppedWakeup ==
  /\ \A g \in Goroutine :
       Queued(g, recvq) \/ Queued(g, sendq) =>
         IF mu = g THEN pc[g] \in Parks ELSE pc[g] \in Waits /\ status[g] = "waiting"
  /\ \A s \in Goroutine :
       pc[s] = "send_direct" =>
         /\ pc[peer[s]] = "wait_recv"
         /\ status[peer[s]] = "waiting"
         /\ ~Queued(peer[s], recvq)
         /\ \A t \in Goroutine \ {s} : pc[t] = "send_direct" => peer[t] # peer[s]
  /\ main_park \in {0, 1}

(* The receiver a direct send is on its way to already owns the value. *)
Sender(g) == CHOOSE s \in Goroutine : pc[s] = "send_direct" /\ peer[s] = g
InFlight(g) == \E s \in Goroutine : pc[s] = "send_direct" /\ peer[s] = g

(* The values that blocked senders offer, and all that are accepted and not yet *)
(* taken.  A closed channel has refused the offers and serves nobody who waits. *)
Offered == [i \in 1..Len(sendq) |-> src[sendq[i]]]
Accepted == IF closed THEN Contents ELSE Contents \o Offered
BlockedSenders == IF closed THEN <<>> ELSE sendq
BlockedReceivers == IF closed THEN <<>> ELSE recvq

(* What the latest receive of a goroutine was given, and whether its latest *)
(* call transferred a value.                                                *)
Given == [g \in Goroutine |-> IF InFlight(g) THEN src[Sender(g)]
                              ELSE IF closed /\ Queued(g, recvq) THEN Zero ELSE dst[g]]
Transferred == [g \in Goroutine |-> InFlight(g) \/ success[g]]

Abstract == INSTANCE FifoChan WITH
  Capacity <- dataqsiz, q <- Accepted, senders <- BlockedSenders,
  receivers <- BlockedReceivers, shut <- closed, mail <- Given, ok <- Transferred

(* Lock, ring, wait lists and late copies implement the FIFO channel: every *)
(* value is received once, in the order of the sends, or dropped by a close *)
(* together with the panic of its sender.                                   *)
ImplementsFifo == Abstract!Spec

(* Handed to the scheduler, or already past its wait.  The main goroutine   *)
(* is woken by its semaphore, so it is past its wait.                       *)
Readied(g) ==
  \/ pc[g] \notin Waits
  \/ g # main_g /\ status[g] = "runnable"

(* Whoever a direct send, a receive or a close takes off a wait list is     *)
(* readied, although it leaves the list first and is readied later, and     *)
(* without the lock (chan.v:233-240), and goready drops a wakeup that comes *)
(* before the park; and a close readies everybody who waits (chan.v:205,    *)
(* 218).  When it then runs is up to the scheduler.                         *)
WaitersAreReadied ==
  \A g \in Goroutine :
    pc[g] \in Waits /\ (closed \/ (~Queued(g, recvq) /\ ~Queued(g, sendq))) ~> Readied(g)
=============================================================================

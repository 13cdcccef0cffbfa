-------------------------- MODULE GoSched_proofs --------------------------
(***************************************************************************)
(* The safety properties of the scheduler, for any number of goroutines,   *)
(* Ps, Ms, slots of a local queue and rounds of spinning.                  *)
(*                                                                         *)
(* None of them is inductive.  IInv says in addition where each P, each M  *)
(* and each goroutine is, also in the windows between two critical         *)
(* sections of a waker and after a shutdown, when an idle M may be woken   *)
(* by the broadcast and take a P of its own.                               *)
(***************************************************************************)
EXTENDS GoSched, SequenceFacts

-----------------------------------------------------------------------------
(* The inductive invariant *)

Empty(p) == local[p] = <<>> /\ runnext[p] = NoG

(* An M on the idle list, or between it and the post that wakes it, sleeps; *)
(* the broadcast of shutdown wakes it too, and then it only exits.          *)
Resting(m) ==
  /\ pc[m] = "asleep" \/ (stopped /\ pc[m] \in {"top", "exited"})
  /\ ~stopped => park[m] = 0

(* Nobody has given it a P; one it took itself, after shutdown, has no work. *)
Unwired(m) ==
  /\ ~stopped => mp_p[m] = NoP
  /\ mp_p[m] # NoP => Empty(mp_p[m])

(* What a thread inside wake_p holds. *)
WakerOf(t) ==
  /\ newm[t] # M0 <=> pc[t] \in {"wire", "post", "new"}
  /\ newp[t] # NoP <=> pc[t] \in {"start", "wire", "new"}
  /\ newm[t] < mnext
  /\ newm[t] \notin Range(midle)
  /\ pc[t] = "new" => pc[newm[t]] = "none"
  /\ pc[t] \in {"wire", "post"} => Resting(newm[t])
  /\ pc[t] = "wire" => Unwired(newm[t])

WakerInv ==
  /\ \A t \in Thread : WakerOf(t)
  /\ \A t, u \in Thread : newm[t] = newm[u] /\ newm[t] # M0 => t = u

(* Where each M is: it has a P unless it is idle or about to be given one, *)
(* and before a shutdown it sleeps unless a waker is about to post it.      *)
MachineOf(m) ==
  /\ m >= mnext => pc[m] = "none"
  /\ pc[m] = "none" => ~spinning[m]
  /\ pc[m] = "exited" => stopped
  /\ pc[m] \notin {"none", "asleep", "exited"} /\ ~stopped => mp_p[m] # NoP
  /\ pc[m] \notin {"none", "asleep", "exited", "top"} => mp_p[m] # NoP
  /\ m < mnext /\ mp_p[m] = NoP =>
       m \in Range(midle) \/ \E t \in Thread : pc[t] \in {"wire", "new"} /\ newm[t] = m
  /\ pc[m] = "asleep" /\ ~stopped /\ park[m] = 0 =>
       m \in Range(midle) \/ \E t \in Thread : pc[t] \in {"wire", "post"} /\ newm[t] = m
  /\ ~stopped => park[m] <= 1 /\ (pc[m] # "asleep" => park[m] = 0)

MachineInv ==
  /\ pc[M0] \in {"run", "broadcast"} \cup Wake
  /\ pc[M0] = "broadcast" => stopped
  /\ IsInjective(midle)
  /\ \A m \in Range(midle) : Resting(m) /\ Unwired(m) /\ m < mnext
  /\ \A m \in Machine : MachineOf(m)

(* Nobody shares a P. *)
OwnerInv ==
  /\ mp_p[M0] = NoP
  /\ \A m \in Machine : pc[m] = "none" => mp_p[m] = NoP
  /\ IsInjective(pidle)
  /\ \A t \in Thread : mp_p[t] \notin Range(pidle) /\ newp[t] \notin Range(pidle)
  /\ \A t, u \in Thread :
       /\ mp_p[t] = mp_p[u] /\ mp_p[t] # NoP => t = u
       /\ newp[t] = newp[u] /\ newp[t] # NoP => t = u
       /\ mp_p[t] = newp[u] => mp_p[t] = NoP
  /\ ~stopped => \A p \in Processor :
       p \in Range(pidle) \/ \E t \in Thread : mp_p[t] = p \/ newp[t] = p

(* An M that is about to park has emptied its queue, and nobody else fills it. *)
WorkInv ==
  /\ \A p \in Processor : (\A t \in Thread : mp_p[t] # p) => Empty(p)
  /\ \A m \in Machine :
       /\ pc[m] \in {"global", "steal", "park"} => Empty(mp_p[m])
       /\ pc[m] = "steal" => mp_p[m] \notin victims[m]

(* StopSpinning takes back what Spin or new_m has counted. *)
SpinInv ==
  /\ SpinCount
  /\ \A m \in Machine :
       /\ spinning[m] => pc[m] \in Find \cup {"top", "got", "exited"}
       /\ pc[m] \in Find /\ tries[m] > 0 => spinning[m]

(* The goroutines that wait to be run, each in one place. *)
QueueInv ==
  /\ IsInjective(runq)
  /\ \A p \in Processor :
       /\ IsInjective(local[p])
       /\ Range(local[p]) \cap Range(runq) = {}
       /\ runnext[p] \notin Range(runq)
       /\ \A q \in Processor : runnext[p] \notin Range(local[q])
       /\ \A q \in Processor \ {p} :
            /\ Range(local[p]) \cap Range(local[q]) = {}
            /\ runnext[p] = runnext[q] => runnext[p] = NoG
  /\ \A m \in Machine : pc[m] = "got" =>
       /\ curg[m] \in Goroutine
       /\ curg[m] \notin Range(runq)
       /\ \A p \in Processor : curg[m] \notin Range(local[p]) /\ curg[m] # runnext[p]
       /\ \A n \in Machine \ {m} : pc[n] = "got" => curg[n] # curg[m]

(* They are the runnable ones. *)
StatusInv ==
  \A g \in Goroutine : status[g] = "runnable" <=>
    \/ g \in Range(runq)
    \/ \E p \in Processor : g \in Range(local[p]) \/ runnext[p] = g
    \/ \E m \in Machine : pc[m] = "got" /\ curg[m] = g

(* The goroutines on a stack and the dead ones. *)
StackInv ==
  /\ \A m \in Machine : OnStack(m) =>
       /\ curg[m] \in Goroutine
       /\ status[curg[m]] \in {"running", "dead"}
       /\ pc[m] = "switch" /\ handoff[m] = "exited" => status[curg[m]] = "dead"
       /\ \A n \in Machine \ {m} : OnStack(n) => curg[n] # curg[m]
       /\ \A p \in Processor : curg[m] \notin Range(g_free[p])
  /\ \A p \in Processor :
       /\ IsInjective(g_free[p])
       /\ \A g \in Range(g_free[p]) : status[g] = "dead"
       /\ \A q \in Processor \ {p} : Range(g_free[p]) \cap Range(g_free[q]) = {}

Shape ==
  /\ TypeOK
  /\ WakerInv /\ MachineInv /\ OwnerInv /\ WorkInv /\ SpinInv
  /\ QueueInv /\ StatusInv /\ StackInv
  /\ mnext - 1 <= gomaxprocs

IInv == Shape /\ NoStrandedWork

-----------------------------------------------------------------------------
(* Constants and operators *)

(* What the proofs use of the index sets. *)
LEMMA IndexFacts ==
  /\ NoP \notin Processor /\ M0 \notin Machine /\ 0 \in Processor
  /\ Thread = {M0} \cup Machine /\ M0 \in Thread /\ Machine \subseteq Thread
  /\ \A m \in Machine : m \in Nat /\ m > 0
BY SchedAssumption DEF NoP, Processor, M0, Machine, Thread

(* runq_put: g is queued once, and what leaves the ring is in runq. *)
LEMMA RunqPut ==
  ASSUME NEW p \in Processor, NEW g \in Goroutine, runq_put(p, g), TypeOK,
         IsInjective(runq), IsInjective(local[p]), Range(local[p]) \cap Range(runq) = {},
         g \notin Range(runq), g \notin Range(local[p])
  PROVE  /\ runq' \in Seq(Goroutine) /\ local'[p] \in Seq(Goroutine)
         /\ Len(local'[p]) <= local_queue_size
         /\ local' = [local EXCEPT ![p] = local'[p]]
         /\ IsInjective(runq') /\ IsInjective(local'[p])
         /\ Range(local'[p]) \cap Range(runq') = {}
         /\ Range(local'[p]) \cup Range(runq') = Range(local[p]) \cup Range(runq) \cup {g}
<1> DEFINE s == local[p]
           n == Len(s) \div 2
<1>1. s \in Seq(Goroutine) /\ runq \in Seq(Goroutine) /\ Len(s) <= local_queue_size
      /\ local \in [Processor -> Seq(Goroutine)] /\ Len(s) \in Nat
  BY DEF TypeOK
<1>2. CASE Len(s) < local_queue_size
  <2>1. local' = [local EXCEPT ![p] = Append(s, g)] /\ runq' = runq
    BY <1>2 DEF runq_put
  <2>2. local'[p] = Append(s, g)
    BY <2>1, <1>1
  <2> HIDE DEF s, n
  <2>3. /\ Append(s, g) \in Seq(Goroutine) /\ Len(Append(s, g)) = Len(s) + 1
        /\ Range(Append(s, g)) = Range(s) \cup {g}
        /\ IsInjective(s) /\ g \notin Range(s) => IsInjective(Append(s, g))
    BY <1>1, AppendFacts
  <2>4. Len(s) + 1 <= local_queue_size
    BY <1>1, <1>2, SchedAssumption
  <2> QED
    BY <1>1, <2>1, <2>2, <2>3, <2>4 DEF s
<1>3. CASE ~(Len(s) < local_queue_size)
  <2> DEFINE old == SubSeq(s, 1, n)
             new == SubSeq(s, n + 1, Len(s))
  <2>1. local' = [local EXCEPT ![p] = new] /\ runq' = runq \o old \o <<g>>
    BY <1>3 DEF runq_put
  <2>2. local'[p] = new
    BY <2>1, <1>1
  <2>3. n \in Nat /\ n <= Len(s)
    BY <1>1
  <2> HIDE DEF s, n
  <2>4. /\ old \in Seq(Goroutine) /\ Len(old) = n - 1 + 1
        /\ \A x : x \in Range(old) <=> \E i \in 1 .. n : s[i] = x
        /\ IsInjective(s) => IsInjective(old)
    <3>1. 1 \in 1 .. Len(s) + 1 /\ n \in 0 .. Len(s) /\ 1 <= n + 1
      BY <1>1, <2>3
    <3> QED
      BY <1>1, <3>1, SubSeqFacts
  <2>5. /\ new \in Seq(Goroutine) /\ Len(new) = Len(s) - (n + 1) + 1
        /\ \A x : x \in Range(new) <=> \E i \in n + 1 .. Len(s) : s[i] = x
        /\ IsInjective(s) => IsInjective(new)
    <3> DEFINE k == n + 1
               l == Len(s)
    <3>1. k \in 1 .. Len(s) + 1 /\ l \in 0 .. Len(s) /\ k <= l + 1
      BY <1>1, <2>3
    <3>2. new = SubSeq(s, k, l)
      OBVIOUS
    <3> HIDE DEF k, l
    <3>3. /\ SubSeq(s, k, l) \in Seq(Goroutine) /\ Len(SubSeq(s, k, l)) = l - k + 1
          /\ \A x : x \in Range(SubSeq(s, k, l)) <=> \E i \in k .. l : s[i] = x
          /\ IsInjective(s) => IsInjective(SubSeq(s, k, l))
      BY <1>1, <3>1, SubSeqFacts
    <3> QED
      BY <3>2, <3>3 DEF k, l
  <2>6. IsInjective(s) /\ g \notin Range(s) /\ Range(s) \cap Range(runq) = {}
    BY DEF s
  <2>7. /\ \A x : x \in Range(s) <=> \E i \in 1 .. Len(s) : s[i] = x
        /\ \A i, j \in 1 .. Len(s) : s[i] = s[j] => i = j
    BY <1>1, <2>6, RangeFacts
  <2>8. Range(old) \cup Range(new) = Range(s)
    BY <1>1, <2>3, <2>4, <2>5, <2>7
  <2>9. Range(old) \cap Range(new) = {}
    BY <1>1, <2>3, <2>4, <2>5, <2>7, SMTT(30)
  <2>10. Len(new) <= local_queue_size
    BY <1>1, <2>3, <2>5, SchedAssumption DEF s
  <2> HIDE DEF old, new
  <2>11. /\ runq \o old \in Seq(Goroutine)
         /\ Range(runq \o old) = Range(runq) \cup Range(old) /\ IsInjective(runq \o old)
    BY <1>1, <2>4, <2>6, <2>8, ConcatFacts
  <2> DEFINE r == runq \o old
  <2>12. <<g>> \in Seq(Goroutine) /\ Range(<<g>>) = {g} /\ IsInjective(<<g>>)
    BY UnitFacts
  <2>13. r \in Seq(Goroutine) /\ IsInjective(r) /\ Range(r) = Range(runq) \cup Range(old)
    BY <2>11
  <2>14. runq' = r \o <<g>>
    BY <2>1
  <2> HIDE DEF r
  <2> DEFINE u == <<g>>
  <2>15. u \in Seq(Goroutine) /\ Range(u) = {g} /\ IsInjective(u) /\ runq' = r \o u
    BY <2>12, <2>14
  <2> HIDE DEF u
  <2>16. Range(r) \cap Range(u) = {}
    BY <2>6, <2>8, <2>13, <2>15
  <2>17. runq' \in Seq(Goroutine) /\ IsInjective(runq') /\ Range(runq') = Range(r) \cup Range(u)
    BY <2>13, <2>15, <2>16, ConcatFacts
  <2>18. IsInjective(new)
    BY <2>5, <2>6
  <2>19. /\ Range(new) \cap Range(runq') = {}
         /\ Range(new) \cup Range(runq') = Range(s) \cup Range(runq) \cup {g}
    BY <2>6, <2>8, <2>9, <2>13, <2>15, <2>17
  <2> QED
    BY <2>1, <2>2, <2>5, <2>10, <2>17, <2>18, <2>19 DEF s
<1> QED
  BY <1>2, <1>3

(* A goroutine that is neither runnable nor found by an M is in no queue. *)
LEMMA NotQueued ==
  ASSUME IInv, NEW g \in Goroutine, status[g] # "runnable"
  PROVE  /\ g \notin Range(runq)
         /\ \A p \in Processor : g \notin Range(local[p]) /\ runnext[p] # g
         /\ \A m \in Machine : pc[m] = "got" => curg[m] # g
BY DEF IInv, Shape, StatusInv

(* runq_put_next: g and what it kicks out are queued once. *)
LEMMA RunqPutNext ==
  ASSUME IInv, NEW p \in Processor, NEW g \in Goroutine, status[g] # "runnable",
         runq_put_next(p, g)
  PROVE  /\ runq' \in Seq(Goroutine) /\ local'[p] \in Seq(Goroutine)
         /\ Len(local'[p]) <= local_queue_size
         /\ local' = [local EXCEPT ![p] = local'[p]]
         /\ runnext' = [runnext EXCEPT ![p] = g]
         /\ IsInjective(runq') /\ IsInjective(local'[p])
         /\ Range(local'[p]) \cap Range(runq') = {}
         /\ Range(local'[p]) \cup Range(runq')
              = Range(local[p]) \cup Range(runq) \cup ({runnext[p]} \ {NoG})
<1>1. /\ runq \in Seq(Goroutine) /\ local \in [Processor -> Seq(Goroutine)]
      /\ Len(local[p]) <= local_queue_size
      /\ runnext \in [Processor -> Goroutine \cup {NoG}]
  BY DEF IInv, Shape, TypeOK
<1>2. /\ IsInjective(runq) /\ IsInjective(local[p]) /\ Range(local[p]) \cap Range(runq) = {}
      /\ runnext[p] \notin Range(runq) /\ runnext[p] \notin Range(local[p])
  BY DEF IInv, Shape, QueueInv
<1>3. CASE runnext[p] = NoG
  <2>1. local' = local /\ runq' = runq /\ runnext' = [runnext EXCEPT ![p] = g]
    BY <1>3 DEF runq_put_next
  <2> QED
    BY <1>1, <1>2, <1>3, <2>1
<1>4. CASE runnext[p] # NoG
  <2>1. runq_put(p, runnext[p]) /\ runnext' = [runnext EXCEPT ![p] = g]
    BY <1>4 DEF runq_put_next
  <2>2. runnext[p] \in Goroutine
    BY <1>1, <1>4
  <2> DEFINE k == runnext[p]
  <2>3. k \in Goroutine /\ runq_put(p, k) /\ k \notin Range(runq) /\ k \notin Range(local[p])
        /\ TypeOK /\ {runnext[p]} \ {NoG} = {k}
    BY <1>2, <1>4, <2>1, <2>2 DEF IInv, Shape
  <2> HIDE DEF k
  <2> QED
    BY <1>2, <2>1, <2>3, RunqPut
<1> QED
  BY <1>3, <1>4

(* runq_steal: the ring is split into the goroutine to be run, the thief's *)
(* part and the rest.                                                      *)
LEMMA Split ==
  ASSUME NEW s \in Seq(Goroutine), s # <<>>, IsInjective(s),
         NEW n \in Nat, n = Len(s) - Len(s) \div 2
  PROVE  LET mine == SubSeq(s, 2, n)
             rest == SubSeq(s, n + 1, Len(s))
         IN  /\ mine \in Seq(Goroutine) /\ rest \in Seq(Goroutine) /\ Head(s) \in Goroutine
             /\ Len(mine) <= Len(s) /\ Len(rest) <= Len(s)
             /\ IsInjective(mine) /\ IsInjective(rest)
             /\ Range(mine) \cap Range(rest) = {}
             /\ Head(s) \notin Range(mine) /\ Head(s) \notin Range(rest)
             /\ Range(s) = Range(mine) \cup Range(rest) \cup {Head(s)}
<1> DEFINE mine == SubSeq(s, 2, n)
           rest == SubSeq(s, n + 1, Len(s))
<1>1. Len(s) \in Nat \ {0} /\ n \in 1 .. Len(s) /\ Head(s) = s[1] /\ Head(s) \in Goroutine
  BY HeadTailFacts
<1>2. /\ mine \in Seq(Goroutine) /\ Len(mine) = n - 2 + 1 /\ IsInjective(mine)
      /\ \A x : x \in Range(mine) <=> \E i \in 2 .. n : s[i] = x
  <2> DEFINE k == 2
             l == n
  <2>1. k \in 1 .. Len(s) + 1 /\ l \in 0 .. Len(s) /\ k <= l + 1 /\ mine = SubSeq(s, k, l)
    BY <1>1
  <2> HIDE DEF k, l, mine
  <2>2. /\ SubSeq(s, k, l) \in Seq(Goroutine) /\ Len(SubSeq(s, k, l)) = l - k + 1
        /\ \A x : x \in Range(SubSeq(s, k, l)) <=> \E i \in k .. l : s[i] = x
        /\ IsInjective(SubSeq(s, k, l))
    BY <2>1, SubSeqFacts
  <2> QED
    BY <2>1, <2>2 DEF k, l
<1>3. /\ rest \in Seq(Goroutine) /\ Len(rest) = Len(s) - (n + 1) + 1 /\ IsInjective(rest)
      /\ \A x : x \in Range(rest) <=> \E i \in n + 1 .. Len(s) : s[i] = x
  <2> DEFINE k == n + 1
             l == Len(s)
  <2>1. k \in 1 .. Len(s) + 1 /\ l \in 0 .. Len(s) /\ k <= l + 1 /\ rest = SubSeq(s, k, l)
    BY <1>1
  <2> HIDE DEF k, l, rest
  <2>2. /\ SubSeq(s, k, l) \in Seq(Goroutine) /\ Len(SubSeq(s, k, l)) = l - k + 1
        /\ \A x : x \in Range(SubSeq(s, k, l)) <=> \E i \in k .. l : s[i] = x
        /\ IsInjective(SubSeq(s, k, l))
    BY <2>1, SubSeqFacts
  <2> QED
    BY <2>1, <2>2 DEF k, l
<1>4. /\ \A x : x \in Range(s) <=> \E i \in 1 .. Len(s) : s[i] = x
      /\ \A i, j \in 1 .. Len(s) : s[i] = s[j] => i = j
  BY RangeFacts
<1> HIDE DEF mine, rest
<1>5. Len(mine) <= Len(s) /\ Len(rest) <= Len(s)
  BY <1>1, <1>2, <1>3
<1>6. Range(mine) \cap Range(rest) = {}
  BY <1>1, <1>2, <1>3, <1>4
<1>7. Head(s) \notin Range(mine) /\ Head(s) \notin Range(rest)
  BY <1>1, <1>2, <1>3, <1>4, SMTT(30)
<1>8. Range(s) = Range(mine) \cup Range(rest) \cup {Head(s)}
  BY <1>1, <1>2, <1>3, <1>4, SMTT(30)
<1> QED
  BY <1>1, <1>2, <1>3, <1>5, <1>6, <1>7, <1>8 DEF mine, rest

(* steal_work with a ring to steal from. *)
LEMMA StealRing ==
  ASSUME IInv, NEW m \in Machine, pc[m] = "steal", NEW v \in victims[m], local[v] # <<>>,
         LET n == Len(local[v]) - Len(local[v]) \div 2 IN
         local' = [local EXCEPT ![v] = SubSeq(@, n + 1, Len(@)),
                                ![mp_p[m]] = @ \o SubSeq(local[v], 2, n)]
  PROVE  LET p == mp_p[m] IN
         /\ p \in Processor /\ v \in Processor /\ v # p /\ Head(local[v]) \in Goroutine
         /\ local' \in [Processor -> Seq(Goroutine)]
         /\ \A q \in Processor \ {p, v} : local'[q] = local[q]
         /\ Len(local'[p]) <= local_queue_size /\ Len(local'[v]) <= local_queue_size
         /\ IsInjective(local'[p]) /\ IsInjective(local'[v])
         /\ Range(local'[p]) \cap Range(local'[v]) = {}
         /\ Head(local[v]) \notin Range(local'[p]) /\ Head(local[v]) \notin Range(local'[v])
         /\ Range(local[v]) = Range(local'[p]) \cup Range(local'[v]) \cup {Head(local[v])}
<1> DEFINE p == mp_p[m]
           s == local[v]
           n == Len(s) - Len(s) \div 2
           mine == SubSeq(s, 2, n)
           rest == SubSeq(s, n + 1, Len(s))
<1>1. /\ mp_p[m] \in Processor \cup {NoP} /\ victims[m] \in SUBSET Processor
      /\ local \in [Processor -> Seq(Goroutine)]
      /\ \A q \in Processor : Len(local[q]) <= local_queue_size
  BY IndexFacts DEF IInv, Shape, TypeOK
<1>2. mp_p[m] # NoP /\ mp_p[m] \notin victims[m] /\ local[mp_p[m]] = <<>>
  BY DEF IInv, Shape, MachineInv, MachineOf, WorkInv, Empty
<1>3. p \in Processor /\ v \in Processor /\ v # p /\ local[p] = <<>>
  BY <1>1, <1>2
<1>4. s \in Seq(Goroutine) /\ s # <<>> /\ IsInjective(s) /\ Len(s) <= local_queue_size
  BY <1>1, <1>3 DEF IInv, Shape, QueueInv
<1>5. n \in Nat /\ Len(s) \in Nat
  <2>1. Len(s) \in Nat
    BY <1>4
  <2>2. \A l \in Nat : l - l \div 2 \in Nat
    OBVIOUS
  <2> QED
    BY <2>1, <2>2
<1>6. local' = [local EXCEPT ![v] = rest, ![p] = <<>> \o mine]
  BY <1>1, <1>3
<1> HIDE DEF p, s
<1>7. /\ mine \in Seq(Goroutine) /\ rest \in Seq(Goroutine) /\ Head(s) \in Goroutine
      /\ Len(mine) <= Len(s) /\ Len(rest) <= Len(s)
      /\ IsInjective(mine) /\ IsInjective(rest)
      /\ Range(mine) \cap Range(rest) = {}
      /\ Head(s) \notin Range(mine) /\ Head(s) \notin Range(rest)
      /\ Range(s) = Range(mine) \cup Range(rest) \cup {Head(s)}
  BY <1>4, <1>5, Split
<1> HIDE DEF mine, rest, n
<1>8. <<>> \o mine = mine
  BY <1>7
<1>9. local' = [local EXCEPT ![v] = rest, ![p] = mine]
  BY <1>6, <1>8
<1>10. /\ local' \in [Processor -> Seq(Goroutine)]
       /\ \A q \in Processor \ {p, v} : local'[q] = local[q]
       /\ local'[p] = mine /\ local'[v] = rest
  BY <1>1, <1>3, <1>7, <1>9
<1>11. Len(mine) <= local_queue_size /\ Len(rest) <= local_queue_size
  BY <1>4, <1>5, <1>7, SchedAssumption
<1>12. Head(local[v]) = Head(s) /\ Range(local[v]) = Range(s)
  BY DEF s
<1> QED
  BY <1>3, <1>7, <1>10, <1>11, <1>12 DEF p

-----------------------------------------------------------------------------
(* Types *)

(* Pushes and pops keep the type of a sequence. *)
LEMMA PushPop ==
  ASSUME NEW S, NEW s \in Seq(S)
  PROVE  /\ s # <<>> => Head(s) \in S /\ Tail(s) \in Seq(S)
         /\ \A x \in S : Append(s, x) \in Seq(S) /\ <<x>> \o s \in Seq(S)
OBVIOUS

(* The queues and stacks after a push or a pop. *)
LEMMA QueueTypes ==
  ASSUME TypeOK
  PROVE  /\ runq # <<>> => Head(runq) \in Goroutine /\ Tail(runq) \in Seq(Goroutine)
         /\ \A g \in Goroutine : Append(runq, g) \in Seq(Goroutine)
         /\ pidle # <<>> => Head(pidle) \in Processor /\ Tail(pidle) \in Seq(Processor)
         /\ \A p \in Processor : <<p>> \o pidle \in Seq(Processor)
         /\ midle # <<>> => Head(midle) \in Machine /\ Tail(midle) \in Seq(Machine)
         /\ \A m \in Machine : <<m>> \o midle \in Seq(Machine)
         /\ \A p \in Processor :
              /\ g_free[p] # <<>> => /\ Head(g_free[p]) \in Goroutine
                                     /\ Tail(g_free[p]) \in Seq(Goroutine)
              /\ \A g \in Goroutine : <<g>> \o g_free[p] \in Seq(Goroutine)
              /\ local[p] # <<>> =>
                   /\ Head(local[p]) \in Goroutine /\ Tail(local[p]) \in Seq(Goroutine)
                   /\ Len(Tail(local[p])) <= local_queue_size
<1>1. /\ runq \in Seq(Goroutine) /\ pidle \in Seq(Processor) /\ midle \in Seq(Machine)
      /\ \A p \in Processor : /\ g_free[p] \in Seq(Goroutine) /\ local[p] \in Seq(Goroutine)
                               /\ Len(local[p]) <= local_queue_size
  BY DEF TypeOK
<1>2. ASSUME NEW p \in Processor, local[p] # <<>>
      PROVE  Len(Tail(local[p])) <= local_queue_size
  <2>1. Len(Tail(local[p])) = Len(local[p]) - 1 /\ Len(local[p]) \in Nat
    BY <1>1, <1>2
  <2> QED
    BY <1>1, <2>1, SchedAssumption
<1>3. /\ runq # <<>> => Head(runq) \in Goroutine /\ Tail(runq) \in Seq(Goroutine)
      /\ \A g \in Goroutine : Append(runq, g) \in Seq(Goroutine)
  BY <1>1, PushPop
<1>4. /\ pidle # <<>> => Head(pidle) \in Processor /\ Tail(pidle) \in Seq(Processor)
      /\ \A p \in Processor : <<p>> \o pidle \in Seq(Processor)
  BY <1>1, PushPop
<1>5. /\ midle # <<>> => Head(midle) \in Machine /\ Tail(midle) \in Seq(Machine)
      /\ \A m \in Machine : <<m>> \o midle \in Seq(Machine)
  BY <1>1, PushPop
<1>6. ASSUME NEW p \in Processor
      PROVE  /\ g_free[p] # <<>> => /\ Head(g_free[p]) \in Goroutine
                                    /\ Tail(g_free[p]) \in Seq(Goroutine)
             /\ \A g \in Goroutine : <<g>> \o g_free[p] \in Seq(Goroutine)
             /\ local[p] # <<>> =>
                  Head(local[p]) \in Goroutine /\ Tail(local[p]) \in Seq(Goroutine)
  BY <1>1, PushPop
<1> QED
  BY <1>2, <1>3, <1>4, <1>5, <1>6

(* An M at work has a P. *)
LEMMA HasP ==
  ASSUME IInv, NEW m \in Machine
  PROVE  /\ pc[m] \notin {"none", "asleep", "exited", "top"} => mp_p[m] \in Processor
         /\ pc[m] = "top" /\ ~stopped => mp_p[m] \in Processor
BY IndexFacts DEF IInv, Shape, MachineInv, MachineOf, TypeOK

(* goroutine_create keeps the types. *)
LEMMA CreateTypes ==
  ASSUME IInv, NEW t \in Thread, goroutine_create(t)
  PROVE  TypeOK'
<1> USE DEF queueVars, idleVars, findVars, wakeVars
<1>1. TypeOK
  BY DEF IInv, Shape
<1>2. PICK g \in Goroutine :
       /\ IF mp_p[t] # NoP /\ g_free[mp_p[t]] # <<>>
          THEN /\ g = Head(g_free[mp_p[t]])
               /\ g_free' = [g_free EXCEPT ![mp_p[t]] = Tail(@)]
          ELSE /\ status[g] = "idle"
               /\ g_free' = g_free
       /\ status' = [status EXCEPT ![g] = "runnable"]
       /\ runq' = Append(runq, g)
  BY DEF goroutine_create
<1>3. runq' \in Seq(Goroutine)
  BY <1>1, <1>2, QueueTypes
<1>4. g_free' \in [Processor -> Seq(Goroutine)]
  <2>1. g_free \in [Processor -> Seq(Goroutine)]
    BY <1>1 DEF TypeOK
  <2>2. CASE mp_p[t] # NoP /\ g_free[mp_p[t]] # <<>>
    <3>1. mp_p[t] \in Processor
      BY <1>1, <2>2 DEF TypeOK
    <3>2. Tail(g_free[mp_p[t]]) \in Seq(Goroutine)
      BY <1>1, <2>2, <3>1, QueueTypes
    <3> QED
      BY <1>2, <2>1, <2>2, <3>1, <3>2
  <2>3. CASE ~(mp_p[t] # NoP /\ g_free[mp_p[t]] # <<>>)
    BY <1>2, <2>1, <2>3
  <2> QED
    BY <2>2, <2>3
<1> QED
  BY <1>1, <1>2, <1>3, <1>4 DEF TypeOK, goroutine_create, Goto, Wake

(* goready keeps the types. *)
LEMMA ReadyTypes ==
  ASSUME IInv, NEW t \in Thread, goready(t)
  PROVE  TypeOK'
<1> USE DEF queueVars, idleVars, findVars, wakeVars
<1>1. TypeOK
  BY DEF IInv, Shape
<1>2. PICK g \in Goroutine :
       /\ status[g] = "waiting"
       /\ status' = [status EXCEPT ![g] = "runnable"]
       /\ IF mp_p[t] # NoP
          THEN runq_put_next(mp_p[t], g)
          ELSE runq' = Append(runq, g) /\ UNCHANGED <<local, runnext>>
  BY DEF goready
<1>3. /\ runq' \in Seq(Goroutine) /\ local' \in [Processor -> Seq(Goroutine)]
      /\ \A p \in Processor : Len(local'[p]) <= local_queue_size
      /\ runnext' \in [Processor -> Goroutine \cup {NoG}]
  <2>1. CASE mp_p[t] = NoP
    BY <1>1, <1>2, <2>1, QueueTypes DEF TypeOK
  <2>2. CASE mp_p[t] # NoP
    <3> DEFINE p == mp_p[t]
    <3>1. p \in Processor /\ runq_put_next(p, g) /\ status[g] # "runnable"
      BY <1>1, <1>2, <2>2 DEF TypeOK
    <3> HIDE DEF p
    <3>2. /\ runq' \in Seq(Goroutine) /\ local'[p] \in Seq(Goroutine)
          /\ Len(local'[p]) <= local_queue_size
          /\ local' = [local EXCEPT ![p] = local'[p]]
          /\ runnext' = [runnext EXCEPT ![p] = g]
      BY <3>1, RunqPutNext
    <3> QED
      BY <1>1, <3>1, <3>2 DEF TypeOK
  <2> QED
    BY <2>1, <2>2
<1> QED
  BY <1>1, <1>2, <1>3 DEF TypeOK, goready, Goto, Wake

(* wake_p, start_m and new_m keep the types. *)
LEMMA WakeTypes ==
  ASSUME IInv, NEW t \in Thread, WakeStep(t), nmspinning' \in 0..MaxM
  PROVE  TypeOK'
<1> USE DEF queueVars, idleVars, findVars, wakeVars
<1>1. TypeOK
  BY DEF IInv, Shape
<1>2. CASE wake_p(t)
  BY <1>1, <1>2, QueueTypes, ZenonT(60) DEF TypeOK, wake_p, Goto, Wake
<1>3. CASE start_m(t)
  <2>1. mnext <= MaxM => mnext \in Machine
    BY <1>1 DEF TypeOK, Machine
  <2>2. newm' \in [Thread -> Machine \cup {M0}] /\ midle' \in Seq(Machine)
    BY <1>1, <1>3, <2>1, QueueTypes DEF TypeOK, start_m
  <2>3. mnext' \in 1..(MaxM + 1)
    BY <1>1, <1>3, SchedAssumption DEF TypeOK, start_m
  <2> QED
    BY <1>1, <1>3, <2>2, <2>3 DEF TypeOK, start_m, Goto, Wake
<1>4. CASE wire_p(t)
  BY <1>1, <1>4, IndexFacts DEF TypeOK, wire_p, Goto, Wake
<1>5. CASE post(t)
  <2>1. newm[t] \in Machine
    <3>1. pc[t] = "post" /\ WakerOf(t)
      BY <1>5 DEF IInv, Shape, WakerInv, post
    <3> QED
      BY <1>1, <3>1, IndexFacts DEF WakerOf, TypeOK
  <2>2. park' \in [Machine -> Nat]
    BY <1>1, <1>5, <2>1 DEF TypeOK, post
  <2>3. newm' \in [Thread -> Machine \cup {M0}] /\ newp' = newp
    BY <1>1, <1>5 DEF TypeOK, post
  <2>4. pc' \in [Thread -> Find \cup Wake \cup {"none", "top", "got", "run", "switch", "park",
                                               "asleep", "exited", "broadcast"}]
    BY <1>1, <1>5 DEF TypeOK, post, Goto
  <2> QED
    BY <1>1, <1>5, <2>2, <2>3, <2>4 DEF TypeOK, post
<1>6. CASE new_m(t)
  <2>1. newm[t] \in Machine
    <3>1. pc[t] = "new" /\ WakerOf(t)
      BY <1>6 DEF IInv, Shape, WakerInv, new_m
    <3> QED
      BY <1>1, <3>1, IndexFacts DEF WakerOf, TypeOK
  <2> QED
    BY <1>1, <1>6, <2>1, IndexFacts DEF TypeOK, new_m, Wake
<1> QED
  BY <1>2, <1>3, <1>4, <1>5, <1>6 DEF WakeStep

(* Leaving a goroutine and shutting down keep the types. *)
LEMMA LeaveTypes ==
  ASSUME IInv, \/ \E m \in Machine : LeaveStep(m)
               \/ shutdown \/ shutdown_broadcast
  PROVE  TypeOK'
<1> USE DEF queueVars, idleVars, findVars, wakeVars
<1>1. TypeOK
  BY DEF IInv, Shape
<1>2. CASE \E m \in Machine : LeaveStep(m)
  <2>1. PICK m \in Machine : LeaveStep(m)
    BY <1>2
  <2>2. status' \in [Goroutine -> {"idle", "runnable", "running", "waiting", "dead"}]
    BY <1>1, <2>1 DEF TypeOK, LeaveStep, gosched, gopark, goexit0
  <2>3. PICK note \in {"parked", "yielded", "exited"} : Leave(m, note)
    BY <2>1 DEF LeaveStep, gosched, gopark, goexit0
  <2> QED
    BY <1>1, <2>2, <2>3, IndexFacts DEF TypeOK, Leave, Goto
<1>3. CASE shutdown
  BY <1>1, <1>3, IndexFacts DEF TypeOK, shutdown, Goto
<1>4. CASE shutdown_broadcast
  <2>1. park' \in [Machine -> Nat]
    BY <1>1, <1>4, SMTT(30) DEF TypeOK, shutdown_broadcast
  <2> QED
    BY <1>1, <1>4, <2>1, IndexFacts DEF TypeOK, shutdown_broadcast, Goto
<1> QED
  BY <1>2, <1>3, <1>4

(* A step of schedule_loop keeps the types. *)
LEMMA LoopTypes ==
  ASSUME IInv, NEW m \in Machine, LoopStep(m), nmspinning' \in 0..MaxM
  PROVE  TypeOK'
<1> USE DEF queueVars, idleVars, findVars, wakeVars
<1>1. TypeOK
  BY DEF IInv, Shape
<1>2. CASE schedule_loop(m)
  <2>1. CASE stopped
    BY <1>1, <1>2, <2>1, IndexFacts DEF TypeOK, schedule_loop, Goto
  <2>2. CASE ~stopped
    <3> DEFINE tick == (sched_tick[mp_p[m]] + 1) % global_queue_check_interval
    <3>1. mp_p[m] \in Processor
      BY <1>2, <2>2, HasP DEF schedule_loop
    <3>2. tick \in 0..(global_queue_check_interval - 1)
      <4>1. \A a \in Nat, b \in Nat \ {0} : a % b \in 0..(b - 1)
        OBVIOUS
      <4>2. sched_tick[mp_p[m]] + 1 \in Nat
        BY <1>1, <3>1, SchedAssumption DEF TypeOK
      <4> QED
        BY <4>1, <4>2, SchedAssumption
    <3>3. /\ sched_tick' = [sched_tick EXCEPT ![mp_p[m]] = tick]
          /\ pc' = [pc EXCEPT ![m] = FindStart(tick)]
          /\ tries' = [tries EXCEPT ![m] = 0]
      BY <1>2, <2>2 DEF schedule_loop, Goto
    <3> HIDE DEF tick
    <3>4. FindStart(tick) \in Find
      BY DEF FindStart, Find
    <3>5. 0 \in 0..SpinTries
      BY SchedAssumption
    <3> QED
      BY <1>1, <1>2, <3>2, <3>3, <3>4, <3>5, IndexFacts DEF TypeOK, schedule_loop
  <2> QED
    BY <2>1, <2>2
<1>3. CASE glob_runq_get(m)
  <2>1. runq' \in Seq(Goroutine) /\ curg' \in [Machine -> Goroutine \cup {NoG}]
    BY <1>1, <1>3, QueueTypes DEF TypeOK, glob_runq_get, Found
  <2>2. PICK l \in Find \cup {"got"} : pc' = [pc EXCEPT ![m] = l]
    BY <1>3 DEF glob_runq_get, Found, Goto, Find
  <2>3. victims' \in [Machine -> SUBSET Processor]
    <3> DEFINE others == Processor \ {mp_p[m]}
    <3>1. victims' = victims \/ victims' = [victims EXCEPT ![m] = others]
      BY <1>3 DEF glob_runq_get
    <3>2. others \in SUBSET Processor
      OBVIOUS
    <3> HIDE DEF others
    <3> QED
      BY <1>1, <3>1, <3>2 DEF TypeOK
  <2> QED
    BY <1>1, <1>3, <2>1, <2>2, <2>3, IndexFacts DEF TypeOK, glob_runq_get, FindFrame
<1>4. CASE runq_get(m)
  <2> DEFINE p == mp_p[m]
  <2>1. p \in Processor
    BY <1>4, HasP DEF runq_get
  <2>2. /\ curg' \in [Machine -> Goroutine \cup {NoG}]
        /\ runnext' \in [Processor -> Goroutine \cup {NoG}]
    BY <1>1, <1>4, <2>1, QueueTypes, ZenonT(60) DEF TypeOK, runq_get, Found
  <2>3. /\ local' \in [Processor -> Seq(Goroutine)]
        /\ \A q \in Processor : Len(local'[q]) <= local_queue_size
    <3>1. local' = local \/ (local[p] # <<>> /\ local' = [local EXCEPT ![p] = Tail(local[p])])
      BY <1>1, <1>4 DEF runq_get, TypeOK
    <3> HIDE DEF p
    <3> QED
      BY <1>1, <2>1, <3>1, QueueTypes DEF TypeOK
  <2> QED
    BY <1>1, <1>4, <2>2, <2>3, IndexFacts, ZenonT(60) DEF TypeOK, runq_get, Found, FindFrame, Goto, Find
<1>5. CASE steal_work(m)
  <2>1. PICK v \in victims[m] :
       LET n == Len(local[v]) - Len(local[v]) \div 2 IN
       /\ IF local[v] # <<>>
          THEN /\ Found(m, Head(local[v]))
               /\ local' = [local EXCEPT ![v] = SubSeq(@, n + 1, Len(@)),
                                         ![mp_p[m]] = @ \o SubSeq(local[v], 2, n)]
               /\ runnext' = runnext
          ELSE IF runnext[v] # NoG
          THEN /\ Found(m, runnext[v])
               /\ runnext' = [runnext EXCEPT ![v] = NoG]
               /\ local' = local
          ELSE UNCHANGED <<pc, curg, local, runnext>>
       /\ victims' = [victims EXCEPT ![m] = @ \ {v}]
    BY <1>5 DEF steal_work
  <2>2. v \in Processor /\ pc[m] = "steal"
    BY <1>1, <1>5 DEF TypeOK, steal_work
  <2>3. /\ local' \in [Processor -> Seq(Goroutine)]
        /\ \A q \in Processor : Len(local'[q]) <= local_queue_size
    <3>1. CASE local[v] # <<>>
      <4>1. LET p == mp_p[m] IN
            /\ local' \in [Processor -> Seq(Goroutine)]
            /\ \A q \in Processor \ {p, v} : local'[q] = local[q]
            /\ Len(local'[p]) <= local_queue_size /\ Len(local'[v]) <= local_queue_size
        BY <2>1, <2>2, <3>1, StealRing
      <4> QED
        BY <1>1, <4>1 DEF TypeOK
    <3>2. CASE local[v] = <<>>
      BY <1>1, <2>1, <3>2 DEF TypeOK
    <3> QED
      BY <3>1, <3>2
  <2>4. curg' \in [Machine -> Goroutine \cup {NoG}]
    <3>1. PICK g \in Goroutine \cup {NoG} : curg' = [curg EXCEPT ![m] = g] \/ curg' = curg
      <4>1. runnext[v] \in Goroutine \cup {NoG} /\ (local[v] # <<>> => Head(local[v]) \in Goroutine)
        BY <1>1, <2>2, QueueTypes DEF TypeOK
      <4> QED
        BY <2>1, <4>1 DEF Found
    <3> QED
      BY <1>1, <3>1 DEF TypeOK
  <2>5. runnext' \in [Processor -> Goroutine \cup {NoG}]
    BY <1>1, <2>1, <2>2 DEF TypeOK
  <2>6. pc' = pc \/ pc' = [pc EXCEPT ![m] = "got"]
    BY <2>1 DEF Found, Goto
  <2>7. victims' = [victims EXCEPT ![m] = @ \ {v}]
    BY <2>1
  <2>8. victims' \in [Machine -> SUBSET Processor]
    BY <1>1, <2>7 DEF TypeOK
  <2>9. pc' \in [Thread -> Find \cup Wake \cup {"none", "top", "got", "run", "switch", "park",
                                              "asleep", "exited", "broadcast"}]
    BY <1>1, <2>6, IndexFacts DEF TypeOK
  <2> QED
    BY <1>1, <1>5, <2>3, <2>4, <2>5, <2>8, <2>9 DEF TypeOK, steal_work, FindFrame
<1>6. CASE Spin(m)
  <2>1. tries' \in [Machine -> 0..SpinTries]
    BY <1>1, <1>6, SchedAssumption DEF TypeOK, Spin
  <2>2. \A k : FindStart(k) \in Find
    BY DEF FindStart, Find
  <2> QED
    BY <1>1, <1>6, <2>1, <2>2, IndexFacts DEF TypeOK, Spin, Goto
<1>7. CASE StopSpinning(m)
  BY <1>1, <1>7, IndexFacts DEF TypeOK, StopSpinning, Goto
<1>8. CASE execute(m)
  BY <1>1, <1>8, IndexFacts DEF TypeOK, execute, Goto
<1>9. CASE execute_handoff(m)
  <2>1. /\ pc[m] = "switch" /\ curg[m] \in Goroutine /\ mp_p[m] \in Processor
        /\ status[curg[m]] # "runnable"
    BY <1>9, HasP DEF execute_handoff, IInv, Shape, StackInv, OnStack
  <2>2. status' \in [Goroutine -> {"idle", "runnable", "running", "waiting", "dead"}]
    BY <1>1, <1>9, <2>1 DEF TypeOK, execute_handoff
  <2>3. g_free' \in [Processor -> Seq(Goroutine)]
    <3>1. \/ g_free' = g_free
          \/ g_free' = [g_free EXCEPT ![mp_p[m]] = <<curg[m]>> \o g_free[mp_p[m]]]
      BY <1>1, <1>9, <2>1 DEF TypeOK, execute_handoff
    <3>2. <<curg[m]>> \o g_free[mp_p[m]] \in Seq(Goroutine)
      BY <1>1, <2>1, QueueTypes
    <3> QED
      BY <1>1, <2>1, <3>1, <3>2 DEF TypeOK
  <2>4. /\ runq' \in Seq(Goroutine) /\ local' \in [Processor -> Seq(Goroutine)]
        /\ \A q \in Processor : Len(local'[q]) <= local_queue_size
    <3>1. CASE runq_put(mp_p[m], curg[m])
      <4> DEFINE p == mp_p[m]
                 g == curg[m]
      <4>1. p \in Processor /\ g \in Goroutine /\ status[g] # "runnable" /\ runq_put(p, g)
        BY <2>1, <3>1
      <4> HIDE DEF p, g
      <4>2. g \notin Range(runq) /\ g \notin Range(local[p])
        BY <4>1, NotQueued
      <4>3. IsInjective(runq) /\ IsInjective(local[p]) /\ Range(local[p]) \cap Range(runq) = {}
        BY <4>1 DEF IInv, Shape, QueueInv
      <4>4. /\ runq' \in Seq(Goroutine) /\ local'[p] \in Seq(Goroutine)
            /\ Len(local'[p]) <= local_queue_size
            /\ local' = [local EXCEPT ![p] = local'[p]]
        BY <1>1, <4>1, <4>2, <4>3, RunqPut
      <4> QED
        BY <1>1, <4>1, <4>4 DEF TypeOK
    <3>2. CASE runq' = runq /\ local' = local
      BY <1>1, <3>2 DEF TypeOK
    <3> QED
      BY <1>9, <3>1, <3>2 DEF execute_handoff
  <2> QED
    BY <1>1, <1>9, <2>2, <2>3, <2>4, IndexFacts DEF TypeOK, execute_handoff, Goto
<1>10. CASE park_m(m)
  <2>1. mp_p[m] \in Processor
    BY <1>10, HasP DEF park_m
  <2>2. pidle' \in Seq(Processor) /\ midle' \in Seq(Machine)
    BY <1>1, <1>10, <2>1, QueueTypes DEF TypeOK, park_m
  <2>3. mp_p' \in [Thread -> Processor \cup {NoP}]
    BY <1>1, <1>10 DEF TypeOK, park_m
  <2>4. PICK l \in {"top", "asleep"} : pc' = [pc EXCEPT ![m] = l]
    BY <1>10 DEF park_m, Goto
  <2> QED
    BY <1>1, <1>10, <2>2, <2>3, <2>4, IndexFacts DEF TypeOK, park_m
<1>11. CASE park_m_woken(m)
  <2>1. pidle' \in Seq(Processor) /\ mp_p' \in [Thread -> Processor \cup {NoP}]
    BY <1>1, <1>11, QueueTypes DEF TypeOK, park_m_woken
  <2>2. park' \in [Machine -> Nat]
    BY <1>1, <1>11, SMTT(30) DEF TypeOK, park_m_woken
  <2> QED
    BY <1>1, <1>11, <2>1, <2>2, IndexFacts DEF TypeOK, park_m_woken, Goto
<1> QED
  BY <1>2, <1>3, <1>4, <1>5, <1>6, <1>7, <1>8, <1>9, <1>10, <1>11 DEF LoopStep

-----------------------------------------------------------------------------
(* Spinning *)

Spinners == {m \in Machine : spinning[m]}

(* There are at most MaxM of them. *)
LEMMA SomeMachines ==
  ASSUME NEW S \in SUBSET Machine
  PROVE  IsFiniteSet(S) /\ Cardinality(S) \in 0..MaxM
<1>1. IsFiniteSet(Machine) /\ Cardinality(Machine) = MaxM
  <2>1. 1 \in Int /\ MaxM \in Int /\ (1 > MaxM) = FALSE
    BY SchedAssumption
  <2> QED
    BY <2>1, SchedAssumption, FS_Interval DEF Machine
<1>2. IsFiniteSet(S) /\ Cardinality(S) <= Cardinality(Machine)
  BY <1>1, FS_Subset
<1>3. Cardinality(S) \in Nat
  BY <1>2, FS_CardinalityType
<1> QED
  BY <1>1, <1>2, <1>3, SchedAssumption

(* nmspinning is the size of a finite set of Ms, so it is a number. *)
LEMMA SpinnersFinite ==
  ASSUME SpinCount
  PROVE  IsFiniteSet(Spinners) /\ nmspinning = Cardinality(Spinners)
<1>1. Spinners \in SUBSET Machine
  BY DEF Spinners
<1> QED
  BY <1>1, SomeMachines DEF SpinCount, Spinners

(* An M starts or stops spinning, and is counted. *)
LEMMA SpinOn ==
  ASSUME SpinCount, spinning \in [Machine -> BOOLEAN], NEW m \in Machine,
         spinning' = [spinning EXCEPT ![m] = TRUE],
         nmspinning' = IF spinning[m] THEN nmspinning ELSE nmspinning + 1
  PROVE  SpinCount'
<1>1. IsFiniteSet(Spinners) /\ nmspinning = Cardinality(Spinners)
  BY SpinnersFinite
<1>2. Spinners' = Spinners \cup {m}
  BY DEF Spinners
<1>3. m \in Spinners <=> spinning[m]
  BY DEF Spinners
<1>4. Cardinality(Spinners \cup {m})
        = IF m \in Spinners THEN Cardinality(Spinners) ELSE Cardinality(Spinners) + 1
  BY <1>1, FS_AddElement
<1>5. nmspinning' = Cardinality(Spinners')
  BY <1>1, <1>2, <1>3, <1>4
<1> QED
  BY <1>5 DEF SpinCount, Spinners

(* An M that stops spinning takes itself off the count. *)
LEMMA SpinOff ==
  ASSUME SpinCount, spinning \in [Machine -> BOOLEAN], NEW m \in Machine,
         spinning' = [spinning EXCEPT ![m] = FALSE],
         nmspinning' = IF spinning[m] THEN nmspinning - 1 ELSE nmspinning
  PROVE  SpinCount'
<1>1. IsFiniteSet(Spinners) /\ nmspinning = Cardinality(Spinners)
  BY SpinnersFinite
<1>2. Spinners' = Spinners \ {m}
  BY DEF Spinners
<1>3. m \in Spinners <=> spinning[m]
  BY DEF Spinners
<1>4. Cardinality(Spinners \ {m})
        = IF m \in Spinners THEN Cardinality(Spinners) - 1 ELSE Cardinality(Spinners)
  BY <1>1, FS_RemoveElement
<1>5. nmspinning' = Cardinality(Spinners')
  BY <1>1, <1>2, <1>3, <1>4
<1> QED
  BY <1>5 DEF SpinCount, Spinners

(* nmspinning stays the number of spinning Ms. *)
LEMMA SpinStep ==
  ASSUME IInv, Next
  PROVE  SpinInv'
<1> USE DEF queueVars, idleVars, findVars, wakeVars
<1>1. /\ SpinCount /\ spinning \in [Machine -> BOOLEAN]
      /\ pc \in [Thread -> Find \cup Wake \cup {"none", "top", "got", "run", "switch", "park",
                                              "asleep", "exited", "broadcast"}]
      /\ newm \in [Thread -> Machine \cup {M0}]
      /\ tries \in [Machine -> 0..SpinTries]
  BY DEF IInv, Shape, SpinInv, TypeOK
<1>2. \A m \in Machine :
       /\ spinning[m] => pc[m] \in Find \cup {"top", "got", "exited"}
       /\ pc[m] \in Find /\ tries[m] > 0 => spinning[m]
  BY DEF IInv, Shape, SpinInv
<1>3. ASSUME spinning' = spinning, nmspinning' = nmspinning
      PROVE  SpinCount'
  BY <1>1, <1>3 DEF SpinCount
<1>4. ASSUME NEW t \in Thread, goroutine_create(t) \/ goready(t) \/ WakeStep(t)
      PROVE  SpinInv'
  <2>1. CASE goroutine_create(t) \/ goready(t)
    <3>1. SpinCount'
      BY <1>3, <2>1 DEF goroutine_create, goready
    <3>2. pc[t] = "run" /\ pc' = [pc EXCEPT ![t] = "wake"] /\ UNCHANGED <<spinning, tries>>
      BY <2>1 DEF goroutine_create, goready, Goto
    <3> QED
      BY <1>1, <1>2, <3>1, <3>2, IndexFacts DEF SpinInv, Find
  <2>2. CASE wake_p(t) \/ start_m(t) \/ wire_p(t) \/ post(t)
    <3>1. SpinCount'
      BY <1>3, <2>2 DEF wake_p, start_m, wire_p, post
    <3>2. PICK l \in Wake \cup {"run"} :
            pc[t] \in Wake /\ pc' = [pc EXCEPT ![t] = l] /\ UNCHANGED <<spinning, tries>>
      BY <2>2 DEF wake_p, start_m, wire_p, post, Goto, Wake
    <3> QED
      BY <1>1, <1>2, <3>1, <3>2, IndexFacts DEF SpinInv, Find, Wake
  <2>3. CASE new_m(t)
    <3> DEFINE m == newm[t]
    <3>1. m \in Machine /\ pc[m] = "none" /\ ~spinning[m]
      BY <1>1, <2>3, IndexFacts DEF IInv, Shape, WakerInv, WakerOf, MachineInv, MachineOf, new_m
    <3>2. /\ pc[t] = "new" /\ pc' = [pc EXCEPT ![m] = "top", ![t] = "run"]
          /\ spinning' = [spinning EXCEPT ![m] = TRUE] /\ tries' = tries
          /\ nmspinning' = IF spinning[m] THEN nmspinning ELSE nmspinning + 1
      BY <2>3, <3>1 DEF new_m
    <3> HIDE DEF m
    <3>3. SpinCount'
      BY <1>1, <3>1, <3>2, SpinOn
    <3> QED
      BY <1>1, <1>2, <3>1, <3>2, <3>3, IndexFacts DEF SpinInv, Find
  <2> QED
    BY <1>4, <2>1, <2>2, <2>3 DEF WakeStep
<1>5. ASSUME NEW m \in Machine, LeaveStep(m)
      PROVE  SpinInv'
  <2>1. SpinCount'
    BY <1>3, <1>5 DEF LeaveStep, gosched, gopark, goexit0, Leave
  <2>2. pc[m] = "run" /\ pc' = [pc EXCEPT ![m] = "switch"] /\ UNCHANGED <<spinning, tries>>
    BY <1>5 DEF LeaveStep, gosched, gopark, goexit0, Leave, Goto
  <2> QED
    BY <1>1, <1>2, <2>1, <2>2, IndexFacts DEF SpinInv, Find
<1>6. CASE shutdown \/ shutdown_broadcast
  <2>1. SpinCount'
    BY <1>3, <1>6 DEF shutdown, shutdown_broadcast
  <2>2. \A m \in Machine : pc'[m] = pc[m] /\ spinning'[m] = spinning[m] /\ tries'[m] = tries[m]
    BY <1>1, <1>6, IndexFacts DEF shutdown, shutdown_broadcast, Goto
  <2> QED
    BY <1>2, <2>1, <2>2 DEF SpinInv
<1>7. ASSUME NEW m \in Machine, LoopStep(m)
      PROVE  SpinInv'
  <2>1. \A k : FindStart(k) \in Find
    BY DEF FindStart, Find
  <2>2. CASE schedule_loop(m)
    <3>1. SpinCount'
      BY <1>3, <2>2 DEF schedule_loop
    <3>2. /\ pc[m] = "top" /\ spinning' = spinning
          /\ \/ pc' = [pc EXCEPT ![m] = "exited"] /\ tries' = tries
             \/ \E l \in Find : pc' = [pc EXCEPT ![m] = l] /\ tries' = [tries EXCEPT ![m] = 0]
      BY <2>1, <2>2 DEF schedule_loop, Goto
    <3> QED
      BY <1>1, <1>2, <3>1, <3>2, IndexFacts DEF SpinInv, Find
  <2>3. CASE glob_runq_get(m) \/ runq_get(m) \/ steal_work(m)
    <3>1. SpinCount'
      BY <1>3, <2>3 DEF glob_runq_get, runq_get, steal_work, FindFrame
    <3>2. /\ pc[m] \in Find /\ UNCHANGED <<spinning, tries>>
          /\ pc' = pc \/ \E l \in Find \cup {"got"} : pc' = [pc EXCEPT ![m] = l]
      BY <2>3 DEF glob_runq_get, runq_get, steal_work, FindFrame, Found, Goto, Find
    <3> QED
      BY <1>1, <1>2, <3>1, <3>2, IndexFacts DEF SpinInv
  <2>4. CASE Spin(m)
    <3>1. SpinCount'
      BY <1>1, <2>4, SpinOn DEF Spin
    <3>2. /\ pc[m] = "steal" /\ spinning' = [spinning EXCEPT ![m] = TRUE]
          /\ tries' = [tries EXCEPT ![m] = @ + 1]
          /\ \E l \in Find : pc' = [pc EXCEPT ![m] = l]
      BY <2>1, <2>4 DEF Spin, Goto
    <3> QED
      BY <1>1, <1>2, <3>1, <3>2, IndexFacts DEF SpinInv
  <2>5. CASE StopSpinning(m)
    <3>1. pc[m] = "steal" /\ tries[m] > 0
      BY <2>5, SchedAssumption DEF StopSpinning
    <3>2. spinning[m]
      BY <1>2, <3>1 DEF Find
    <3>3. nmspinning' = (IF spinning[m] THEN nmspinning - 1 ELSE nmspinning)
      BY <2>5, <3>2 DEF StopSpinning
    <3>4. SpinCount'
      BY <1>1, <2>5, <3>3, SpinOff DEF StopSpinning
    <3>5. /\ spinning' = [spinning EXCEPT ![m] = FALSE] /\ tries' = tries
          /\ pc' = [pc EXCEPT ![m] = "park"]
      BY <2>5 DEF StopSpinning, Goto
    <3> QED
      BY <1>1, <1>2, <3>4, <3>5, IndexFacts DEF SpinInv, Find
  <2>6. CASE execute(m)
    <3>1. SpinCount'
      BY <1>1, <2>6, SpinOff DEF execute
    <3>2. /\ spinning' = [spinning EXCEPT ![m] = FALSE] /\ tries' = tries
          /\ pc' = [pc EXCEPT ![m] = "run"]
      BY <2>6 DEF execute, Goto
    <3> QED
      BY <1>1, <1>2, <3>1, <3>2, IndexFacts DEF SpinInv, Find
  <2>7. CASE execute_handoff(m) \/ park_m(m) \/ park_m_woken(m)
    <3>1. SpinCount'
      BY <1>3, <2>7 DEF execute_handoff, park_m, park_m_woken
    <3>2. /\ pc[m] \in {"switch", "park", "asleep"} /\ UNCHANGED <<spinning, tries>>
          /\ \E l \in {"top", "asleep"} : pc' = [pc EXCEPT ![m] = l]
      BY <2>7 DEF execute_handoff, park_m, park_m_woken, Goto
    <3> QED
      BY <1>1, <1>2, <3>1, <3>2, IndexFacts DEF SpinInv, Find
  <2> QED
    BY <1>7, <2>2, <2>3, <2>4, <2>5, <2>6, <2>7 DEF LoopStep
<1> QED
  BY <1>4, <1>5, <1>6, <1>7 DEF Next

(* Every step keeps the types. *)
LEMMA TypeStep ==
  ASSUME IInv, Next
  PROVE  TypeOK'
<1>1. SpinCount'
  BY SpinStep DEF SpinInv
<1>2. nmspinning' \in 0..MaxM
  <2>1. nmspinning' = Cardinality(Spinners')
    BY <1>1 DEF SpinCount, Spinners
  <2>2. Spinners' \in SUBSET Machine
    BY DEF Spinners
  <2> QED
    BY <2>1, <2>2, SomeMachines
<1> QED
  BY <1>2, CreateTypes, ReadyTypes, WakeTypes, LeaveTypes, LoopTypes DEF Next

-----------------------------------------------------------------------------
(* Processors *)

(* A push on a stack. *)
LEMMA PushFacts ==
  ASSUME NEW S, NEW s \in Seq(S), NEW x \in S
  PROVE  /\ Range(<<x>> \o s) = Range(s) \cup {x} /\ <<x>> \o s # <<>>
         /\ IsInjective(s) /\ x \notin Range(s) => IsInjective(<<x>> \o s)
<1> DEFINE u == <<x>>
<1>1. u \in Seq(S) /\ Range(u) = {x} /\ IsInjective(u) /\ Len(u) = 1
  BY UnitFacts
<1> HIDE DEF u
<1>2. Range(u \o s) = Range(u) \cup Range(s)
  BY <1>1, ConcatFacts
<1>3. ASSUME IsInjective(s), x \notin Range(s)
      PROVE  IsInjective(u \o s)
  BY <1>1, <1>3, ConcatFacts
<1>4. u \o s # <<>>
  BY <1>1
<1> QED
  BY <1>1, <1>2, <1>3, <1>4 DEF u

(* Most steps move no P. *)
LEMMA OwnerSame ==
  ASSUME OwnerInv, UNCHANGED <<pidle, mp_p, newp>>, stopped => stopped',
         \A m \in Machine : pc'[m] = "none" => pc[m] = "none"
  PROVE  OwnerInv'
BY DEF OwnerInv

(* Every P goes from one owner to the next. *)
LEMMA OwnerStep ==
  ASSUME IInv, Next
  PROVE  OwnerInv'
<1> USE DEF queueVars, idleVars, findVars, wakeVars
<1>1. /\ mp_p \in [Thread -> Processor \cup {NoP}] /\ newp \in [Thread -> Processor \cup {NoP}]
      /\ pidle \in Seq(Processor) /\ newm \in [Thread -> Machine \cup {M0}]
      /\ pc \in [Thread -> Find \cup Wake \cup {"none", "top", "got", "run", "switch", "park",
                                              "asleep", "exited", "broadcast"}]
  BY DEF IInv, Shape, TypeOK
<1>2. OwnerInv
  BY DEF IInv, Shape
<1>3. pidle # <<>> => /\ Head(pidle) \in Processor /\ Tail(pidle) \in Seq(Processor)
                      /\ Range(pidle) = Range(Tail(pidle)) \cup {Head(pidle)}
                      /\ IsInjective(Tail(pidle)) /\ Head(pidle) \notin Range(Tail(pidle))
  BY <1>1, <1>2, HeadTailFacts DEF OwnerInv
<1>4. ASSUME NEW t \in Thread, goroutine_create(t) \/ goready(t) \/ WakeStep(t)
      PROVE  OwnerInv'
  <2>1. CASE goroutine_create(t) \/ goready(t) \/ start_m(t) \/ post(t)
    <3>1. UNCHANGED <<pidle, mp_p, newp, stopped>>
      BY <2>1 DEF goroutine_create, goready, start_m, post
    <3>2. PICK l \in Wake \cup {"run"} : pc' = [pc EXCEPT ![t] = l]
      BY <2>1 DEF goroutine_create, goready, start_m, post, Goto, Wake
    <3>3. \A m \in Machine : pc'[m] = "none" => pc[m] = "none"
      BY <1>1, <3>2, IndexFacts DEF Wake
    <3> QED
      BY <1>2, <3>1, <3>3, OwnerSame
  <2>2. CASE wake_p(t)
    <3>1. PICK l \in Wake \cup {"run"} : pc' = [pc EXCEPT ![t] = l]
      BY <2>2 DEF wake_p, Goto, Wake
    <3>2. \A m \in Machine : pc'[m] = "none" => pc[m] = "none"
      BY <1>1, <3>1, IndexFacts DEF Wake
    <3>3. UNCHANGED <<mp_p, stopped>> /\ pc[t] = "wake"
      BY <2>2 DEF wake_p
    <3>4. CASE pidle = <<>> \/ nmspinning > 0
      <4>1. UNCHANGED <<pidle, newp>>
        BY <2>2, <3>4 DEF wake_p
      <4> QED
        BY <1>2, <3>2, <3>3, <4>1, OwnerSame
    <3>5. CASE ~(pidle = <<>> \/ nmspinning > 0)
      <4>1. newp' = [newp EXCEPT ![t] = Head(pidle)] /\ pidle' = Tail(pidle) /\ pidle # <<>>
        BY <2>2, <3>5 DEF wake_p
      <4>2. newp[t] = NoP
        BY <3>3 DEF IInv, Shape, WakerInv, WakerOf
      <4> QED
        BY <1>1, <1>2, <1>3, <3>2, <3>3, <4>1, <4>2, IndexFacts DEF OwnerInv
    <3> QED
      BY <3>4, <3>5
  <2>3. CASE wire_p(t) \/ new_m(t)
    <3>1. /\ mp_p' = [mp_p EXCEPT ![newm[t]] = newp[t]] /\ newp' = [newp EXCEPT ![t] = NoP]
          /\ UNCHANGED <<pidle, stopped>>
      BY <2>3 DEF wire_p, new_m
    <3>2. pc[t] \in {"wire", "new"}
      BY <2>3 DEF wire_p, new_m
    <3>3. newm[t] \in Machine /\ newp[t] \in Processor
      BY <1>1, <3>2 DEF IInv, Shape, WakerInv, WakerOf
    <3>4. ~stopped => mp_p[newm[t]] = NoP
      BY <1>2, <3>2, <3>3 DEF IInv, Shape, WakerInv, WakerOf, OwnerInv, Unwired
    <3>5. \A m \in Machine : pc'[m] = "none" => pc[m] = "none" /\ m # newm[t]
      <4>1. CASE wire_p(t)
        <5>1. pc' = [pc EXCEPT ![t] = "post"] /\ Resting(newm[t])
          BY <4>1, <3>2 DEF wire_p, Goto, IInv, Shape, WakerInv, WakerOf
        <5> QED
          BY <1>1, <3>3, <5>1, IndexFacts DEF Resting
      <4>2. CASE new_m(t)
        BY <1>1, <3>3, <4>2, IndexFacts DEF new_m
      <4> QED
        BY <2>3, <4>1, <4>2
    <3>6. newp[t] \notin Range(pidle) /\ \A u \in Thread : mp_p[u] # newp[t]
      BY <1>2, <3>3, IndexFacts DEF OwnerInv
    <3> QED
      BY <1>1, <1>2, <3>1, <3>3, <3>4, <3>5, <3>6, IndexFacts DEF OwnerInv
  <2> QED
    BY <1>4, <2>1, <2>2, <2>3 DEF WakeStep
<1>5. CASE shutdown \/ shutdown_broadcast
  <2>1. UNCHANGED <<pidle, mp_p, newp>> /\ (stopped => stopped')
    BY <1>5 DEF shutdown, shutdown_broadcast
  <2>2. \A m \in Machine : pc'[m] = pc[m]
    BY <1>1, <1>5, IndexFacts DEF shutdown, shutdown_broadcast, Goto
  <2> QED
    BY <1>2, <2>1, <2>2, OwnerSame
<1>6. ASSUME NEW m \in Machine, LeaveStep(m) \/ LoopStep(m), ~park_m(m), ~park_m_woken(m)
      PROVE  OwnerInv'
  <2>1. UNCHANGED <<pidle, mp_p, newp, stopped>>
    BY <1>6, ZenonT(60) DEF LeaveStep, gosched, gopark, goexit0, Leave, LoopStep, schedule_loop,
       glob_runq_get, runq_get, steal_work, FindFrame, Spin, StopSpinning, execute, execute_handoff
  <2>2. \A k : FindStart(k) # "none"
    BY DEF FindStart
  <2>3. pc' = pc \/ \E l : l # "none" /\ pc' = [pc EXCEPT ![m] = l]
    BY <1>6, <2>2, ZenonT(60) DEF LeaveStep, gosched, gopark, goexit0, Leave, LoopStep, schedule_loop,
       glob_runq_get, runq_get, steal_work, Found, Spin, StopSpinning, execute, execute_handoff,
       Goto
  <2>4. \A n \in Machine : pc'[n] = "none" => pc[n] = "none"
    BY <1>1, <2>3, IndexFacts
  <2> QED
    BY <1>2, <2>1, <2>4, OwnerSame
<1>7. ASSUME NEW m \in Machine, park_m(m)
      PROVE  OwnerInv'
  <2>1. /\ \A n \in Machine : pc'[n] = "none" => pc[n] = "none"
        /\ pc[m] = "park" /\ UNCHANGED <<newp, stopped>>
    BY <1>1, <1>7, IndexFacts DEF park_m, Goto
  <2>2. CASE runq # <<>>
    BY <1>2, <1>7, <2>1, <2>2, OwnerSame DEF park_m
  <2>3. CASE runq = <<>>
    <3>1. mp_p[m] \in Processor /\ mp_p[m] \notin Range(pidle)
      BY <1>2, <2>1, HasP, IndexFacts DEF OwnerInv
    <3>2. pidle' = <<mp_p[m]>> \o pidle /\ mp_p' = [mp_p EXCEPT ![m] = NoP]
      BY <1>7, <2>3 DEF park_m
    <3>3. Range(pidle') = Range(pidle) \cup {mp_p[m]} /\ IsInjective(pidle')
      BY <1>1, <1>2, <3>1, <3>2, PushFacts DEF OwnerInv
    <3> QED
      BY <1>1, <1>2, <2>1, <3>1, <3>2, <3>3, IndexFacts DEF OwnerInv
  <2> QED
    BY <2>2, <2>3
<1>8. ASSUME NEW m \in Machine, park_m_woken(m)
      PROVE  OwnerInv'
  <2>1. /\ \A n \in Machine : pc'[n] = "none" => pc[n] = "none" /\ n # m
        /\ UNCHANGED <<newp, stopped>>
    BY <1>1, <1>8, IndexFacts DEF park_m_woken, Goto
  <2>2. CASE mp_p[m] = NoP /\ pidle # <<>>
    <3>1. mp_p' = [mp_p EXCEPT ![m] = Head(pidle)] /\ pidle' = Tail(pidle)
      BY <1>8, <2>2 DEF park_m_woken
    <3> QED
      BY <1>1, <1>2, <1>3, <2>1, <2>2, <3>1, IndexFacts DEF OwnerInv
  <2>3. CASE ~(mp_p[m] = NoP /\ pidle # <<>>)
    BY <1>2, <1>8, <2>1, <2>3, OwnerSame DEF park_m_woken
  <2> QED
    BY <2>2, <2>3
<1> QED
  BY <1>4, <1>5, <1>6, <1>7, <1>8 DEF Next, LoopStep

-----------------------------------------------------------------------------
(* Work *)

(* Only the M that has the P puts work into its queue. *)
LEMMA EmptyStep ==
  ASSUME IInv, Next, NEW p \in Processor, Empty(p),
         \A m \in Machine : mp_p[m] = p => pc[m] \notin {"run", "switch"} /\ ~steal_work(m)
  PROVE  Empty(p)'
<1> USE DEF queueVars, idleVars, findVars, wakeVars
<1>1. /\ local \in [Processor -> Seq(Goroutine)] /\ runnext \in [Processor -> Goroutine \cup {NoG}]
      /\ mp_p \in [Thread -> Processor \cup {NoP}] /\ victims \in [Machine -> SUBSET Processor]
      /\ TypeOK
  BY DEF IInv, Shape, TypeOK
<1>3. ASSUME NEW t \in Thread, goroutine_create(t) \/ goready(t) \/ WakeStep(t)
      PROVE  Empty(p)'
  <2>1. CASE ~goready(t)
    BY <1>3, <2>1 DEF Empty, goroutine_create, WakeStep, wake_p, start_m, wire_p, post, new_m
  <2>2. CASE goready(t)
    <3>1. PICK g \in Goroutine :
           /\ status[g] = "waiting"
           /\ IF mp_p[t] # NoP
              THEN runq_put_next(mp_p[t], g)
              ELSE runq' = Append(runq, g) /\ UNCHANGED <<local, runnext>>
      BY <2>2 DEF goready
    <3>2. CASE mp_p[t] = NoP
      BY <3>1, <3>2 DEF Empty
    <3>3. CASE mp_p[t] # NoP
      <4> DEFINE q == mp_p[t]
      <4>1. q \in Processor /\ q # p
        BY <1>1, <2>2, <3>3, IndexFacts DEF goready, IInv, Shape, OwnerInv
      <4>2. runq_put_next(q, g) /\ status[g] # "runnable"
        BY <3>1, <3>3
      <4> HIDE DEF q
      <4>3. local' = [local EXCEPT ![q] = local'[q]] /\ runnext' = [runnext EXCEPT ![q] = g]
        BY <4>1, <4>2, RunqPutNext
      <4>4. local'[p] = local[p] /\ runnext'[p] = runnext[p]
        BY <1>1, <4>1, <4>3
      <4> QED
        BY <4>4 DEF Empty
    <3> QED
      BY <3>2, <3>3
  <2> QED
    BY <2>1, <2>2
<1>4. CASE shutdown \/ shutdown_broadcast
  BY <1>4 DEF Empty, shutdown, shutdown_broadcast
<1>5. ASSUME NEW m \in Machine, LeaveStep(m) \/ LoopStep(m)
      PROVE  Empty(p)'
  <2>1. CASE \/ LeaveStep(m) \/ schedule_loop(m) \/ glob_runq_get(m) \/ Spin(m) \/ StopSpinning(m)
             \/ execute(m) \/ park_m(m) \/ park_m_woken(m)
    BY <2>1 DEF Empty, LeaveStep, gosched, gopark, goexit0, Leave, schedule_loop, glob_runq_get,
       Spin, StopSpinning, execute, park_m, park_m_woken
  <2>2. CASE runq_get(m)
    BY <1>1, <2>2 DEF Empty, runq_get, Found
  <2>3. CASE steal_work(m)
    <3>1. PICK v \in victims[m] :
       LET n == Len(local[v]) - Len(local[v]) \div 2 IN
          IF local[v] # <<>>
          THEN /\ local' = [local EXCEPT ![v] = SubSeq(@, n + 1, Len(@)),
                                         ![mp_p[m]] = @ \o SubSeq(local[v], 2, n)]
               /\ runnext' = runnext
          ELSE IF runnext[v] # NoG
          THEN /\ runnext' = [runnext EXCEPT ![v] = NoG]
               /\ local' = local
          ELSE UNCHANGED <<local, runnext>>
      BY <2>3 DEF steal_work
    <3>2. mp_p[m] # p /\ v \in Processor /\ pc[m] = "steal"
      BY <1>1, <2>3 DEF steal_work
    <3>3. CASE local[v] # <<>>
      <4>1. v # p
        BY <3>3 DEF Empty
      <4>2. \A q \in Processor \ {mp_p[m], v} : local'[q] = local[q]
        BY <3>1, <3>2, <3>3, StealRing
      <4> QED
        BY <3>1, <3>2, <3>3, <4>1, <4>2 DEF Empty
    <3>4. CASE local[v] = <<>>
      BY <1>1, <3>1, <3>2, <3>4 DEF Empty
    <3> QED
      BY <3>3, <3>4
  <2>4. CASE execute_handoff(m)
    <3>1. pc[m] = "switch" /\ runnext' = runnext /\ mp_p[m] # p
      BY <2>4 DEF execute_handoff
    <3>2. local' = local \/ runq_put(mp_p[m], curg[m])
      BY <2>4 DEF execute_handoff
    <3>3. local'[p] = local[p]
      BY <1>1, <3>1, <3>2 DEF runq_put
    <3> QED
      BY <3>1, <3>3 DEF Empty
  <2> QED
    BY <1>5, <2>1, <2>2, <2>3, <2>4 DEF LoopStep
<1> QED
  BY <1>3, <1>4, <1>5 DEF Next

(* An M that rests goes on resting until somebody posts it. *)
LEMMA RestingStep ==
  ASSUME IInv, Next, NEW k \in Machine, Resting(k),
         \A t \in Thread : post(t) => newm[t] # k
  PROVE  Resting(k)'
<1> USE DEF queueVars, idleVars, findVars, wakeVars
<1>1. /\ pc \in [Thread -> Find \cup Wake \cup {"none", "top", "got", "run", "switch", "park",
                                              "asleep", "exited", "broadcast"}]
      /\ park \in [Machine -> Nat] /\ newm \in [Thread -> Machine \cup {M0}]
  BY DEF IInv, Shape, TypeOK
<1>2. pc[k] = "asleep" \/ (stopped /\ pc[k] \in {"top", "exited"})
  BY DEF Resting
<1>3. ASSUME NEW t \in Thread, goroutine_create(t) \/ goready(t) \/ WakeStep(t)
      PROVE  Resting(k)'
  <2>1. CASE ~new_m(t)
    <3>1. /\ t # k /\ stopped' = stopped
          /\ \E l : pc' = [pc EXCEPT ![t] = l]
      BY <1>2, <1>3, <2>1
      DEF goroutine_create, goready, WakeStep, wake_p, start_m, wire_p, post, Goto
    <3>2. park'[k] = park[k]
      <4>1. CASE post(t)
        BY <1>1, <4>1 DEF post
      <4>2. CASE ~post(t)
        BY <1>3, <2>1, <4>2 DEF goroutine_create, goready, WakeStep, wake_p, start_m, wire_p
      <4> QED
        BY <4>1, <4>2
    <3> QED
      BY <1>1, <3>1, <3>2, IndexFacts DEF Resting
  <2>2. CASE new_m(t)
    <3>1. newm[t] # k
      BY <1>2, <2>2 DEF IInv, Shape, WakerInv, WakerOf, new_m
    <3> QED
      BY <1>1, <1>2, <2>2, <3>1, IndexFacts DEF Resting, new_m
  <2> QED
    BY <2>1, <2>2
<1>4. CASE shutdown
  BY <1>1, <1>4, IndexFacts DEF Resting, shutdown, Goto
<1>5. CASE shutdown_broadcast
  <2>1. stopped
    BY <1>5 DEF shutdown_broadcast, IInv, Shape, MachineInv, MachineOf
  <2> QED
    BY <1>1, <1>5, <2>1, IndexFacts DEF Resting, shutdown_broadcast, Goto
<1>6. ASSUME NEW m \in Machine, LeaveStep(m) \/ LoopStep(m)
      PROVE  Resting(k)'
  <2>1. CASE m # k
    <3>1. stopped' = stopped
      BY <1>6, ZenonT(60) DEF LeaveStep, gosched, gopark, goexit0, Leave, LoopStep, schedule_loop,
         glob_runq_get, runq_get, steal_work, FindFrame, Spin, StopSpinning, execute,
         execute_handoff, park_m, park_m_woken
    <3>2. park'[k] = park[k]
      <4>1. CASE park_m_woken(m)
        BY <1>1, <2>1, <4>1 DEF park_m_woken
      <4>2. CASE ~park_m_woken(m)
        BY <1>6, <4>2, ZenonT(60) DEF LeaveStep, gosched, gopark, goexit0, Leave, LoopStep, schedule_loop,
           glob_runq_get, runq_get, steal_work, FindFrame, Spin, StopSpinning, execute,
           execute_handoff, park_m
      <4> QED
        BY <4>1, <4>2
    <3>3. pc' = pc \/ \E l : pc' = [pc EXCEPT ![m] = l]
      BY <1>6, ZenonT(60) DEF LeaveStep, gosched, gopark, goexit0, Leave, LoopStep, schedule_loop,
         glob_runq_get, runq_get, steal_work, Found, Spin, StopSpinning, execute,
         execute_handoff, park_m, park_m_woken, Goto
    <3> QED
      BY <1>1, <2>1, <3>1, <3>2, <3>3, IndexFacts DEF Resting
  <2>2. CASE m = k
    <3>1. schedule_loop(k) \/ park_m_woken(k)
      BY <1>2, <1>6, <2>2, ZenonT(60) DEF LeaveStep, gosched, gopark, goexit0, Leave, LoopStep, schedule_loop,
         glob_runq_get, runq_get, steal_work, Spin, StopSpinning, execute, execute_handoff, park_m
    <3>2. CASE schedule_loop(k)
      BY <1>1, <1>2, <3>2, IndexFacts DEF Resting, schedule_loop, Goto
    <3>3. CASE park_m_woken(k)
      <4>1. stopped
        BY <1>1, <3>3 DEF park_m_woken, Resting
      <4> QED
        BY <1>1, <3>3, <4>1, IndexFacts DEF Resting, park_m_woken, Goto
    <3> QED
      BY <3>1, <3>2, <3>3
  <2> QED
    BY <2>1, <2>2
<1> QED
  BY <1>3, <1>4, <1>5, <1>6 DEF Next

(* Who gives an M its P, or takes it away. *)
LEMMA WiringStep ==
  ASSUME IInv, Next, NEW k \in Machine, mp_p'[k] # mp_p[k]
  PROVE  \/ \E t \in Thread : (wire_p(t) \/ new_m(t)) /\ newm[t] = k /\ mp_p'[k] = newp[t]
         \/ park_m(k) /\ runq = <<>> /\ mp_p'[k] = NoP
         \/ park_m_woken(k) /\ mp_p[k] = NoP /\ pidle # <<>> /\ mp_p'[k] = Head(pidle)
<1> USE DEF queueVars, idleVars, findVars, wakeVars
<1>1. mp_p \in [Thread -> Processor \cup {NoP}] /\ newm \in [Thread -> Machine \cup {M0}]
  BY DEF IInv, Shape, TypeOK
<1>2. ASSUME NEW t \in Thread, goroutine_create(t) \/ goready(t) \/ WakeStep(t)
      PROVE  (wire_p(t) \/ new_m(t)) /\ newm[t] = k /\ mp_p'[k] = newp[t]
  <2>1. wire_p(t) \/ new_m(t)
    BY <1>2 DEF goroutine_create, goready, WakeStep, wake_p, start_m, post
  <2>2. mp_p' = [mp_p EXCEPT ![newm[t]] = newp[t]]
    BY <2>1 DEF wire_p, new_m
  <2> QED
    BY <1>1, <2>1, <2>2, IndexFacts
<1>3. ~shutdown /\ ~shutdown_broadcast
  BY DEF shutdown, shutdown_broadcast
<1>4. ASSUME NEW m \in Machine, LeaveStep(m) \/ LoopStep(m)
      PROVE  \/ park_m(k) /\ runq = <<>> /\ mp_p'[k] = NoP
             \/ park_m_woken(k) /\ mp_p[k] = NoP /\ pidle # <<>> /\ mp_p'[k] = Head(pidle)
  <2>1. park_m(m) \/ park_m_woken(m)
    BY <1>4, ZenonT(60) DEF LeaveStep, gosched, gopark, goexit0, Leave, LoopStep, schedule_loop,
       glob_runq_get, runq_get, steal_work, FindFrame, Spin, StopSpinning, execute, execute_handoff
  <2>2. CASE park_m(m)
    <3>1. runq = <<>> /\ mp_p' = [mp_p EXCEPT ![m] = NoP]
      BY <2>2 DEF park_m
    <3> QED
      BY <1>1, <2>2, <3>1, IndexFacts
  <2>3. CASE park_m_woken(m)
    <3>1. mp_p[m] = NoP /\ pidle # <<>> /\ mp_p' = [mp_p EXCEPT ![m] = Head(pidle)]
      BY <2>3 DEF park_m_woken
    <3> QED
      BY <1>1, <2>3, <3>1, IndexFacts
  <2> QED
    BY <2>1, <2>2, <2>3
<1> QED
  BY <1>2, <1>3, <1>4 DEF Next

(* Who moves an M. *)
LEMMA MovingStep ==
  ASSUME IInv, Next, NEW k \in Machine, pc'[k] # pc[k]
  PROVE  \/ goroutine_create(k) \/ goready(k) \/ WakeStep(k) \/ LeaveStep(k) \/ LoopStep(k)
         \/ \E t \in Thread : new_m(t) /\ newm[t] = k /\ pc'[k] = "top"
<1> USE DEF queueVars, idleVars, findVars, wakeVars
<1>1. /\ newm \in [Thread -> Machine \cup {M0}]
      /\ pc \in [Thread -> Find \cup Wake \cup {"none", "top", "got", "run", "switch", "park",
                                              "asleep", "exited", "broadcast"}]
  BY DEF IInv, Shape, TypeOK
<1>2. ASSUME NEW t \in Thread, goroutine_create(t) \/ goready(t) \/ WakeStep(t)
      PROVE  t = k \/ (new_m(t) /\ newm[t] = k /\ pc'[k] = "top")
  <2>1. CASE new_m(t)
    BY <1>1, <2>1, IndexFacts DEF new_m
  <2>2. CASE ~new_m(t)
    <3>1. \E l : pc' = [pc EXCEPT ![t] = l]
      BY <1>2, <2>2 DEF goroutine_create, goready, WakeStep, wake_p, start_m, wire_p, post, Goto
    <3> QED
      BY <1>1, <3>1, IndexFacts
  <2> QED
    BY <2>1, <2>2
<1>3. ~shutdown /\ ~shutdown_broadcast
  BY <1>1, IndexFacts DEF shutdown, shutdown_broadcast, Goto
<1>4. ASSUME NEW m \in Machine, LeaveStep(m) \/ LoopStep(m)
      PROVE  m = k
  <2>1. pc' = pc \/ \E l : pc' = [pc EXCEPT ![m] = l]
    BY <1>4, ZenonT(60) DEF LeaveStep, gosched, gopark, goexit0, Leave, LoopStep, schedule_loop,
       glob_runq_get, runq_get, steal_work, Found, Spin, StopSpinning, execute,
       execute_handoff, park_m, park_m_woken, Goto
  <2> QED
    BY <1>1, <2>1, IndexFacts
<1> QED
  BY <1>2, <1>3, <1>4 DEF Next

(* How an M comes to exit or to sleep. *)
LEMMA RestBegins ==
  ASSUME IInv, Next, NEW k \in Machine, pc'[k] # pc[k], pc'[k] \in {"exited", "asleep"}
  PROVE  \/ pc'[k] = "exited" /\ schedule_loop(k) /\ stopped
         \/ pc'[k] = "asleep" /\ park_m(k) /\ runq = <<>>
<1>1. pc \in [Thread -> Find \cup Wake \cup {"none", "top", "got", "run", "switch", "park",
                                              "asleep", "exited", "broadcast"}]
  BY DEF IInv, Shape, TypeOK
<1>2. ~goroutine_create(k) /\ ~goready(k) /\ ~LeaveStep(k)
  BY <1>1, IndexFacts DEF goroutine_create, goready, LeaveStep, gosched, gopark, goexit0, Leave, Goto
<1>3. ~WakeStep(k)
  BY <1>1, IndexFacts DEF WakeStep, wake_p, start_m, wire_p, post, new_m, Goto
<1>4. LoopStep(k)
  BY <1>2, <1>3, MovingStep
<1>5. \A l : FindStart(l) \notin {"exited", "asleep"}
  BY DEF FindStart
<1>6. ~glob_runq_get(k) /\ ~runq_get(k) /\ ~steal_work(k)
  BY <1>1, IndexFacts DEF glob_runq_get, runq_get, steal_work, Found, Goto
<1>7. ~Spin(k) /\ ~StopSpinning(k) /\ ~execute(k) /\ ~execute_handoff(k) /\ ~park_m_woken(k)
  BY <1>1, <1>5, IndexFacts DEF Spin, StopSpinning, execute, execute_handoff, park_m_woken, Goto
<1>8. schedule_loop(k) => pc'[k] = "exited" /\ stopped
  BY <1>1, <1>5, IndexFacts DEF schedule_loop, Goto
<1>9. park_m(k) => pc'[k] = "asleep" /\ runq = <<>>
  BY <1>1, IndexFacts DEF park_m, Goto
<1> QED
  BY <1>4, <1>6, <1>7, <1>8, <1>9 DEF LoopStep

(* Nobody forgets that the scheduler is stopped. *)
LEMMA StoppedStays ==
  ASSUME Next
  PROVE  /\ stopped => stopped'
         /\ stopped' # stopped => shutdown
<1> USE DEF queueVars, idleVars, findVars, wakeVars
<1>1. ASSUME NEW t \in Thread, goroutine_create(t) \/ goready(t) \/ WakeStep(t)
      PROVE  stopped' = stopped
  BY <1>1 DEF goroutine_create, goready, WakeStep, wake_p, start_m, wire_p, post, new_m
<1>2. ASSUME NEW m \in Machine, LeaveStep(m) \/ LoopStep(m)
      PROVE  stopped' = stopped
  BY <1>2, ZenonT(60) DEF LeaveStep, gosched, gopark, goexit0, Leave, LoopStep, schedule_loop,
     glob_runq_get, runq_get, steal_work, FindFrame, Spin, StopSpinning, execute,
     execute_handoff, park_m, park_m_woken
<1>3. shutdown_broadcast => stopped' = stopped
  BY DEF shutdown_broadcast
<1>4. shutdown => stopped'
  BY DEF shutdown
<1> QED
  BY <1>1, <1>2, <1>3, <1>4 DEF Next

(* An M that nobody has given a P has none, or one without work. *)
LEMMA UnwiredStep ==
  ASSUME IInv, Next, NEW k \in Machine, Resting(k), Unwired(k),
         \A t \in Thread : wire_p(t) \/ new_m(t) => newm[t] # k
  PROVE  Unwired(k)'
<1>1. /\ mp_p \in [Thread -> Processor \cup {NoP}] /\ pidle \in Seq(Processor)
      /\ park \in [Machine -> Nat]
  BY DEF IInv, Shape, TypeOK
<1>2. pc[k] \in {"asleep", "top", "exited"}
  BY DEF Resting
<1>3. CASE mp_p'[k] = mp_p[k]
  <2>1. ~stopped' => mp_p'[k] = NoP
    BY <1>3, StoppedStays DEF Unwired
  <2>2. ASSUME mp_p[k] # NoP PROVE Empty(mp_p[k])'
    <3>1. PICK p \in Processor : p = mp_p[k]
      BY <1>1, <2>2, IndexFacts
    <3>2. Empty(p)
      BY <2>2, <3>1 DEF Unwired
    <3>3. \A m \in Machine : mp_p[m] = p => m = k
      BY <3>1, IndexFacts DEF IInv, Shape, OwnerInv
    <3>4. \A m \in Machine : mp_p[m] = p => pc[m] \notin {"run", "switch"} /\ ~steal_work(m)
      BY <1>2, <3>3 DEF steal_work
    <3>5. Empty(p)'
      BY <3>2, <3>4, EmptyStep
    <3> QED
      BY <1>3, <3>1, <3>5 DEF Empty
  <2> QED
    BY <1>3, <2>1, <2>2 DEF Unwired, Empty
<1>4. CASE mp_p'[k] # mp_p[k]
  <2>1. park_m_woken(k) /\ mp_p[k] = NoP /\ pidle # <<>> /\ mp_p'[k] = Head(pidle)
    BY <1>2, <1>4, WiringStep DEF park_m
  <2>2. stopped /\ stopped'
    BY <1>1, <2>1, StoppedStays DEF Resting, park_m_woken
  <2>3. Head(pidle) \in Processor /\ Head(pidle) \in Range(pidle)
    BY <1>1, <2>1, HeadTailFacts
  <2>4. Empty(Head(pidle))
    BY <2>3 DEF IInv, Shape, WorkInv, OwnerInv
  <2> QED
    BY <2>1, <2>2, <2>4 DEF Unwired, Empty, park_m_woken, queueVars
<1> QED
  BY <1>3, <1>4

(* The queue of a P without an M, or of an M about to park, stays empty. *)
LEMMA WorkStep ==
  ASSUME IInv, Next
  PROVE  WorkInv'
<1> USE DEF queueVars, idleVars, findVars, wakeVars
<1>1. /\ mp_p \in [Thread -> Processor \cup {NoP}] /\ pidle \in Seq(Processor)
      /\ newm \in [Thread -> Machine \cup {M0}] /\ victims \in [Machine -> SUBSET Processor]
      /\ local \in [Processor -> Seq(Goroutine)]
      /\ pc \in [Thread -> Find \cup Wake \cup {"none", "top", "got", "run", "switch", "park",
                                              "asleep", "exited", "broadcast"}]
  BY DEF IInv, Shape, TypeOK
<1>2. ASSUME NEW p \in Processor, \A t \in Thread : mp_p'[t] # p
      PROVE  Empty(p)'
  <2>1. CASE \A t \in Thread : mp_p[t] # p
    <3>1. Empty(p)
      BY <2>1 DEF IInv, Shape, WorkInv
    <3> QED
      BY <2>1, <3>1, EmptyStep, IndexFacts
  <2>2. CASE \E t \in Thread : mp_p[t] = p
    <3>1. PICK k \in Machine : mp_p[k] = p
      BY <2>2, IndexFacts DEF IInv, Shape, OwnerInv
    <3>2. mp_p'[k] # mp_p[k]
      BY <1>2, <3>1, IndexFacts
    <3>3. \A m \in Machine : mp_p[m] = p => m = k
      BY <3>1, IndexFacts DEF IInv, Shape, OwnerInv
    <3>4. CASE park_m(k)
      <4>1. pc[k] = "park" /\ UNCHANGED <<local, runnext>>
        BY <3>4 DEF park_m
      <4>2. Empty(p)
        BY <3>1, <4>1 DEF IInv, Shape, WorkInv
      <4> QED
        BY <4>1, <4>2 DEF Empty
    <3>5. ASSUME NEW t \in Thread, wire_p(t) \/ new_m(t), newm[t] = k
          PROVE  Empty(p)'
      <4>1. Unwired(k) /\ UNCHANGED <<local, runnext>>
        BY <3>1, <3>5, IndexFacts DEF wire_p, new_m, IInv, Shape, WakerInv, WakerOf, OwnerInv
      <4>2. Empty(p)
        BY <3>1, <4>1, IndexFacts DEF Unwired
      <4> QED
        BY <4>1, <4>2 DEF Empty
    <3> QED
      BY <3>1, <3>2, <3>4, <3>5, WiringStep, IndexFacts
  <2> QED
    BY <2>1, <2>2
<1>3. ASSUME NEW k \in Machine, pc'[k] \in {"global", "steal", "park"}
      PROVE  Empty(mp_p[k])' /\ (pc'[k] = "steal" => mp_p'[k] \notin victims'[k])
  <2>1. CASE pc'[k] = pc[k] /\ ~LoopStep(k)
    <3>1. mp_p'[k] = mp_p[k]
      <4>1. \A t \in Thread : wire_p(t) \/ new_m(t) => newm[t] # k
        BY <1>3, <2>1 DEF wire_p, new_m, IInv, Shape, WakerInv, WakerOf, Resting
      <4> QED
        BY <2>1, <4>1, WiringStep DEF LoopStep
    <3>2. PICK p \in Processor : p = mp_p[k]
      BY <1>3, <2>1, HasP
    <3>3. Empty(p)
      BY <1>3, <2>1, <3>2 DEF IInv, Shape, WorkInv
    <3>4. \A m \in Machine : mp_p[m] = p => m = k
      BY <3>2, IndexFacts DEF IInv, Shape, OwnerInv
    <3>5. \A m \in Machine : mp_p[m] = p => pc[m] \notin {"run", "switch"} /\ ~steal_work(m)
      BY <1>3, <2>1, <3>4 DEF LoopStep
    <3>6. Empty(p)'
      BY <3>3, <3>5, EmptyStep
    <3>7. victims'[k] = victims[k]
      <4>1. ASSUME NEW t \in Thread, goroutine_create(t) \/ goready(t) \/ WakeStep(t)
            PROVE  victims' = victims
        BY <4>1 DEF goroutine_create, goready, WakeStep, wake_p, start_m, wire_p, post, new_m
      <4>2. ASSUME NEW m \in Machine, LeaveStep(m)
            PROVE  victims' = victims
        BY <4>2 DEF LeaveStep, gosched, gopark, goexit0, Leave
      <4>3. shutdown \/ shutdown_broadcast => victims' = victims
        BY DEF shutdown, shutdown_broadcast
      <4>4. ASSUME NEW m \in Machine, LoopStep(m)
            PROVE  victims' = victims \/ \E S : victims' = [victims EXCEPT ![m] = S]
        BY <4>4, ZenonT(60) DEF LoopStep, schedule_loop, glob_runq_get, runq_get, steal_work, Spin,
           StopSpinning, execute, execute_handoff, park_m, park_m_woken
      <4> QED
        BY <1>1, <2>1, <4>1, <4>2, <4>3, <4>4 DEF Next
    <3> QED
      BY <1>3, <2>1, <3>1, <3>2, <3>6, <3>7 DEF IInv, Shape, WorkInv, Empty
  <2>2. CASE LoopStep(k)
    <3>1. \A l : FindStart(l) \notin {"global", "steal", "park"}
      BY DEF FindStart
    <3>2. glob_runq_get(k) \/ runq_get(k) \/ steal_work(k) \/ StopSpinning(k)
      BY <1>1, <1>3, <2>2, <3>1, IndexFacts DEF LoopStep, schedule_loop, Spin, execute,
         execute_handoff, park_m, park_m_woken, Goto
    <3>3. mp_p[k] \in Processor /\ mp_p' = mp_p
      BY <3>2, HasP DEF glob_runq_get, runq_get, steal_work, StopSpinning, FindFrame
    <3>4. CASE glob_runq_get(k)
      <4>1. /\ UNCHANGED <<local, runnext>> /\ pc[k] = "global" /\ pc'[k] = "steal"
            /\ victims' = [victims EXCEPT ![k] = Processor \ {mp_p[k]}]
        BY <1>1, <1>3, <3>4, IndexFacts DEF glob_runq_get, Found, Goto
      <4>2. Empty(mp_p[k])
        BY <4>1 DEF IInv, Shape, WorkInv
      <4> QED
        BY <1>1, <3>3, <4>1, <4>2 DEF Empty
    <3>5. CASE runq_get(k)
      <4>1. /\ UNCHANGED <<local, runnext>> /\ Empty(mp_p[k]) /\ pc'[k] = "global"
        BY <1>1, <1>3, <3>5, IndexFacts DEF runq_get, Found, Goto, Empty
      <4> QED
        BY <3>3, <4>1 DEF Empty
    <3>6. CASE steal_work(k)
      <4>1. /\ UNCHANGED <<local, runnext>> /\ pc[k] = "steal"
            /\ \E v \in victims[k] : victims' = [victims EXCEPT ![k] = @ \ {v}]
        BY <1>1, <1>3, <3>6, IndexFacts, ZenonT(60) DEF steal_work, Found, Goto
      <4>2. Empty(mp_p[k]) /\ mp_p[k] \notin victims[k]
        BY <4>1 DEF IInv, Shape, WorkInv
      <4> QED
        BY <1>1, <3>3, <4>1, <4>2 DEF Empty
    <3>7. CASE StopSpinning(k)
      <4>1. UNCHANGED <<local, runnext>> /\ pc[k] = "steal" /\ pc'[k] = "park"
        BY <1>1, <3>7, IndexFacts DEF StopSpinning, Goto
      <4>2. Empty(mp_p[k])
        BY <4>1 DEF IInv, Shape, WorkInv
      <4> QED
        BY <3>3, <4>1, <4>2 DEF Empty
    <3> QED
      BY <3>2, <3>4, <3>5, <3>6, <3>7
  <2>3. CASE pc'[k] # pc[k] /\ ~LoopStep(k)
    BY <1>1, <1>3, <2>3, MovingStep, IndexFacts DEF goroutine_create, goready, WakeStep, wake_p,
       start_m, wire_p, post, new_m, LeaveStep, gosched, gopark, goexit0, Leave, Goto
  <2> QED
    BY <2>1, <2>2, <2>3
<1> QED
  BY <1>2, <1>3 DEF WorkInv

-----------------------------------------------------------------------------
(* Machines *)

(* Who changes the idle list. *)
LEMMA IdleStep ==
  ASSUME IInv, Next
  PROVE  /\ mnext' # mnext => \E t \in Thread : start_m(t) /\ midle = <<>> /\ mnext' = mnext + 1
         /\ \/ midle' = midle
            \/ \E t \in Thread : start_m(t) /\ midle # <<>> /\ midle' = Tail(midle)
            \/ \E m \in Machine : park_m(m) /\ runq = <<>> /\ midle' = <<m>> \o midle
<1> USE DEF queueVars, idleVars, findVars, wakeVars
<1>1. ASSUME NEW t \in Thread, goroutine_create(t) \/ goready(t) \/ WakeStep(t), ~start_m(t)
      PROVE  UNCHANGED <<midle, mnext>>
  BY <1>1 DEF goroutine_create, goready, WakeStep, wake_p, wire_p, post, new_m
<1>2. ASSUME NEW t \in Thread, start_m(t)
      PROVE  \/ midle = <<>> /\ mnext' = mnext + 1 /\ midle' = midle
             \/ midle # <<>> /\ midle' = Tail(midle) /\ mnext' = mnext
  BY <1>2 DEF start_m
<1>3. shutdown \/ shutdown_broadcast => UNCHANGED <<midle, mnext>>
  BY DEF shutdown, shutdown_broadcast
<1>4. ASSUME NEW m \in Machine, LeaveStep(m) \/ LoopStep(m)
      PROVE  mnext' = mnext /\ (midle' = midle \/ (park_m(m) /\ runq = <<>> /\ midle' = <<m>> \o midle))
  BY <1>4, ZenonT(60) DEF LeaveStep, gosched, gopark, goexit0, Leave, LoopStep, schedule_loop,
     glob_runq_get, runq_get, steal_work, FindFrame, Spin, StopSpinning, execute,
     execute_handoff, park_m, park_m_woken
<1> QED
  BY <1>1, <1>2, <1>3, <1>4 DEF Next, WakeStep

(* What the idle list holds after a step. *)
LEMMA IdleFacts ==
  ASSUME IInv, Next
  PROVE  /\ IsInjective(midle')
         /\ \A m \in Range(midle') :
              m \in Machine /\ (m \in Range(midle) \/ (park_m(m) /\ runq = <<>>))
         /\ \A m \in Range(midle) :
              m \in Range(midle') \/ \E t \in Thread : start_m(t) /\ midle # <<>> /\ m = Head(midle)
         /\ \A m \in Machine : park_m(m) /\ runq = <<>> => m \in Range(midle')
         /\ mnext \in Nat /\ mnext' \in Nat /\ mnext <= mnext'
<1>1. midle \in Seq(Machine) /\ mnext \in Nat /\ IsInjective(midle)
  BY SchedAssumption DEF IInv, Shape, TypeOK, MachineInv, MachineOf
<1>2. mnext' \in Nat /\ mnext <= mnext'
  BY <1>1, IdleStep
<1>3. ASSUME NEW m \in Machine, park_m(m), runq = <<>>
      PROVE  midle' = <<m>> \o midle /\ m \in Range(midle')
  <2>1. midle' = <<m>> \o midle
    BY <1>3 DEF park_m
  <2>2. Range(<<m>> \o midle) = Range(midle) \cup {m}
    BY <1>1, PushFacts
  <2> QED
    BY <2>1, <2>2
<1>5. ASSUME NEW t \in Thread, start_m(t), midle # <<>>, midle' = Tail(midle)
      PROVE  /\ IsInjective(midle')
             /\ Range(midle) = Range(midle') \cup {Head(midle)}
  BY <1>1, <1>5, HeadTailFacts
<1>6. ASSUME NEW m \in Machine, park_m(m), runq = <<>>, midle' = <<m>> \o midle
      PROVE  IsInjective(midle') /\ Range(midle') = Range(midle) \cup {m}
  <2>1. m \notin Range(midle)
    BY <1>6 DEF park_m, IInv, Shape, MachineInv, MachineOf, Resting
  <2> QED
    BY <1>1, <1>6, <2>1, PushFacts
<1>7. Range(midle) \subseteq Machine
  BY <1>1, RangeFacts
<1>8. IsInjective(midle')
  BY <1>1, <1>5, <1>6, IdleStep
<1>9. \A m \in Range(midle') : m \in Machine /\ (m \in Range(midle) \/ (park_m(m) /\ runq = <<>>))
  BY <1>5, <1>6, <1>7, IdleStep
<1>10. ASSUME NEW m \in Range(midle), m \notin Range(midle')
       PROVE  \E t \in Thread : start_m(t) /\ midle # <<>> /\ m = Head(midle)
  <2>1. PICK t \in Thread : start_m(t) /\ midle # <<>> /\ midle' = Tail(midle)
    BY <1>6, <1>10, IdleStep
  <2>2. m = Head(midle)
    BY <1>5, <1>10, <2>1
  <2> QED
    BY <2>1, <2>2
<1>11. \A m \in Range(midle) :
         m \in Range(midle') \/ \E t \in Thread : start_m(t) /\ midle # <<>> /\ m = Head(midle)
  BY <1>10, Zenon
<1>12. \A m \in Machine : park_m(m) /\ runq = <<>> => m \in Range(midle')
  BY <1>3
<1> QED
  BY <1>1, <1>2, <1>8, <1>9, <1>11, <1>12, Zenon

(* An M whose thread has not started does nothing. *)
LEMMA NoStep ==
  ASSUME NEW k, pc[k] = "none"
  PROVE  /\ ~goroutine_create(k) /\ ~goready(k) /\ ~WakeStep(k) /\ ~LeaveStep(k) /\ ~LoopStep(k)
<1>1. ~goroutine_create(k) /\ ~goready(k) /\ ~LeaveStep(k)
  BY DEF goroutine_create, goready, LeaveStep, gosched, gopark, goexit0, Leave
<1>2. ~WakeStep(k)
  BY DEF WakeStep, wake_p, start_m, wire_p, post, new_m
<1>3. ~LoopStep(k)
  BY DEF LoopStep, schedule_loop, glob_runq_get, runq_get, steal_work, Spin, StopSpinning,
     execute, execute_handoff, park_m, park_m_woken
<1> QED
  BY <1>1, <1>2, <1>3

(* A waker keeps what it holds while others move. *)
LEMMA WakerOther ==
  ASSUME IInv, Next, NEW t \in Thread, newm'[t] = newm[t], newp'[t] = newp[t],
         \/ pc'[t] = pc[t]
         \/ {pc[t], pc'[t]} \cap {"start", "wire", "post", "new"} = {}
  PROVE  WakerOf(t)'
<1>0. ~wire_p(t) /\ ~post(t) /\ ~new_m(t)
  <2>1. pc \in [Thread -> Find \cup Wake \cup {"none", "top", "got", "run", "switch", "park",
                                              "asleep", "exited", "broadcast"}]
    BY DEF IInv, Shape, TypeOK
  <2> QED
    BY <2>1 DEF wire_p, post, new_m, Goto
<1>1. WakerOf(t) /\ newm[t] \in Machine \cup {M0} /\ mnext \in Nat
  BY SchedAssumption DEF IInv, Shape, WakerInv, TypeOK
<1>2. \A u \in Thread : u # t /\ newm[t] # M0 => newm[u] # newm[t]
  BY DEF IInv, Shape, WakerInv
<1>3. PICK k \in Machine \cup {M0} : k = newm[t]
  BY <1>1
<1>4. k \notin Range(midle')
  <2>1. k \notin Range(midle)
    BY <1>1, <1>3 DEF WakerOf
  <2>2. k \in Machine => pc[k] # "park"
    BY <1>1, <1>3, IndexFacts DEF WakerOf, Resting
  <2> QED
    BY <2>1, <2>2, IdleFacts DEF park_m
<1>5. k < mnext'
  BY <1>1, <1>3, IdleFacts, IndexFacts DEF WakerOf, M0
<1>6. ASSUME pc[t] = "new" PROVE pc'[k] = "none"
  <2>1. pc[k] = "none" /\ k \in Machine
    BY <1>1, <1>3, <1>6 DEF WakerOf
  <2>2. \A u \in Thread : new_m(u) => newm[u] # k
    BY <1>0, <1>2, <1>3, <2>1, IndexFacts
  <2> QED
    BY <2>1, <2>2, MovingStep, NoStep
<1>7. ASSUME pc[t] \in {"wire", "post"} PROVE Resting(k)'
  <2>1. Resting(k) /\ k \in Machine
    BY <1>1, <1>3, <1>7 DEF WakerOf
  <2>2. \A u \in Thread : post(u) => newm[u] # k
    BY <1>0, <1>2, <1>3, <2>1, IndexFacts
  <2> QED
    BY <2>1, <2>2, RestingStep
<1>8. ASSUME pc[t] = "wire" PROVE Unwired(k)'
  <2>1. Resting(k) /\ Unwired(k) /\ k \in Machine
    BY <1>1, <1>3, <1>8 DEF WakerOf
  <2>2. \A u \in Thread : wire_p(u) \/ new_m(u) => newm[u] # k
    BY <1>0, <1>2, <1>3, <2>1, IndexFacts
  <2> QED
    BY <2>1, <2>2, UnwiredStep
<1>9. newm'[t] = k
  BY <1>3
<1>10. pc'[t] = "wire" => Unwired(newm[t])'
  BY <1>8, <1>9 DEF Unwired, Empty
<1>11. pc'[t] \in {"wire", "post"} => Resting(newm[t])'
  BY <1>7, <1>9 DEF Resting
<1>12. /\ newm'[t] # M0 <=> pc'[t] \in {"wire", "post", "new"}
       /\ newp'[t] # NoP <=> pc'[t] \in {"start", "wire", "new"}
  BY <1>1 DEF WakerOf
<1> QED
  BY <1>4, <1>5, <1>6, <1>9, <1>10, <1>11, <1>12 DEF WakerOf

(* Every P and M in the hands of a waker is where it should be. *)
LEMMA WakerStep ==
  ASSUME IInv, Next
  PROVE  WakerInv'
<1> USE DEF queueVars, idleVars, findVars, wakeVars
<1>1. /\ newp \in [Thread -> Processor \cup {NoP}] /\ newm \in [Thread -> Machine \cup {M0}]
      /\ pidle \in Seq(Processor) /\ midle \in Seq(Machine) /\ mnext \in Nat /\ mnext >= 1
      /\ pc \in [Thread -> Find \cup Wake \cup {"none", "top", "got", "run", "switch", "park",
                                              "asleep", "exited", "broadcast"}]
  BY SchedAssumption DEF IInv, Shape, TypeOK
<1>2. /\ \A t \in Thread : WakerOf(t)
      /\ \A t, u \in Thread : newm[t] = newm[u] /\ newm[t] # M0 => t = u
  BY DEF IInv, Shape, WakerInv
<1>3. M0 \notin Range(midle') /\ M0 < mnext' /\ mnext <= mnext'
  BY <1>1, IdleFacts, IndexFacts DEF M0
<1>4. ASSUME UNCHANGED <<newm, newp>>,
             \A t \in Thread : \/ pc'[t] = pc[t]
                              \/ {pc[t], pc'[t]} \cap {"start", "wire", "post", "new"} = {}
      PROVE  WakerInv'
  <2>1. \A t \in Thread : WakerOf(t)'
    BY <1>4, WakerOther
  <2> QED
    BY <1>2, <1>4, <2>1 DEF WakerInv
<1>5. ASSUME NEW t \in Thread, goroutine_create(t) \/ goready(t)
      PROVE  WakerInv'
  <2>1. UNCHANGED <<newm, newp>> /\ pc[t] = "run" /\ pc' = [pc EXCEPT ![t] = "wake"]
    BY <1>5 DEF goroutine_create, goready, Goto
  <2> QED
    BY <1>1, <1>4, <2>1
<1>6. CASE shutdown \/ shutdown_broadcast
  <2>1. UNCHANGED <<newm, newp>> /\ pc[M0] \in {"run", "broadcast"}
        /\ \E l \in {"run", "broadcast"} : pc' = [pc EXCEPT ![M0] = l]
    BY <1>6 DEF shutdown, shutdown_broadcast, Goto
  <2> QED
    BY <1>1, <1>4, <2>1
<1>7. ASSUME NEW m \in Machine, LeaveStep(m) \/ LoopStep(m)
      PROVE  WakerInv'
  <2>1. UNCHANGED <<newm, newp>>
    BY <1>7, ZenonT(60) DEF LeaveStep, gosched, gopark, goexit0, Leave, LoopStep, schedule_loop,
       glob_runq_get, runq_get, steal_work, FindFrame, Spin, StopSpinning, execute,
       execute_handoff, park_m, park_m_woken
  <2>2. \A k : FindStart(k) \notin {"start", "wire", "post", "new"}
    BY DEF FindStart
  <2>3. pc[m] \notin {"start", "wire", "post", "new"}
    BY <1>7, ZenonT(60) DEF LeaveStep, gosched, gopark, goexit0, Leave, LoopStep, schedule_loop,
       glob_runq_get, runq_get, steal_work, Spin, StopSpinning, execute,
       execute_handoff, park_m, park_m_woken
  <2>4. pc' = pc \/ \E l : l \notin {"start", "wire", "post", "new"} /\ pc' = [pc EXCEPT ![m] = l]
    BY <1>7, <2>2, ZenonT(60) DEF LeaveStep, gosched, gopark, goexit0, Leave, LoopStep, schedule_loop,
       glob_runq_get, runq_get, steal_work, Found, Spin, StopSpinning, execute,
       execute_handoff, park_m, park_m_woken, Goto
  <2> QED
    BY <1>1, <1>4, <2>1, <2>3, <2>4, IndexFacts
<1>8. ASSUME NEW t \in Thread, wake_p(t)
      PROVE  WakerInv'
  <2>1. CASE pidle = <<>> \/ nmspinning > 0
    <3>1. UNCHANGED <<newm, newp>> /\ pc[t] = "wake" /\ pc' = [pc EXCEPT ![t] = "run"]
      BY <1>8, <2>1 DEF wake_p, Goto
    <3> QED
      BY <1>1, <1>4, <3>1
  <2>2. CASE ~(pidle = <<>> \/ nmspinning > 0)
    <3>1. /\ newm' = newm /\ newp' = [newp EXCEPT ![t] = Head(pidle)] /\ pidle # <<>>
          /\ pc[t] = "wake" /\ pc' = [pc EXCEPT ![t] = "start"]
      BY <1>8, <2>2 DEF wake_p, Goto
    <3>2. \A u \in Thread \ {t} : WakerOf(u)'
      BY <1>1, <3>1, WakerOther
    <3>3. Head(pidle) \in Processor
      BY <1>1, <3>1, PushPop
    <3>4. newm'[t] = M0 /\ newp'[t] # NoP /\ pc'[t] = "start"
      BY <1>1, <1>2, <3>1, <3>3, IndexFacts DEF WakerOf
    <3>5. WakerOf(t)'
      BY <1>3, <3>4 DEF WakerOf
    <3> QED
      BY <1>2, <3>1, <3>2, <3>5 DEF WakerInv
  <2> QED
    BY <2>1, <2>2
<1>9. ASSUME NEW t \in Thread, start_m(t)
      PROVE  WakerInv'
  <2>1. /\ pc[t] = "start" /\ newp' = newp
        /\ \/ /\ midle # <<>> /\ midle' = Tail(midle) /\ newm' = [newm EXCEPT ![t] = Head(midle)]
              /\ pc' = [pc EXCEPT ![t] = "wire"] /\ mnext' = mnext
           \/ /\ mnext <= MaxM /\ midle' = midle /\ newm' = [newm EXCEPT ![t] = mnext]
              /\ pc' = [pc EXCEPT ![t] = "new"] /\ mnext' = mnext + 1
        /\ UNCHANGED <<mp_p, park, stopped, local, runnext>>
    BY <1>9 DEF start_m, Goto
  <2>2. \A u \in Thread \ {t} : WakerOf(u)' /\ newm'[u] = newm[u]
    BY <1>1, <2>1, WakerOther
  <2>3. CASE /\ midle # <<>> /\ midle' = Tail(midle) /\ newm' = [newm EXCEPT ![t] = Head(midle)]
             /\ pc' = [pc EXCEPT ![t] = "wire"] /\ mnext' = mnext
    <3>1. PICK k \in Machine : k = Head(midle)
      BY <1>1, <2>3, PushPop
    <3>2. k \in Range(midle) /\ k \notin Range(midle')
      BY <1>1, <2>3, <3>1, HeadTailFacts DEF IInv, Shape, MachineInv, MachineOf
    <3>3. Resting(k) /\ Unwired(k) /\ k < mnext
      BY <3>2 DEF IInv, Shape, MachineInv, MachineOf
    <3>4. k # t
      BY <2>1, <3>3 DEF Resting
    <3>5. pc'[k] = pc[k] /\ pc'[t] = "wire" /\ newm'[t] = k /\ k # M0 /\ newp'[t] = newp[t]
      BY <1>1, <2>1, <2>3, <3>1, <3>4, IndexFacts
    <3>6. Resting(k)' /\ Unwired(k)'
      BY <2>1, <3>3, <3>5 DEF Resting, Unwired, Empty
    <3>7. Resting(newm[t])' /\ Unwired(newm[t])'
      BY <3>5, <3>6 DEF Resting, Unwired, Empty
    <3>8. newp[t] # NoP
      BY <1>2, <2>1 DEF WakerOf
    <3>9. WakerOf(t)'
      BY <2>3, <3>2, <3>3, <3>5, <3>7, <3>8 DEF WakerOf
    <3>10. \A u \in Thread : newm[u] # k
      BY <1>2, <3>2 DEF WakerOf
    <3> QED
      BY <1>2, <2>2, <3>5, <3>9, <3>10 DEF WakerInv
  <2>4. CASE /\ mnext <= MaxM /\ midle' = midle /\ newm' = [newm EXCEPT ![t] = mnext]
             /\ pc' = [pc EXCEPT ![t] = "new"] /\ mnext' = mnext + 1
    <3>1. PICK k \in Machine : k = mnext
      BY <1>1, <2>4, SchedAssumption DEF Machine
    <3>2. pc[k] = "none"
      BY <1>1, <3>1 DEF IInv, Shape, MachineInv, MachineOf
    <3>3. k \notin Range(midle)
      BY <1>1, <3>1 DEF IInv, Shape, MachineInv, MachineOf
    <3>4. k # t
      BY <2>1, <3>2
    <3>5. pc'[k] = "none" /\ pc'[t] = "new" /\ newm'[t] = k /\ k # M0 /\ newp'[t] = newp[t]
      BY <1>1, <2>1, <2>4, <3>1, <3>2, <3>4, IndexFacts
    <3>6. newp[t] # NoP
      BY <1>2, <2>1 DEF WakerOf
    <3>7. WakerOf(t)'
      BY <1>1, <2>4, <3>1, <3>3, <3>5, <3>6 DEF WakerOf
    <3>8. \A u \in Thread : newm[u] # k
      BY <1>1, <1>2, <3>1, IndexFacts DEF WakerOf, M0
    <3> QED
      BY <1>2, <2>2, <3>5, <3>7, <3>8 DEF WakerInv
  <2> QED
    BY <2>1, <2>3, <2>4
<1>10. ASSUME NEW t \in Thread, wire_p(t)
       PROVE  WakerInv'
  <2>1. /\ pc[t] = "wire" /\ newp' = [newp EXCEPT ![t] = NoP] /\ newm' = newm
        /\ pc' = [pc EXCEPT ![t] = "post"] /\ UNCHANGED <<midle, mnext>>
    BY <1>10 DEF wire_p, Goto
  <2>2. \A u \in Thread \ {t} : WakerOf(u)'
    BY <1>1, <2>1, WakerOther
  <2>3. PICK k \in Machine : k = newm[t]
    BY <1>1, <1>2, <2>1 DEF WakerOf
  <2>4. Resting(k) /\ k # M0
    BY <1>2, <2>1, <2>3, IndexFacts DEF WakerOf
  <2>5. \A u \in Thread : post(u) => newm[u] # k
    BY <1>2, <2>1, <2>3, <2>4 DEF post
  <2>6. Resting(k)'
    BY <2>4, <2>5, RestingStep
  <2>7. Resting(newm[t])'
    BY <2>1, <2>3, <2>6 DEF Resting
  <2>8. pc'[t] = "post" /\ newp'[t] = NoP
    BY <1>1, <2>1
  <2>9. WakerOf(t)'
    BY <1>2, <2>1, <2>3, <2>4, <2>7, <2>8 DEF WakerOf
  <2> QED
    BY <1>2, <2>1, <2>2, <2>9 DEF WakerInv
<1>11. ASSUME NEW t \in Thread, post(t) \/ new_m(t)
       PROVE  WakerInv'
  <2>1. /\ pc[t] \in {"post", "new"} /\ newm' = [newm EXCEPT ![t] = M0]
        /\ newp' = newp \/ newp' = [newp EXCEPT ![t] = NoP]
        /\ pc[t] = "new" => newp'[t] = NoP
        /\ pc'[t] = "run"
        /\ \A u \in Thread \ {t} : pc'[u] = pc[u] \/ (pc[u] = "none" /\ pc'[u] = "top")
    <3>1. CASE post(t)
      BY <1>1, <3>1 DEF post, Goto
    <3>2. CASE new_m(t)
      <4>1. pc[newm[t]] = "none"
        BY <1>2, <3>2 DEF WakerOf, new_m
      <4> QED
        BY <1>1, <3>2, <4>1 DEF new_m
    <3> QED
      BY <1>11, <3>1, <3>2
  <2>2. \A u \in Thread \ {t} : WakerOf(u)' /\ newm'[u] = newm[u]
    BY <1>1, <2>1, WakerOther
  <2>3. newm'[t] = M0 /\ newp'[t] = NoP
    BY <1>1, <1>2, <2>1 DEF WakerOf
  <2>4. WakerOf(t)'
    BY <1>3, <2>1, <2>3 DEF WakerOf
  <2> QED
    BY <1>2, <2>2, <2>3, <2>4 DEF WakerInv
<1> QED
  BY <1>5, <1>6, <1>7, <1>8, <1>9, <1>10, <1>11 DEF Next, WakeStep

(* Who posts an M, and who takes the post. *)
LEMMA ParkStep ==
  ASSUME IInv, Next, NEW k \in Machine, park'[k] # park[k]
  PROVE  \/ \E t \in Thread : post(t) /\ newm[t] = k /\ park'[k] = park[k] + 1
         \/ park_m_woken(k) /\ park'[k] = park[k] - 1
         \/ stopped
<1> USE DEF queueVars, idleVars, findVars, wakeVars
<1>1. park \in [Machine -> Nat]
  BY DEF IInv, Shape, TypeOK
<1>2. ASSUME NEW t \in Thread, goroutine_create(t) \/ goready(t) \/ WakeStep(t)
      PROVE  post(t) /\ newm[t] = k /\ park'[k] = park[k] + 1
  <2>1. post(t)
    BY <1>2 DEF goroutine_create, goready, WakeStep, wake_p, start_m, wire_p, new_m
  <2> QED
    BY <1>1, <2>1 DEF post
<1>3. shutdown_broadcast => stopped
  BY DEF shutdown_broadcast, IInv, Shape, MachineInv
<1>4. ~shutdown
  BY DEF shutdown
<1>5. ASSUME NEW m \in Machine, LeaveStep(m) \/ LoopStep(m)
      PROVE  park_m_woken(k) /\ park'[k] = park[k] - 1
  <2>1. park_m_woken(m)
    BY <1>5, ZenonT(60) DEF LeaveStep, gosched, gopark, goexit0, Leave, LoopStep, schedule_loop,
       glob_runq_get, runq_get, steal_work, FindFrame, Spin, StopSpinning, execute,
       execute_handoff, park_m
  <2>2. park' = [park EXCEPT ![m] = @ - 1]
    BY <2>1 DEF park_m_woken
  <2> QED
    BY <1>1, <2>1, <2>2
<1> QED
  BY <1>2, <1>3, <1>4, <1>5 DEF Next

(* A waker goes on with the M it holds. *)
LEMMA WakerMoves ==
  ASSUME IInv, Next, NEW t \in Thread, pc[t] \in {"wire", "post", "new"}
  PROVE  \/ pc'[t] = pc[t] /\ newm'[t] = newm[t]
         \/ wire_p(t) /\ pc'[t] = "post" /\ newm'[t] = newm[t]
         \/ post(t)
         \/ new_m(t)
<1> USE DEF queueVars, idleVars, findVars, wakeVars
<1>1. /\ newm \in [Thread -> Machine \cup {M0}]
      /\ pc \in [Thread -> Find \cup Wake \cup {"none", "top", "got", "run", "switch", "park",
                                              "asleep", "exited", "broadcast"}]
  BY DEF IInv, Shape, TypeOK
<1>2. ASSUME NEW u \in Thread, goroutine_create(u) \/ goready(u) \/ wake_p(u) \/ start_m(u)
      PROVE  pc'[t] = pc[t] /\ newm'[t] = newm[t]
  <2>1. /\ pc[u] \notin {"wire", "post", "new"} /\ \E l : pc' = [pc EXCEPT ![u] = l]
        /\ newm' = newm \/ \E k : newm' = [newm EXCEPT ![u] = k]
    BY <1>2 DEF goroutine_create, goready, wake_p, start_m, Goto
  <2> QED
    BY <1>1, <2>1
<1>3. ASSUME NEW u \in Thread, wire_p(u) \/ post(u)
      PROVE  \/ pc'[t] = pc[t] /\ newm'[t] = newm[t]
             \/ wire_p(t) /\ pc'[t] = "post" /\ newm'[t] = newm[t]
             \/ post(t)
  BY <1>1, <1>3 DEF wire_p, post, Goto
<1>4. ASSUME NEW u \in Thread, new_m(u)
      PROVE  (pc'[t] = pc[t] /\ newm'[t] = newm[t]) \/ new_m(t)
  <2>1. pc[newm[u]] = "none"
    BY <1>4 DEF IInv, Shape, WakerInv, WakerOf, new_m
  <2> QED
    BY <1>1, <1>4, <2>1 DEF new_m
<1>5. CASE shutdown \/ shutdown_broadcast
  BY <1>1, <1>5 DEF shutdown, shutdown_broadcast, Goto
<1>6. ASSUME NEW m \in Machine, LeaveStep(m) \/ LoopStep(m)
      PROVE  pc'[t] = pc[t] /\ newm'[t] = newm[t]
  <2>1. newm' = newm
    BY <1>6, ZenonT(60) DEF LeaveStep, gosched, gopark, goexit0, Leave, LoopStep, schedule_loop,
       glob_runq_get, runq_get, steal_work, FindFrame, Spin, StopSpinning, execute,
       execute_handoff, park_m, park_m_woken
  <2>2. pc[m] \notin {"wire", "post", "new"}
    BY <1>6, ZenonT(60) DEF LeaveStep, gosched, gopark, goexit0, Leave, LoopStep, schedule_loop,
       glob_runq_get, runq_get, steal_work, Spin, StopSpinning, execute,
       execute_handoff, park_m, park_m_woken
  <2>3. pc' = pc \/ \E l : pc' = [pc EXCEPT ![m] = l]
    BY <1>6, ZenonT(60) DEF LeaveStep, gosched, gopark, goexit0, Leave, LoopStep, schedule_loop,
       glob_runq_get, runq_get, steal_work, Found, Spin, StopSpinning, execute,
       execute_handoff, park_m, park_m_woken, Goto
  <2> QED
    BY <1>1, <2>1, <2>2, <2>3
<1> QED
  BY <1>2, <1>3, <1>4, <1>5, <1>6 DEF Next, WakeStep

(* Every M is where it should be. *)
LEMMA MachineStep ==
  ASSUME IInv, Next
  PROVE  MachineInv'
<1> USE DEF queueVars, idleVars, findVars, wakeVars
<1>1. /\ newp \in [Thread -> Processor \cup {NoP}] /\ newm \in [Thread -> Machine \cup {M0}]
      /\ pidle \in Seq(Processor) /\ midle \in Seq(Machine) /\ mnext \in Nat /\ mnext >= 1
      /\ park \in [Machine -> Nat] /\ mp_p \in [Thread -> Processor \cup {NoP}]
      /\ pc \in [Thread -> Find \cup Wake \cup {"none", "top", "got", "run", "switch", "park",
                                              "asleep", "exited", "broadcast"}]
  BY SchedAssumption DEF IInv, Shape, TypeOK
<1>2. /\ \A t \in Thread : WakerOf(t)
      /\ \A t, u \in Thread : newm[t] = newm[u] /\ newm[t] # M0 => t = u
      /\ \A m \in Machine : MachineOf(m)
      /\ \A m \in Range(midle) : Resting(m) /\ Unwired(m) /\ m < mnext
  BY DEF IInv, Shape, WakerInv, MachineInv
<1>3. pc'[M0] \in {"run", "broadcast"} \cup Wake /\ (pc'[M0] = "broadcast" => stopped')
  <2>1. pc[M0] \in {"run", "broadcast"} \cup Wake /\ (pc[M0] = "broadcast" => stopped)
    BY DEF IInv, Shape, MachineInv
  <2>2. ASSUME NEW t \in Thread, goroutine_create(t) \/ goready(t) \/ WakeStep(t)
        PROVE  pc'[M0] = pc[M0] \/ pc'[M0] \in {"run"} \cup Wake
    <3>1. CASE new_m(t)
      BY <1>1, <1>2, <3>1, IndexFacts DEF new_m, WakerOf
    <3>2. CASE ~new_m(t)
      <4>1. \E l \in {"run"} \cup Wake : pc' = [pc EXCEPT ![t] = l]
        BY <2>2, <3>2 DEF goroutine_create, goready, WakeStep, wake_p, start_m, wire_p, post,
           Goto, Wake
      <4> QED
        BY <1>1, <4>1
    <3> QED
      BY <3>1, <3>2
  <2>3. ASSUME NEW m \in Machine, LeaveStep(m) \/ LoopStep(m)
        PROVE  pc'[M0] = pc[M0]
    <3>1. pc' = pc \/ \E l : pc' = [pc EXCEPT ![m] = l]
      BY <2>3, ZenonT(60) DEF LeaveStep, gosched, gopark, goexit0, Leave, LoopStep, schedule_loop,
         glob_runq_get, runq_get, steal_work, Found, Spin, StopSpinning, execute,
         execute_handoff, park_m, park_m_woken, Goto
    <3> QED
      BY <1>1, <3>1, IndexFacts
  <2>4. shutdown => stopped' /\ pc'[M0] = "broadcast"
    BY <1>1, IndexFacts DEF shutdown, Goto
  <2>5. shutdown_broadcast => pc'[M0] = "run"
    BY <1>1, IndexFacts DEF shutdown_broadcast, Goto
  <2> QED
    BY <2>1, <2>2, <2>3, <2>4, <2>5, StoppedStays DEF Next, Wake
<1>4. ASSUME NEW m \in Range(midle')
      PROVE  Resting(m)' /\ Unwired(m)' /\ m < mnext'
  <2>1. m \in Machine
    BY IdleFacts
  <2>2. CASE m \in Range(midle)
    <3>1. Resting(m) /\ Unwired(m) /\ m < mnext
      BY <1>2, <2>2
    <3>2. \A t \in Thread : newm[t] # m
      BY <1>2, <2>2 DEF WakerOf
    <3>3. m < mnext'
      BY <1>1, <2>1, <3>1, IdleFacts, IndexFacts
    <3> QED
      BY <2>1, <3>1, <3>2, <3>3, RestingStep, UnwiredStep
  <2>3. CASE park_m(m) /\ runq = <<>>
    <3>1. /\ pc[m] = "park" /\ pc'[m] = "asleep" /\ mp_p'[m] = NoP
          /\ UNCHANGED <<park, stopped, mnext>>
      BY <1>1, <2>1, <2>3, IndexFacts DEF park_m, Goto
    <3>2. ~stopped => park[m] = 0
      BY <1>2, <2>1, <3>1 DEF MachineOf
    <3>3. m < mnext
      BY <1>1, <1>2, <2>1, <3>1, IndexFacts DEF MachineOf
    <3> QED
      BY <3>1, <3>2, <3>3 DEF Resting, Unwired
  <2> QED
    BY <2>2, <2>3, IdleFacts
<1>5. ASSUME NEW m \in Machine
      PROVE  MachineOf(m)'
  <2>1. MachineOf(m) /\ m \in Nat
    BY <1>2, IndexFacts
  <2>2. mp_p'[m] = NoP /\ mp_p[m] # NoP => park_m(m) /\ pc'[m] = "asleep" /\ m \in Range(midle')
    <3>1. ASSUME NEW t \in Thread, wire_p(t) \/ new_m(t) PROVE newp[t] # NoP
      BY <1>2, <3>1 DEF wire_p, new_m, WakerOf
    <3>2. park_m(m) /\ runq = <<>> => pc'[m] = "asleep" /\ m \in Range(midle')
      BY <1>1, IdleFacts, IndexFacts DEF park_m, Goto
    <3> QED
      BY <3>1, <3>2, WiringStep
  <2>3. m >= mnext' => pc'[m] = "none"
    <3>1. ASSUME m >= mnext' PROVE pc'[m] = "none"
      <4>1. m >= mnext /\ pc[m] = "none"
        BY <1>1, <2>1, <3>1, IdleFacts DEF MachineOf
      <4>2. \A t \in Thread : newm[t] # m
        BY <1>1, <1>2, <2>1, <4>1, IndexFacts DEF WakerOf, M0
      <4> QED
        BY <4>1, <4>2, MovingStep, NoStep
    <3> QED
      BY <3>1
  <2>4. pc'[m] = "none" => ~spinning'[m]
    BY SpinStep DEF SpinInv, Find
  <2>5. pc'[m] = "exited" => stopped'
    <3>1. CASE pc'[m] = pc[m]
      BY <2>1, <3>1, StoppedStays DEF MachineOf
    <3>2. CASE pc'[m] = "exited" /\ pc'[m] # pc[m]
      <4>2. stopped
        BY <3>2, RestBegins
      <4> QED
        BY <4>2, StoppedStays
    <3> QED
      BY <3>1, <3>2
  <2>6. pc'[m] \notin {"none", "asleep", "exited"} /\ ~stopped' => mp_p'[m] # NoP
    <3>1. ASSUME pc'[m] \notin {"none", "asleep", "exited"}, ~stopped', mp_p'[m] = NoP
          PROVE  FALSE
      <4>1. mp_p[m] = NoP /\ ~stopped
        BY <2>2, <3>1, StoppedStays
      <4>2. pc[m] \in {"none", "asleep", "exited"}
        BY <2>1, <4>1 DEF MachineOf
      <4>3. pc[m] # "exited"
        BY <2>1, <4>1 DEF MachineOf
      <4>4. CASE pc[m] = "none"
        <5>1. PICK t \in Thread : new_m(t) /\ newm[t] = m
          BY <3>1, <4>4, MovingStep, NoStep
        <5>2. newp[t] \in Processor
          BY <1>1, <1>2, <5>1 DEF new_m, WakerOf
        <5>3. mp_p'[m] = newp[t]
          BY <1>1, <5>1, IndexFacts DEF new_m
        <5> QED
          BY <3>1, <5>2, <5>3, IndexFacts
      <4>5. CASE pc[m] = "asleep"
        <5>1. \A t \in Thread : new_m(t) => newm[t] # m
          BY <1>2, <4>5 DEF new_m, WakerOf
        <5>2. park_m_woken(m)
          BY <3>1, <4>5, <5>1, MovingStep
          DEF goroutine_create, goready, WakeStep, wake_p, start_m, wire_p, post, new_m,
              LeaveStep, gosched, gopark, goexit0, Leave, LoopStep, schedule_loop,
              glob_runq_get, runq_get, steal_work, Spin, StopSpinning, execute,
              execute_handoff, park_m
        <5>3. park[m] > 0 /\ park[m] # 0
          BY <1>1, <5>2 DEF park_m_woken
        <5>4. m \notin Range(midle)
          BY <1>2, <4>1, <5>3 DEF Resting
        <5>5. \A t \in Thread : ~(pc[t] \in {"wire", "new"} /\ newm[t] = m)
          BY <1>2, <4>1, <4>5, <5>3 DEF WakerOf, Resting
        <5>6. m < mnext
          BY <1>1, <2>1, <4>5 DEF MachineOf
        <5> QED
          BY <2>1, <4>1, <5>4, <5>5, <5>6 DEF MachineOf
      <4> QED
        BY <4>2, <4>3, <4>4, <4>5
    <3> QED
      BY <3>1
  <2>7. pc'[m] \notin {"none", "asleep", "exited", "top"} => mp_p'[m] # NoP
    <3>1. ASSUME pc'[m] \notin {"none", "asleep", "exited", "top"}, mp_p'[m] = NoP
          PROVE  FALSE
      <4>1. mp_p[m] = NoP
        BY <2>2, <3>1
      <4>2. pc[m] \in {"none", "asleep", "exited", "top"} /\ (pc[m] = "top" => stopped)
        BY <2>1, <4>1 DEF MachineOf
      <4>3. ~\E t \in Thread : new_m(t) /\ newm[t] = m /\ pc'[m] = "top"
        BY <3>1
      <4>4. schedule_loop(m) \/ park_m_woken(m)
        BY <3>1, <4>2, <4>3, MovingStep
        DEF goroutine_create, goready, WakeStep, wake_p, start_m, wire_p, post, new_m,
            LeaveStep, gosched, gopark, goexit0, Leave, LoopStep,
            glob_runq_get, runq_get, steal_work, Spin, StopSpinning, execute,
            execute_handoff, park_m
      <4> QED
        BY <1>1, <3>1, <4>2, <4>4, IndexFacts DEF schedule_loop, park_m_woken, Goto
    <3> QED
      BY <3>1
  <2>8. ASSUME m < mnext', mp_p'[m] = NoP
        PROVE  \/ m \in Range(midle')
               \/ \E t \in Thread : pc'[t] \in {"wire", "new"} /\ newm'[t] = m
    <3>1. CASE m >= mnext
      <4>1. PICK t \in Thread : start_m(t) /\ midle = <<>> /\ mnext' = mnext + 1
        BY <1>1, <2>1, <2>8, <3>1, IdleStep
      <4>2. m = mnext
        BY <1>1, <2>1, <2>8, <3>1, <4>1
      <4>3. pc'[t] = "new" /\ newm'[t] = m
        BY <1>1, <4>1, <4>2 DEF start_m, Goto
      <4> QED
        BY <4>3
    <3>2. CASE mp_p[m] # NoP
      BY <2>2, <2>8, <3>2
    <3>3. CASE m < mnext /\ mp_p[m] = NoP
      <4>1. CASE m \in Range(midle)
        <5>1. CASE m \notin Range(midle')
          <6>1. PICK t \in Thread : start_m(t) /\ midle # <<>> /\ m = Head(midle)
            BY <4>1, <5>1, IdleFacts
          <6>2. pc'[t] = "wire" /\ newm'[t] = m
            BY <1>1, <6>1 DEF start_m, Goto
          <6> QED
            BY <6>2
        <5> QED
          BY <5>1
      <4>2. CASE \E t \in Thread : pc[t] \in {"wire", "new"} /\ newm[t] = m
        <5>1. PICK t \in Thread : pc[t] \in {"wire", "new"} /\ newm[t] = m
          BY <4>2
        <5>2. newp[t] # NoP
          BY <1>2, <5>1 DEF WakerOf
        <5>3. ~wire_p(t) /\ ~new_m(t)
          BY <1>1, <2>8, <5>1, <5>2, IndexFacts DEF wire_p, new_m
        <5>4. pc'[t] = pc[t] /\ newm'[t] = newm[t]
          BY <5>1, <5>3, WakerMoves DEF post
        <5> QED
          BY <5>1, <5>4
      <4> QED
        BY <2>1, <3>3, <4>1, <4>2 DEF MachineOf
    <3> QED
      BY <1>1, <2>1, <3>1, <3>2, <3>3
  <2>9. ASSUME pc'[m] = "asleep", ~stopped', park'[m] = 0
        PROVE  \/ m \in Range(midle')
               \/ \E t \in Thread : pc'[t] \in {"wire", "post"} /\ newm'[t] = m
    <3>1. ~stopped
      BY <2>9, StoppedStays
    <3>2. CASE pc[m] # "asleep"
      <4>2. park_m(m) /\ runq = <<>>
        BY <2>9, <3>2, RestBegins
      <4> QED
        BY <4>2, IdleFacts
    <3>3. CASE pc[m] = "asleep"
      <4>1. ~park_m_woken(m)
        BY <1>1, <2>9, IndexFacts DEF park_m_woken, Goto
      <4>2. park[m] = 0
        BY <1>1, <2>9, <3>1, <4>1, ParkStep
      <4>3. CASE m \in Range(midle)
        <5>1. CASE m \notin Range(midle')
          <6>1. PICK t \in Thread : start_m(t) /\ midle # <<>> /\ m = Head(midle)
            BY <4>3, <5>1, IdleFacts
          <6>2. pc'[t] = "wire" /\ newm'[t] = m
            BY <1>1, <6>1 DEF start_m, Goto
          <6> QED
            BY <6>2
        <5> QED
          BY <5>1
      <4>4. CASE \E t \in Thread : pc[t] \in {"wire", "post"} /\ newm[t] = m
        <5>1. PICK t \in Thread : pc[t] \in {"wire", "post"} /\ newm[t] = m
          BY <4>4
        <5>2. ~post(t)
          BY <1>1, <2>9, <5>1 DEF post
        <5>3. pc'[t] \in {"wire", "post"} /\ newm'[t] = newm[t]
          BY <5>1, <5>2, WakerMoves DEF new_m
        <5> QED
          BY <5>1, <5>3
      <4> QED
        BY <2>1, <3>1, <3>3, <4>2, <4>3, <4>4 DEF MachineOf
    <3> QED
      BY <3>2, <3>3
  <2>10. ASSUME ~stopped'
         PROVE  park'[m] <= 1 /\ (pc'[m] # "asleep" => park'[m] = 0)
    <3>1. ~stopped /\ park[m] \in Nat
      BY <1>1, <2>10, StoppedStays
    <3>2. park[m] <= 1 /\ (pc[m] # "asleep" => park[m] = 0)
      BY <2>1, <3>1 DEF MachineOf
    <3>3. CASE park'[m] = park[m]
      <4>1. CASE pc[m] = "asleep" /\ pc'[m] # "asleep"
        <5>1. \A t \in Thread : new_m(t) => newm[t] # m
          BY <1>2, <4>1 DEF new_m, WakerOf
        <5>2. park_m_woken(m)
          BY <4>1, <5>1, MovingStep
          DEF goroutine_create, goready, WakeStep, wake_p, start_m, wire_p, post, new_m,
              LeaveStep, gosched, gopark, goexit0, Leave, LoopStep, schedule_loop,
              glob_runq_get, runq_get, steal_work, Spin, StopSpinning, execute,
              execute_handoff, park_m
        <5> QED
          BY <1>1, <3>1, <3>3, <5>2 DEF park_m_woken
      <4> QED
        BY <3>2, <3>3, <4>1
    <3>4. ASSUME NEW t \in Thread, post(t), newm[t] = m, park'[m] = park[m] + 1
          PROVE  park'[m] <= 1 /\ pc'[m] = "asleep"
      <4>1. Resting(m)
        BY <1>2, <3>4 DEF WakerOf, post
      <4>2. pc[m] = "asleep" /\ park[m] = 0
        BY <3>1, <4>1 DEF Resting
      <4>3. pc'[m] = pc[m]
        BY <1>1, <3>4, <4>2, IndexFacts DEF post, Goto
      <4> QED
        BY <3>4, <4>2, <4>3
    <3>5. CASE park_m_woken(m) /\ park'[m] = park[m] - 1
      BY <3>1, <3>2, <3>5 DEF park_m_woken
    <3> QED
      BY <3>1, <3>3, <3>4, <3>5, ParkStep
  <2> QED
    BY <2>3, <2>4, <2>5, <2>6, <2>7, <2>8, <2>9, <2>10 DEF MachineOf
<1> QED
  BY <1>3, <1>4, <1>5, IdleFacts DEF MachineInv

-----------------------------------------------------------------------------
(* The number of Ms *)

(* start_m makes an M only while no M is idle and it holds a P for it: then *)
(* the Ms that exist have, or are about to have, the other Ps.              *)
LEMMA CountStep ==
  ASSUME IInv, Next
  PROVE  mnext' - 1 <= gomaxprocs
<1> USE DEF queueVars, idleVars, findVars, wakeVars
<1>1. mnext \in Nat /\ mnext >= 1 /\ mnext <= MaxM + 1 /\ mnext - 1 <= gomaxprocs
  BY SchedAssumption DEF IInv, Shape, TypeOK
<1>2. CASE mnext' = mnext
  BY <1>1, <1>2
<1>3. CASE mnext' # mnext
  <2>1. PICK t \in Thread : start_m(t) /\ midle = <<>> /\ mnext' = mnext + 1
    BY <1>3, IdleStep
  <2> DEFINE D == 0 .. (mnext - 1)
  <2>2. \A i \in D : i # 0 => i \in Machine /\ i < mnext
    BY <1>1, SchedAssumption DEF Machine
  <2>3. newp[t] \in Processor
    BY <2>1 DEF start_m, IInv, Shape, WakerInv, WakerOf, TypeOK
  <2>4. ASSUME NEW i \in D, i # 0, mp_p[i] = NoP
        PROVE  \E u \in Thread : pc[u] \in {"wire", "new"} /\ newm[u] = i /\ newp[u] \in Processor
    <3>1. MachineOf(i) /\ i < mnext
      BY <2>2, <2>4 DEF IInv, Shape, MachineInv
    <3>2. Range(midle) = {}
      BY <2>1, RangeFacts DEF IInv, Shape, TypeOK
    <3>3. PICK u \in Thread : pc[u] \in {"wire", "new"} /\ newm[u] = i
      BY <2>4, <3>1, <3>2 DEF MachineOf
    <3>4. newp[u] \in Processor
      BY <3>3 DEF IInv, Shape, WakerInv, WakerOf, TypeOK
    <3> QED
      BY <3>3, <3>4
  <2> DEFINE waker(i) == CHOOSE u \in Thread :
                           pc[u] \in {"wire", "new"} /\ newm[u] = i /\ newp[u] \in Processor
             f == [i \in D |-> IF i = 0 THEN newp[t]
                               ELSE IF mp_p[i] # NoP THEN mp_p[i]
                               ELSE newp[waker(i)]]
  <2>5. ASSUME NEW i \in D, i # 0, mp_p[i] = NoP
        PROVE  /\ waker(i) \in Thread /\ newm[waker(i)] = i /\ newp[waker(i)] \in Processor
               /\ pc[waker(i)] \in {"wire", "new"}
    BY <2>4, <2>5
  <2> HIDE DEF waker
  <2>6. \A i \in D : i # 0 /\ mp_p[i] # NoP => mp_p[i] \in Processor
    BY <2>2, IndexFacts DEF IInv, Shape, TypeOK
  <2>7. f \in [D -> Processor]
    BY <2>3, <2>5, <2>6
  <2>8. /\ \A k, u \in Thread : mp_p[k] = mp_p[u] /\ mp_p[k] # NoP => k = u
        /\ \A k, u \in Thread : newp[k] = newp[u] /\ newp[k] # NoP => k = u
        /\ \A k, u \in Thread : mp_p[k] = newp[u] => mp_p[k] = NoP
    BY DEF IInv, Shape, OwnerInv
  <2>9. pc[t] = "start"
    BY <2>1 DEF start_m
  <2>10. ASSUME NEW i \in D, NEW j \in D, f[i] = f[j]
         PROVE  i = j
    <3>1. \A k \in D :
            /\ k = 0 => f[k] = newp[t]
            /\ k # 0 /\ mp_p[k] # NoP => f[k] = mp_p[k]
            /\ k # 0 /\ mp_p[k] = NoP => f[k] = newp[waker(k)]
      OBVIOUS
    <3> HIDE DEF f, D
    <3>2. CASE i = 0 \/ j = 0
      BY <2>2, <2>3, <2>5, <2>8, <2>9, <2>10, <3>1, <3>2, IndexFacts
    <3>3. CASE i # 0 /\ j # 0 /\ mp_p[i] # NoP
      BY <2>2, <2>5, <2>8, <2>10, <3>1, <3>3, IndexFacts
    <3>4. CASE i # 0 /\ j # 0 /\ mp_p[i] = NoP
      BY <2>2, <2>5, <2>8, <2>10, <3>1, <3>4, IndexFacts
    <3> QED
      BY <3>2, <3>3, <3>4
  <2>11. f \in Injection(D, Processor)
    BY <2>7, <2>10 DEF Injection, IsInjective
  <2>12. IsFiniteSet(Processor) /\ Cardinality(Processor) = gomaxprocs
    <3>1. 0 \in Int /\ gomaxprocs - 1 \in Int /\ (0 > gomaxprocs - 1) = FALSE
          /\ gomaxprocs - 1 - 0 + 1 = gomaxprocs
      BY SchedAssumption
    <3> QED
      BY <3>1, FS_Interval DEF Processor
  <2>13. Cardinality(D) = mnext
    <3>1. 0 \in Int /\ mnext - 1 \in Int /\ (0 > mnext - 1) = FALSE /\ mnext - 1 - 0 + 1 = mnext
      BY <1>1
    <3> QED
      BY <3>1, FS_Interval
  <2> HIDE DEF f, D
  <2>14. Cardinality(D) <= Cardinality(Processor)
    BY <2>11, <2>12, FS_Injection
  <2> QED
    BY <1>1, <2>1, <2>12, <2>13, <2>14, SchedAssumption
<1> QED
  BY <1>2, <1>3

-----------------------------------------------------------------------------
(* Lost wakeups *)

(* An M with a P is awake or is being woken, unless the scheduler stops. *)
LEMMA OwnersAwake ==
  ASSUME Shape', NEW m \in Machine, mp_p'[m] # NoP, ~stopped'
  PROVE  Awake(m)' \/ \E t \in Thread : pc'[t] \in Wake
<1>1. MachineOf(m)' /\ park'[m] \in Nat
  BY DEF IInv, Shape, MachineInv, TypeOK
<1>2. pc'[m] # "none"
  BY DEF IInv, Shape, OwnerInv
<1>3. CASE pc'[m] = "asleep" /\ park'[m] = 0
  <2>1. m \notin Range(midle')
    BY DEF IInv, Shape, MachineInv, Unwired
  <2> QED
    BY <1>1, <1>3, <2>1 DEF MachineOf, Wake
<1> QED
  BY <1>1, <1>2, <1>3 DEF MachineOf, Awake

(* A thread that has started stays started. *)
LEMMA NoneStays ==
  ASSUME IInv, Next, NEW m \in Machine, pc'[m] = "none"
  PROVE  pc[m] = "none"
<1>1. pc \in [Thread -> Find \cup Wake \cup {"none", "top", "got", "run", "switch", "park",
                                              "asleep", "exited", "broadcast"}]
  BY DEF IInv, Shape, TypeOK
<1>2. ~goroutine_create(m) /\ ~goready(m) /\ ~LeaveStep(m)
  BY <1>1, IndexFacts DEF goroutine_create, goready, LeaveStep, gosched, gopark, goexit0, Leave, Goto
<1>3. ~WakeStep(m)
  BY <1>1, IndexFacts DEF WakeStep, wake_p, start_m, wire_p, post, new_m, Goto
<1>4. \A l : FindStart(l) # "none"
  BY DEF FindStart
<1>5. LoopStep(m) => pc[m] = "none"
  <2>1. ~glob_runq_get(m) /\ ~runq_get(m) /\ ~Spin(m) /\ ~StopSpinning(m) /\ ~execute(m)
    BY <1>1, <1>4, IndexFacts
    DEF glob_runq_get, runq_get, Found, Spin, StopSpinning, execute, Goto
  <2>2. ~schedule_loop(m) /\ ~execute_handoff(m) /\ ~park_m(m) /\ ~park_m_woken(m)
    BY <1>1, <1>4, IndexFacts DEF schedule_loop, execute_handoff, park_m, park_m_woken, Goto
  <2>3. ~steal_work(m)
    BY <1>1, IndexFacts DEF steal_work, Found, Goto
  <2> QED
    BY <2>1, <2>2, <2>3 DEF LoopStep
<1> QED
  BY <1>2, <1>3, <1>5, MovingStep

(* The main thread moves by itself. *)
LEMMA MainMoves ==
  ASSUME IInv, Next, pc[M0] \in Wake, pc'[M0] # pc[M0]
  PROVE  /\ wake_p(M0) \/ start_m(M0) \/ wire_p(M0) \/ post(M0) \/ new_m(M0)
         /\ start_m(M0) \/ wire_p(M0) => pc'[M0] \in Wake
<1>1. /\ pc \in [Thread -> Find \cup Wake \cup {"none", "top", "got", "run", "switch", "park",
                                              "asleep", "exited", "broadcast"}]
      /\ newm \in [Thread -> Machine \cup {M0}]
  BY DEF IInv, Shape, TypeOK
<1>2. ASSUME NEW t \in Thread, goroutine_create(t) \/ goready(t) \/ WakeStep(t)
      PROVE  t = M0
  <2>1. CASE new_m(t)
    <3>1. newm[t] # M0
      BY <2>1 DEF new_m, IInv, Shape, WakerInv, WakerOf
    <3> QED
      BY <1>1, <2>1, <3>1, IndexFacts DEF new_m
  <2>2. CASE ~new_m(t)
    <3>1. \E l : pc' = [pc EXCEPT ![t] = l]
      BY <1>2, <2>2 DEF goroutine_create, goready, WakeStep, wake_p, start_m, wire_p, post, Goto
    <3> QED
      BY <1>1, <3>1, IndexFacts
  <2> QED
    BY <2>1, <2>2
<1>3. ASSUME NEW m \in Machine, LeaveStep(m) \/ LoopStep(m)
      PROVE  FALSE
  <2>1. pc' = pc \/ \E l : pc' = [pc EXCEPT ![m] = l]
    BY <1>3, ZenonT(60) DEF LeaveStep, gosched, gopark, goexit0, Leave, LoopStep, schedule_loop,
       glob_runq_get, runq_get, steal_work, Found, Spin, StopSpinning, execute,
       execute_handoff, park_m, park_m_woken, Goto
  <2> QED
    BY <1>1, <2>1, IndexFacts
<1>4. ~shutdown /\ ~shutdown_broadcast /\ ~goroutine_create(M0) /\ ~goready(M0)
  BY DEF shutdown, shutdown_broadcast, goroutine_create, goready, Wake
<1>5. WakeStep(M0)
  BY <1>2, <1>3, <1>4 DEF Next
<1>6. start_m(M0) \/ wire_p(M0) => pc'[M0] \in Wake
  BY <1>1, IndexFacts DEF start_m, wire_p, Goto, Wake
<1> QED
  BY <1>5, <1>6 DEF WakeStep

(* What puts goroutines in the global queue. *)
LEMMA QueuedByWhom ==
  ASSUME IInv, Next, runq = <<>>, runq' # <<>>
  PROVE  \/ \E t \in Thread : pc'[t] \in Wake
         \/ \E m \in Machine : Awake(m)'
<1> USE DEF queueVars, idleVars, findVars, wakeVars
<1>1. pc \in [Thread -> Find \cup Wake \cup {"none", "top", "got", "run", "switch", "park",
                                              "asleep", "exited", "broadcast"}]
  BY DEF IInv, Shape, TypeOK
<1>2. ASSUME NEW t \in Thread, goroutine_create(t) \/ goready(t) \/ WakeStep(t)
      PROVE  pc'[t] \in Wake
  <2>1. goroutine_create(t) \/ goready(t)
    BY <1>2 DEF WakeStep, wake_p, start_m, wire_p, post, new_m
  <2> QED
    BY <1>1, <2>1 DEF goroutine_create, goready, Goto, Wake
<1>3. ~shutdown /\ ~shutdown_broadcast
  BY DEF shutdown, shutdown_broadcast
<1>4. ASSUME NEW m \in Machine, LeaveStep(m) \/ LoopStep(m)
      PROVE  Awake(m)'
  <2>1. execute_handoff(m)
    BY <1>4 DEF LeaveStep, gosched, gopark, goexit0, Leave, LoopStep, schedule_loop,
       glob_runq_get, runq_get, steal_work, Spin, StopSpinning, execute, park_m, park_m_woken
  <2> QED
    BY <1>1, <2>1, IndexFacts DEF execute_handoff, Goto, Awake
<1> QED
  BY <1>2, <1>3, <1>4 DEF Next

(* Nobody loses a wakeup. *)
LEMMA StrandedStep ==
  ASSUME IInv, Shape', Next
  PROVE  NoStrandedWork'
<1> USE DEF queueVars, idleVars, findVars, wakeVars
<1>1. /\ pc \in [Thread -> Find \cup Wake \cup {"none", "top", "got", "run", "switch", "park",
                                              "asleep", "exited", "broadcast"}]
      /\ newm \in [Thread -> Machine \cup {M0}] /\ park \in [Machine -> Nat]
      /\ newm' \in [Thread -> Machine \cup {M0}] /\ park' \in [Machine -> Nat]
  BY DEF IInv, Shape, TypeOK
<1> SUFFICES ASSUME runq' # <<>>, ~stopped', \A t \in Thread : pc'[t] \notin Wake
             PROVE  \E m \in Machine : Awake(m)'
  BY DEF NoStrandedWork
<1>2. ~stopped
  BY StoppedStays
<1>3. CASE runq = <<>>
  BY <1>3, QueuedByWhom
<1>4. CASE runq # <<>> /\ \A t \in Thread : pc[t] \notin Wake
  <2>1. PICK m \in Machine : Awake(m)
    BY <1>2, <1>4 DEF IInv, Shape, NoStrandedWork
  <2>2. pc[m] # "none"
    <3>1. MachineOf(m)
      BY DEF IInv, Shape, MachineInv
    <3> QED
      BY <1>1, <1>2, <2>1, <3>1 DEF MachineOf, Awake
  <2>3. pc'[m] # "none" /\ pc'[m] # "exited"
    <3>1. MachineOf(m)'
      BY DEF IInv, Shape, MachineInv
    <3>2. pc'[m] # "none"
      BY <2>2, NoneStays
    <3> QED
      BY <3>1, <3>2 DEF MachineOf
  <2>4. CASE pc'[m] = "asleep"
    <3>1. pc[m] = "asleep"
      BY <1>4, <2>4, RestBegins
    <3>2. park[m] > 0
      BY <2>1, <3>1 DEF Awake
    <3>3. ~park_m_woken(m)
      BY <1>1, <2>4, IndexFacts DEF park_m_woken, Goto
    <3>4. park'[m] = park[m] \/ park'[m] = park[m] + 1
      BY <1>2, <3>3, ParkStep
    <3> QED
      BY <1>1, <3>2, <3>4 DEF Awake
  <2> QED
    BY <2>3, <2>4 DEF Awake
<1>5. CASE \E t \in Thread : pc[t] \in Wake
  <2>1. PICK t \in Thread : pc[t] \in Wake
    BY <1>5
  <2>2. pc'[t] # pc[t]
    BY <2>1
  <2>3. CASE t \in Machine
    <3>1. pc'[t] # "none" /\ pc'[t] # "asleep" /\ pc'[t] # "exited"
      <4>1. pc'[t] # "none"
        BY <2>1, <2>3, NoneStays DEF Wake
      <4> QED
        BY <1>2, <2>1, <2>2, <2>3, <4>1, RestBegins DEF Wake, park_m
    <3> QED
      BY <2>3, <3>1 DEF Awake
  <2>4. CASE t = M0
    <3>1. wake_p(M0) \/ post(M0) \/ new_m(M0)
      BY <2>1, <2>2, <2>4, MainMoves, IndexFacts
    <3>2. CASE post(M0)
      <4>1. newm[M0] \in Machine
        BY <1>1, <3>2, IndexFacts DEF post, IInv, Shape, WakerInv, WakerOf
      <4>2. park'[newm[M0]] > 0
        BY <1>1, <3>2, <4>1 DEF post
      <4> QED
        BY <4>1, <4>2 DEF Awake
    <3>3. CASE new_m(M0)
      <4>1. newm[M0] \in Machine
        BY <1>1, <3>3, IndexFacts DEF new_m, IInv, Shape, WakerInv, WakerOf
      <4>2. pc'[newm[M0]] = "top"
        BY <1>1, <3>3, <4>1, IndexFacts DEF new_m
      <4> QED
        BY <4>1, <4>2 DEF Awake
    <3>4. CASE wake_p(M0)
      <4>1. pidle = <<>> \/ nmspinning > 0
        BY <1>1, <2>4, <3>4, IndexFacts DEF wake_p, Goto, Wake
      <4>2. \A m \in Machine : pc'[m] = pc[m] /\ UNCHANGED <<mp_p, park, stopped>>
        BY <1>1, <3>4, IndexFacts DEF wake_p, Goto
      <4>3. CASE nmspinning > 0
        <5>1. PICK m \in Machine : spinning[m]
          <6>1. SpinCount /\ Cardinality({}) = 0
            BY FS_EmptySet DEF IInv, Shape, SpinInv
          <6>2. nmspinning = Cardinality(Spinners)
            BY <6>1 DEF SpinCount, Spinners
          <6>3. Spinners # {}
            <7>1. ASSUME Spinners = {} PROVE nmspinning = 0
              BY <6>1, <6>2, <7>1, Zenon
            <7> QED
              BY <4>3, <7>1
          <6> QED
            BY <6>3 DEF Spinners
        <5>2. pc[m] \in Find \cup {"top", "got", "exited"} /\ pc[m] # "exited"
          BY <1>2, <5>1 DEF IInv, Shape, SpinInv, MachineInv, MachineOf
        <5> QED
          BY <4>2, <5>1, <5>2 DEF Awake, Find
      <4>4. CASE pidle = <<>>
        <5>1. Range(pidle) = {}
          BY <4>4, RangeFacts DEF IInv, Shape, TypeOK
        <5>2. PICK u \in Thread : mp_p[u] = 0 \/ newp[u] = 0
          BY <1>2, <5>1, IndexFacts DEF IInv, Shape, OwnerInv
        <5>3. newp' = newp
          BY <3>4, <4>4 DEF wake_p
        <5>4. newp[u] # 0
          <6>1. WakerOf(u)'
            BY DEF IInv, Shape, WakerInv
          <6> QED
            BY <5>3, <6>1, IndexFacts DEF WakerOf, Wake
        <5>5. u \in Machine /\ mp_p[u] # NoP
          BY <5>2, <5>4, IndexFacts DEF IInv, Shape, OwnerInv
        <5>6. mp_p'[u] # NoP
          BY <4>2, <5>5
        <5>7. Awake(u)' \/ \E k \in Thread : pc'[k] \in Wake
          BY <5>5, <5>6, OwnersAwake
        <5> QED
          BY <5>5, <5>7
      <4> QED
        BY <4>1, <4>3, <4>4
    <3> QED
      BY <3>1, <3>2, <3>3, <3>4
  <2> QED
    BY <2>3, <2>4, IndexFacts
<1> QED
  BY <1>3, <1>4, <1>5

-----------------------------------------------------------------------------
(* Goroutines *)

(* Most steps move no goroutine. *)
LEMMA QueueSame ==
  ASSUME QueueInv, StatusInv, UNCHANGED <<runq, local, runnext>>,
         \A g \in Goroutine : status'[g] = "runnable" <=> status[g] = "runnable",
         \A m \in Machine : /\ pc'[m] = "got" <=> pc[m] = "got"
                            /\ pc[m] = "got" => curg'[m] = curg[m]
  PROVE  QueueInv' /\ StatusInv'
<1>1. QueueInv'
  BY DEF QueueInv
<1>2. StatusInv'
  BY DEF StatusInv
<1> QED
  BY <1>1, <1>2

(* A goroutine that was in no queue is put at the end of the global one. *)
LEMMA AppendQueue ==
  ASSUME IInv, NEW g \in Goroutine, status[g] # "runnable",
         status' = [status EXCEPT ![g] = "runnable"],
         runq' = Append(runq, g), UNCHANGED <<local, runnext, curg>>,
         \A m \in Machine : pc'[m] = "got" <=> pc[m] = "got"
  PROVE  QueueInv' /\ StatusInv'
<1>1. /\ g \notin Range(runq)
      /\ \A p \in Processor : g \notin Range(local[p]) /\ runnext[p] # g
      /\ \A m \in Machine : pc[m] = "got" => curg[m] # g
  BY NotQueued
<1>2. Range(runq') = Range(runq) \cup {g} /\ IsInjective(runq')
  BY <1>1, AppendFacts DEF IInv, Shape, TypeOK, QueueInv
<1>3. QueueInv /\ StatusInv
  BY DEF IInv, Shape
<1>4. QueueInv'
  <2>1. ASSUME NEW p \in Processor
        PROVE  Range(local[p]) \cap Range(runq') = {} /\ runnext[p] \notin Range(runq')
    BY <1>1, <1>2, <1>3 DEF QueueInv
  <2>2. ASSUME NEW m \in Machine, pc[m] = "got"
        PROVE  curg[m] \notin Range(runq')
    BY <1>1, <1>2, <1>3, <2>2 DEF QueueInv
  <2> QED
    BY <1>2, <1>3, <2>1, <2>2 DEF QueueInv
<1>5. StatusInv'
  <2>1. ASSUME NEW x \in Goroutine
        PROVE  /\ status'[x] = "runnable" <=> status[x] = "runnable" \/ x = g
               /\ x \in Range(runq') <=> x \in Range(runq) \/ x = g
    BY <1>2 DEF IInv, Shape, TypeOK
  <2> QED
    BY <1>3, <2>1 DEF StatusInv
<1> QED
  BY <1>4, <1>5

(* An M takes a goroutine out of the queue it was in. *)
LEMMA FoundQueue ==
  ASSUME IInv, NEW m \in Machine, pc[m] # "got", NEW g \in Goroutine, Found(m, g),
         status' = status,
         IsInjective(runq'), Range(runq') \subseteq Range(runq), g \notin Range(runq'),
         \A p \in Processor :
           /\ IsInjective(local'[p]) /\ g \notin Range(local'[p])
           /\ \E q \in Processor : Range(local'[p]) \subseteq Range(local[q])
           /\ \A q \in Processor \ {p} : Range(local'[p]) \cap Range(local'[q]) = {}
           /\ runnext'[p] \in {runnext[p], NoG} /\ runnext'[p] # g,
         \A x \in Goroutine :
           (x \in Range(runq) \/ \E p \in Processor : x \in Range(local[p]) \/ runnext[p] = x)
           <=> \/ x \in Range(runq') \/ \E p \in Processor : x \in Range(local'[p]) \/ runnext'[p] = x
               \/ x = g
  PROVE  QueueInv' /\ StatusInv'
<1>1. QueueInv /\ StatusInv
  BY DEF IInv, Shape
<1>2. /\ curg'[m] = g /\ pc'[m] = "got"
      /\ \A n \in Machine \ {m} : curg'[n] = curg[n] /\ pc'[n] = pc[n]
  BY IndexFacts DEF Found, Goto, IInv, Shape, TypeOK
<1>3. /\ NoG \notin Range(runq) /\ \A p \in Processor : NoG \notin Range(local[p])
  <2>1. NoG \notin Goroutine /\ runq \in Seq(Goroutine) /\ local \in [Processor -> Seq(Goroutine)]
    BY SchedAssumption DEF IInv, Shape, TypeOK
  <2> QED
    BY <2>1, RangeFacts
<1>4. ASSUME NEW n \in Machine, pc[n] = "got" PROVE curg[n] # g
  <2>1. g \in Range(runq) \/ \E p \in Processor : g \in Range(local[p]) \/ runnext[p] = g
    OBVIOUS
  <2> QED
    BY <1>1, <1>4, <2>1 DEF QueueInv
<1>5. QueueInv'
  <2>1. ASSUME NEW p \in Processor
        PROVE  /\ Range(local'[p]) \cap Range(runq') = {}
               /\ runnext'[p] \notin Range(runq')
    BY <1>1, <1>3 DEF QueueInv
  <2>2. ASSUME NEW p \in Processor, NEW q \in Processor
        PROVE  /\ runnext'[p] \notin Range(local'[q])
               /\ p # q /\ runnext'[p] = runnext'[q] => runnext'[p] = NoG
    <3>1. PICK r \in Processor : Range(local'[q]) \subseteq Range(local[r])
      OBVIOUS
    <3>2. runnext[p] \notin Range(local[r]) /\ NoG \notin Range(local[r])
      BY <1>1, <1>3 DEF QueueInv
    <3>3. p # q /\ runnext[p] = runnext[q] => runnext[p] = NoG
      BY <1>1 DEF QueueInv
    <3> QED
      BY <3>1, <3>2, <3>3
  <2>3. ASSUME NEW n \in Machine, pc'[n] = "got"
        PROVE  /\ curg'[n] \in Goroutine
               /\ curg'[n] \notin Range(runq')
               /\ \A p \in Processor : curg'[n] \notin Range(local'[p]) /\ curg'[n] # runnext'[p]
               /\ \A k \in Machine \ {n} : pc'[k] = "got" => curg'[k] # curg'[n]
    <3>1. CASE n = m
      BY <1>2, <1>4, <3>1
    <3>2. CASE n # m
      <4>1. curg'[n] = curg[n] /\ pc[n] = "got"
        BY <1>2, <2>3, <3>2
      <4>2. /\ curg[n] \in Goroutine /\ curg[n] \notin Range(runq)
            /\ \A p \in Processor : curg[n] \notin Range(local[p]) /\ curg[n] # runnext[p]
            /\ \A k \in Machine \ {n} : pc[k] = "got" => curg[k] # curg[n]
        BY <1>1, <4>1 DEF QueueInv
      <4>3. ASSUME NEW p \in Processor
            PROVE  curg[n] \notin Range(local'[p]) /\ curg[n] # runnext'[p]
        BY <4>2, SchedAssumption
      <4>4. ASSUME NEW k \in Machine \ {n}, pc'[k] = "got" PROVE curg'[k] # curg[n]
        BY <1>2, <1>4, <4>1, <4>2, <4>4
      <4> QED
        BY <4>1, <4>2, <4>3, <4>4
    <3> QED
      BY <3>1, <3>2
  <2> QED
    BY <2>1, <2>2, <2>3 DEF QueueInv
<1>6. StatusInv'
  <2>1. ASSUME NEW x \in Goroutine
        PROVE  (\E n \in Machine : pc'[n] = "got" /\ curg'[n] = x)
               <=> x = g \/ \E n \in Machine : pc[n] = "got" /\ curg[n] = x
    BY <1>2
  <2> QED
    BY <1>1, <2>1 DEF StatusInv
<1> QED
  BY <1>5, <1>6

(* The goroutine that newproc1 makes or reuses is in no queue. *)
LEMMA CreateQueue ==
  ASSUME IInv, NEW t \in Thread, goroutine_create(t)
  PROVE  QueueInv' /\ StatusInv'
<1> USE DEF queueVars, idleVars, findVars, wakeVars
<1>1. PICK g \in Goroutine :
       /\ IF mp_p[t] # NoP /\ g_free[mp_p[t]] # <<>>
          THEN g = Head(g_free[mp_p[t]])
          ELSE status[g] = "idle"
       /\ status' = [status EXCEPT ![g] = "runnable"]
       /\ runq' = Append(runq, g)
  BY DEF goroutine_create
<1>2. status[g] # "runnable"
  <2>1. CASE mp_p[t] # NoP /\ g_free[mp_p[t]] # <<>>
    <3>1. PICK p \in Processor : p = mp_p[t]
      BY <2>1 DEF IInv, Shape, TypeOK
    <3>2. g_free[p] \in Seq(Goroutine) /\ g_free[p] # <<>> /\ g = Head(g_free[p])
      BY <1>1, <2>1, <3>1 DEF IInv, Shape, TypeOK
    <3>3. g \in Range(g_free[p])
      BY <3>2, HeadTailFacts
    <3> QED
      BY <3>3 DEF IInv, Shape, StackInv
  <2>2. CASE ~(mp_p[t] # NoP /\ g_free[mp_p[t]] # <<>>)
    BY <1>1, <2>2
  <2> QED
    BY <2>1, <2>2
<1>3. /\ UNCHANGED <<local, runnext, curg>>
      /\ \A m \in Machine : pc'[m] = "got" <=> pc[m] = "got"
  BY DEF goroutine_create, Goto, IInv, Shape, TypeOK
<1> QED
  BY <1>1, <1>2, <1>3, AppendQueue

(* goready queues a waiting goroutine, and kicks out another at most. *)
LEMMA ReadyQueue ==
  ASSUME IInv, NEW t \in Thread, goready(t)
  PROVE  QueueInv' /\ StatusInv'
<1> USE DEF queueVars, idleVars, findVars, wakeVars
<1>1. PICK g \in Goroutine :
       /\ status[g] = "waiting"
       /\ status' = [status EXCEPT ![g] = "runnable"]
       /\ IF mp_p[t] # NoP
          THEN runq_put_next(mp_p[t], g)
          ELSE runq' = Append(runq, g) /\ UNCHANGED <<local, runnext>>
  BY DEF goready
<1>2. /\ g \notin Range(runq)
      /\ \A p \in Processor : g \notin Range(local[p]) /\ runnext[p] # g
      /\ \A m \in Machine : pc[m] = "got" => curg[m] # g
  BY <1>1, NotQueued
<1>3. /\ curg' = curg
      /\ \A m \in Machine : pc'[m] = "got" <=> pc[m] = "got"
  BY DEF goready, Goto, IInv, Shape, TypeOK
<1>4. CASE mp_p[t] = NoP
  <2>1. runq' = Append(runq, g) /\ UNCHANGED <<local, runnext>>
    BY <1>1, <1>4
  <2> QED
    BY <1>1, <1>3, <2>1, AppendQueue
<1>5. CASE mp_p[t] # NoP
  <2>1. PICK p \in Processor : p = mp_p[t]
    BY <1>5 DEF IInv, Shape, TypeOK
  <2>2. runq_put_next(p, g) /\ status[g] # "runnable"
    BY <1>1, <1>5, <2>1
  <2>3. /\ local' = [local EXCEPT ![p] = local'[p]]
        /\ runnext' = [runnext EXCEPT ![p] = g]
        /\ IsInjective(runq') /\ IsInjective(local'[p])
        /\ Range(local'[p]) \cap Range(runq') = {}
        /\ Range(local'[p]) \cup Range(runq')
              = Range(local[p]) \cup Range(runq) \cup ({runnext[p]} \ {NoG})
    BY <2>2, RunqPutNext
  <2>4. /\ \A q \in Processor \ {p} : local'[q] = local[q] /\ runnext'[q] = runnext[q]
        /\ runnext'[p] = g
        /\ local \in [Processor -> Seq(Goroutine)]
        /\ runnext \in [Processor -> Goroutine \cup {NoG}]
        /\ NoG \notin Goroutine
    BY <2>3, SchedAssumption DEF IInv, Shape, TypeOK
  <2>5. QueueInv
    BY DEF IInv, Shape
  <2>6. ASSUME NEW x \in Range(local'[p]) \cup Range(runq')
        PROVE  x \in Range(local[p]) \cup Range(runq) \/ (x = runnext[p] /\ x # NoG)
    BY <2>3
  <2>7. ASSUME NEW q \in Processor, q # p
        PROVE  /\ Range(local[q]) \cap (Range(local'[p]) \cup Range(runq')) = {}
               /\ runnext[q] \notin Range(local'[p]) \cup Range(runq')
               /\ runnext[q] # g
    BY <1>2, <2>3, <2>5, <2>7 DEF QueueInv
  <2>8. g \notin Range(local'[p]) \cup Range(runq')
    BY <1>2, <2>3
  <2>9. ASSUME NEW m \in Machine, pc[m] = "got"
        PROVE  curg[m] \notin Range(local'[p]) \cup Range(runq') /\ curg[m] # g
    BY <1>2, <2>3, <2>5, <2>9 DEF QueueInv
  <2>10. QueueInv'
    <3>1. ASSUME NEW q \in Processor
          PROVE  /\ IsInjective(local'[q])
                 /\ Range(local'[q]) \cap Range(runq') = {}
                 /\ runnext'[q] \notin Range(runq')
      BY <2>3, <2>4, <2>5, <2>7, <2>8 DEF QueueInv
    <3>2. ASSUME NEW q \in Processor, NEW r \in Processor
          PROVE  /\ runnext'[q] \notin Range(local'[r])
                 /\ q # r => /\ Range(local'[q]) \cap Range(local'[r]) = {}
                             /\ runnext'[q] = runnext'[r] => runnext'[q] = NoG
      <4>1. CASE q # p /\ r # p
        BY <2>4, <2>5, <4>1 DEF QueueInv
      <4>2. CASE q = p /\ r # p
        BY <1>2, <2>4, <2>7, <4>2
      <4>3. CASE q # p /\ r = p
        BY <2>4, <2>7, <4>3
      <4>4. CASE q = p /\ r = p
        BY <2>4, <2>8, <4>4
      <4> QED
        BY <4>1, <4>2, <4>3, <4>4
    <3>3. ASSUME NEW m \in Machine, pc'[m] = "got"
          PROVE  /\ curg'[m] \in Goroutine
                 /\ curg'[m] \notin Range(runq')
                 /\ \A q \in Processor : curg'[m] \notin Range(local'[q]) /\ curg'[m] # runnext'[q]
                 /\ \A n \in Machine \ {m} : pc'[n] = "got" => curg'[n] # curg'[m]
      <4>1. curg'[m] = curg[m] /\ pc[m] = "got"
        BY <1>3, <3>3
      <4>2. /\ curg[m] \in Goroutine
            /\ \A q \in Processor : curg[m] \notin Range(local[q]) /\ curg[m] # runnext[q]
            /\ \A n \in Machine \ {m} : pc[n] = "got" => curg[n] # curg[m]
        BY <2>5, <4>1 DEF QueueInv
      <4> QED
        BY <1>3, <2>4, <2>9, <4>1, <4>2
    <3> QED
      BY <2>3, <3>1, <3>2, <3>3 DEF QueueInv
  <2>11. StatusInv'
    <3>1. ASSUME NEW x \in Goroutine
          PROVE  status'[x] = "runnable" <=> status[x] = "runnable" \/ x = g
      BY <1>1 DEF IInv, Shape, TypeOK
    <3>2. ASSUME NEW x \in Goroutine
          PROVE  (x \in Range(runq') \/ \E q \in Processor : x \in Range(local'[q]) \/ runnext'[q] = x)
             <=> \/ x \in Range(runq) \/ \E q \in Processor : x \in Range(local[q]) \/ runnext[q] = x
                 \/ x = g
      <4>1. CASE x = g
        BY <2>4, <4>1
      <4>2. CASE x # g
        <5>1. \/ x \in Range(runq') \/ x \in Range(local'[p])
              <=> x \in Range(runq) \/ x \in Range(local[p]) \/ x = runnext[p]
          BY <2>3, <2>4
        <5> QED
          BY <2>4, <4>2, <5>1
      <4> QED
        BY <4>1, <4>2
    <3>3. StatusInv
      BY DEF IInv, Shape
    <3>4. \A m \in Machine : pc[m] = "got" => curg[m] # g
      BY <1>2
    <3> QED
      BY <1>3, <3>1, <3>2, <3>3 DEF StatusInv
  <2> QED
    BY <2>10, <2>11
<1> QED
  BY <1>4, <1>5

(* glob_runq_get takes the oldest goroutine of the global queue. *)
LEMMA GlobQueue ==
  ASSUME IInv, NEW m \in Machine, glob_runq_get(m)
  PROVE  QueueInv' /\ StatusInv'
<1> USE DEF queueVars, idleVars, findVars, wakeVars
<1>1. QueueInv /\ StatusInv
  BY DEF IInv, Shape
<1>2. pc[m] # "got" /\ status' = status /\ UNCHANGED <<local, runnext>>
  BY DEF glob_runq_get, FindFrame
<1>3. CASE runq = <<>>
  <2>1. \E l : l # "got" /\ Goto(m, l) /\ UNCHANGED <<runq, curg>>
    BY <1>3 DEF glob_runq_get
  <2>2. \A n \in Machine : pc'[n] = "got" <=> pc[n] = "got"
    BY <1>2, <2>1 DEF Goto, IInv, Shape, TypeOK
  <2> QED
    BY <1>1, <1>2, <2>1, <2>2, QueueSame
<1>4. CASE runq # <<>>
  <2>1. Found(m, Head(runq)) /\ runq' = Tail(runq)
    BY <1>4 DEF glob_runq_get
  <2>2. PICK g \in Goroutine : g = Head(runq)
    BY <1>4, QueueTypes DEF IInv, Shape
  <2>3. runq \in Seq(Goroutine) /\ IsInjective(runq)
    BY <1>1 DEF QueueInv, IInv, Shape, TypeOK
  <2>4. /\ IsInjective(runq') /\ g \notin Range(runq')
        /\ Range(runq) = Range(runq') \cup {g}
    BY <1>4, <2>1, <2>2, <2>3, HeadTailFacts
  <2>5. Found(m, g) /\ Range(runq') \subseteq Range(runq) /\ g \in Range(runq)
    BY <2>1, <2>2, <2>4
  <2>6. ASSUME NEW p \in Processor
        PROVE  /\ IsInjective(local'[p]) /\ g \notin Range(local'[p])
               /\ \E q \in Processor : Range(local'[p]) \subseteq Range(local[q])
               /\ \A q \in Processor \ {p} : Range(local'[p]) \cap Range(local'[q]) = {}
               /\ runnext'[p] \in {runnext[p], NoG} /\ runnext'[p] # g
    BY <1>1, <1>2, <2>5 DEF QueueInv
  <2>7. ASSUME NEW x \in Goroutine
        PROVE  (x \in Range(runq) \/ \E p \in Processor : x \in Range(local[p]) \/ runnext[p] = x)
               <=> \/ x \in Range(runq')
                   \/ \E p \in Processor : x \in Range(local'[p]) \/ runnext'[p] = x
                   \/ x = g
    BY <1>2, <2>4
  <2> QED
    BY <1>2, <2>4, <2>5, <2>6, <2>7, FoundQueue
<1> QED
  BY <1>3, <1>4

(* runq_get takes runnext, or else the oldest goroutine of the ring. *)
LEMMA LocalQueue ==
  ASSUME IInv, NEW m \in Machine, runq_get(m)
  PROVE  QueueInv' /\ StatusInv'
<1> USE DEF queueVars, idleVars, findVars, wakeVars
<1>1. QueueInv /\ StatusInv
  BY DEF IInv, Shape
<1>2. pc[m] = "local" /\ status' = status /\ runq' = runq
  BY DEF runq_get, FindFrame
<1>3. PICK p \in Processor : p = mp_p[m]
  BY <1>2, HasP
<1>4. /\ runq \in Seq(Goroutine) /\ local \in [Processor -> Seq(Goroutine)]
      /\ runnext \in [Processor -> Goroutine \cup {NoG}] /\ NoG \notin Goroutine
  BY SchedAssumption DEF IInv, Shape, TypeOK
<1>5. CASE runnext[p] # NoG
  <2>1. PICK g \in Goroutine : g = runnext[p]
    BY <1>4, <1>5
  <2>2. Found(m, g) /\ runnext' = [runnext EXCEPT ![p] = NoG] /\ local' = local
    BY <1>3, <1>5, <2>1 DEF runq_get
  <2>3. g \notin Range(runq) /\ IsInjective(runq)
    BY <1>1, <2>1 DEF QueueInv
  <2>4. runnext'[p] = NoG /\ \A q \in Processor \ {p} : runnext'[q] = runnext[q]
    BY <1>4, <2>2
  <2>5. ASSUME NEW q \in Processor
        PROVE  /\ IsInjective(local'[q]) /\ g \notin Range(local'[q])
               /\ \E r \in Processor : Range(local'[q]) \subseteq Range(local[r])
               /\ \A r \in Processor \ {q} : Range(local'[q]) \cap Range(local'[r]) = {}
               /\ runnext'[q] \in {runnext[q], NoG} /\ runnext'[q] # g
    BY <1>1, <1>4, <2>1, <2>2, <2>4 DEF QueueInv
  <2>6. ASSUME NEW x \in Goroutine
        PROVE  (x \in Range(runq) \/ \E q \in Processor : x \in Range(local[q]) \/ runnext[q] = x)
               <=> \/ x \in Range(runq')
                   \/ \E q \in Processor : x \in Range(local'[q]) \/ runnext'[q] = x
                   \/ x = g
    <3>1. (\E q \in Processor : runnext[q] = x) <=> x = g \/ \E q \in Processor : runnext'[q] = x
      BY <1>4, <2>1, <2>4
    <3> QED
      BY <1>2, <2>2, <3>1
  <2>7. pc[m] # "got" /\ Range(runq') \subseteq Range(runq)
    BY <1>2
  <2> QED
    BY <1>2, <2>2, <2>3, <2>5, <2>6, <2>7, FoundQueue
<1>6. CASE runnext[p] = NoG /\ local[p] # <<>>
  <2>1. PICK g \in Goroutine : g = Head(local[p])
    BY <1>6, QueueTypes DEF IInv, Shape
  <2>2. Found(m, g) /\ local' = [local EXCEPT ![p] = Tail(local[p])] /\ runnext' = runnext
    BY <1>3, <1>6, <2>1 DEF runq_get
  <2>3. local[p] \in Seq(Goroutine) /\ IsInjective(local[p])
    BY <1>1, <1>4 DEF QueueInv
  <2>4. local'[p] = Tail(local[p]) /\ \A q \in Processor \ {p} : local'[q] = local[q]
    BY <1>4, <2>2
  <2>5. /\ IsInjective(local'[p]) /\ g \notin Range(local'[p])
        /\ Range(local[p]) = Range(local'[p]) \cup {g}
    BY <1>6, <2>1, <2>3, <2>4, HeadTailFacts
  <2>6. g \in Range(local[p]) /\ Range(local'[p]) \subseteq Range(local[p])
    BY <2>5
  <2>7. /\ g \notin Range(runq) /\ IsInjective(runq)
        /\ \A q \in Processor : runnext[q] # g
    BY <1>1, <2>6 DEF QueueInv
  <2>8. ASSUME NEW q \in Processor
        PROVE  Range(local'[q]) \subseteq Range(local[q]) /\ g \notin Range(local'[q])
    BY <1>1, <2>4, <2>5, <2>6 DEF QueueInv
  <2>9. ASSUME NEW q \in Processor
        PROVE  /\ IsInjective(local'[q]) /\ g \notin Range(local'[q])
               /\ \E r \in Processor : Range(local'[q]) \subseteq Range(local[r])
               /\ \A r \in Processor \ {q} : Range(local'[q]) \cap Range(local'[r]) = {}
               /\ runnext'[q] \in {runnext[q], NoG} /\ runnext'[q] # g
    <3>1. IsInjective(local'[q])
      BY <1>1, <2>4, <2>5 DEF QueueInv
    <3>2. ASSUME NEW r \in Processor \ {q}
          PROVE  Range(local'[q]) \cap Range(local'[r]) = {}
      <4>1. Range(local[q]) \cap Range(local[r]) = {}
        BY <1>1 DEF QueueInv
      <4> QED
        BY <2>8, <4>1
    <3> QED
      BY <2>2, <2>7, <2>8, <3>1, <3>2
  <2>10. ASSUME NEW x \in Goroutine
         PROVE  (x \in Range(runq) \/ \E q \in Processor : x \in Range(local[q]) \/ runnext[q] = x)
                <=> \/ x \in Range(runq')
                    \/ \E q \in Processor : x \in Range(local'[q]) \/ runnext'[q] = x
                    \/ x = g
    <3>1. (\E q \in Processor : x \in Range(local[q]))
          <=> x = g \/ \E q \in Processor : x \in Range(local'[q])
      BY <2>4, <2>5
    <3> QED
      BY <1>2, <2>2, <3>1
  <2>11. pc[m] # "got" /\ Range(runq') \subseteq Range(runq)
    BY <1>2
  <2> QED
    BY <1>2, <2>2, <2>7, <2>9, <2>10, <2>11, FoundQueue
<1>7. CASE runnext[p] = NoG /\ local[p] = <<>>
  <2>1. Goto(m, "global") /\ UNCHANGED <<curg, local, runnext>>
    BY <1>3, <1>7 DEF runq_get
  <2>2. \A n \in Machine : pc'[n] = "got" <=> pc[n] = "got"
    BY <1>2, <2>1 DEF Goto, IInv, Shape, TypeOK
  <2> QED
    BY <1>1, <1>2, <2>1, <2>2, QueueSame
<1> QED
  BY <1>5, <1>6, <1>7

(* steal_work takes the older half of a ring, or else a runnext. *)
LEMMA StealQueue ==
  ASSUME IInv, NEW m \in Machine, steal_work(m)
  PROVE  QueueInv' /\ StatusInv'
<1> USE DEF queueVars, idleVars, findVars, wakeVars
<1>1. QueueInv /\ StatusInv
  BY DEF IInv, Shape
<1>2. pc[m] = "steal" /\ status' = status /\ runq' = runq
  BY DEF steal_work, FindFrame
<1>3. PICK v \in victims[m] :
       LET n == Len(local[v]) - Len(local[v]) \div 2 IN
       IF local[v] # <<>>
       THEN /\ Found(m, Head(local[v]))
            /\ local' = [local EXCEPT ![v] = SubSeq(@, n + 1, Len(@)),
                                      ![mp_p[m]] = @ \o SubSeq(local[v], 2, n)]
            /\ runnext' = runnext
       ELSE IF runnext[v] # NoG
       THEN /\ Found(m, runnext[v])
            /\ runnext' = [runnext EXCEPT ![v] = NoG]
            /\ local' = local
       ELSE UNCHANGED <<pc, curg, local, runnext>>
  BY DEF steal_work
<1>4. /\ runq \in Seq(Goroutine) /\ local \in [Processor -> Seq(Goroutine)]
      /\ runnext \in [Processor -> Goroutine \cup {NoG}] /\ NoG \notin Goroutine
      /\ v \in Processor
  BY SchedAssumption DEF IInv, Shape, TypeOK
<1>5. pc[m] # "got" /\ Range(runq') \subseteq Range(runq) /\ IsInjective(runq')
  BY <1>1, <1>2 DEF QueueInv
<1>6. CASE local[v] # <<>>
  <2>1. /\ Found(m, Head(local[v])) /\ runnext' = runnext
        /\ LET n == Len(local[v]) - Len(local[v]) \div 2 IN
           local' = [local EXCEPT ![v] = SubSeq(@, n + 1, Len(@)),
                                  ![mp_p[m]] = @ \o SubSeq(local[v], 2, n)]
    BY <1>3, <1>6
  <2>2. PICK p \in Processor : p = mp_p[m]
    BY <1>2, HasP
  <2>3. PICK g \in Goroutine : g = Head(local[v])
    BY <1>4, <1>6, QueueTypes DEF IInv, Shape
  <2>4. /\ v # p
        /\ \A q \in Processor \ {p, v} : local'[q] = local[q]
        /\ IsInjective(local'[p]) /\ IsInjective(local'[v])
        /\ Range(local'[p]) \cap Range(local'[v]) = {}
        /\ g \notin Range(local'[p]) /\ g \notin Range(local'[v])
        /\ Range(local[v]) = Range(local'[p]) \cup Range(local'[v]) \cup {g}
    BY <1>2, <1>6, <2>1, <2>2, <2>3, StealRing, ZenonT(60)
  <2>5. Range(local[p]) = {}
    <3>1. local[p] = <<>>
      BY <1>2, <2>2 DEF IInv, Shape, WorkInv, Empty
    <3> QED
      BY <1>4, <3>1, RangeFacts
  <2>6. /\ g \in Range(local[v]) /\ Range(local'[p]) \subseteq Range(local[v])
        /\ Range(local'[v]) \subseteq Range(local[v])
    BY <2>4
  <2>7. g \notin Range(runq') /\ \A q \in Processor : runnext'[q] # g
    BY <1>1, <1>2, <1>4, <2>1, <2>6 DEF QueueInv
  <2>8. ASSUME NEW q \in Processor, q # p, q # v
        PROVE  /\ local'[q] = local[q] /\ IsInjective(local'[q])
               /\ Range(local'[q]) \cap Range(local[v]) = {}
    BY <1>1, <1>4, <2>4, <2>8 DEF QueueInv
  <2>9. ASSUME NEW q \in Processor
        PROVE  /\ IsInjective(local'[q]) /\ g \notin Range(local'[q])
               /\ \E r \in Processor : Range(local'[q]) \subseteq Range(local[r])
               /\ \A r \in Processor \ {q} : Range(local'[q]) \cap Range(local'[r]) = {}
               /\ runnext'[q] \in {runnext[q], NoG} /\ runnext'[q] # g
    <3>1. IsInjective(local'[q]) /\ g \notin Range(local'[q])
      BY <2>4, <2>6, <2>8
    <3>2. \E r \in Processor : Range(local'[q]) \subseteq Range(local[r])
      BY <1>4, <2>6, <2>8
    <3>3. ASSUME NEW r \in Processor \ {q}
          PROVE  Range(local'[q]) \cap Range(local'[r]) = {}
      <4>1. CASE q \in {p, v} /\ r \in {p, v}
        BY <2>4, <4>1
      <4>2. CASE q \notin {p, v} /\ r \in {p, v}
        BY <2>6, <2>8, <4>2
      <4>3. CASE q \in {p, v} /\ r \notin {p, v}
        BY <2>6, <2>8, <4>3
      <4>4. CASE q \notin {p, v} /\ r \notin {p, v}
        BY <1>1, <2>8, <4>4 DEF QueueInv
      <4> QED
        BY <4>1, <4>2, <4>3, <4>4
    <3> QED
      BY <2>1, <2>7, <3>1, <3>2, <3>3
  <2>10. ASSUME NEW x \in Goroutine
         PROVE  (x \in Range(runq) \/ \E q \in Processor : x \in Range(local[q]) \/ runnext[q] = x)
                <=> \/ x \in Range(runq')
                    \/ \E q \in Processor : x \in Range(local'[q]) \/ runnext'[q] = x
                    \/ x = g
    <3>1. (\E q \in Processor : x \in Range(local[q]))
          => x = g \/ \E q \in Processor : x \in Range(local'[q])
      BY <1>4, <2>4, <2>5
    <3>2. ASSUME NEW q \in Processor, x \in Range(local'[q])
          PROVE  \E r \in Processor : x \in Range(local[r])
      BY <1>4, <2>6, <2>8, <3>2
    <3> QED
      BY <1>2, <1>4, <2>1, <2>6, <3>1, <3>2
  <2> QED
    BY <1>2, <1>5, <2>1, <2>3, <2>7, <2>9, <2>10, FoundQueue
<1>7. CASE local[v] = <<>> /\ runnext[v] # NoG
  <2>1. PICK g \in Goroutine : g = runnext[v]
    BY <1>4, <1>7
  <2>2. Found(m, g) /\ runnext' = [runnext EXCEPT ![v] = NoG] /\ local' = local
    BY <1>3, <1>7, <2>1
  <2>3. g \notin Range(runq')
    BY <1>1, <1>2, <1>4, <2>1 DEF QueueInv
  <2>4. runnext'[v] = NoG /\ \A q \in Processor \ {v} : runnext'[q] = runnext[q]
    BY <1>4, <2>2
  <2>5. ASSUME NEW q \in Processor
        PROVE  /\ IsInjective(local'[q]) /\ g \notin Range(local'[q])
               /\ \E r \in Processor : Range(local'[q]) \subseteq Range(local[r])
               /\ \A r \in Processor \ {q} : Range(local'[q]) \cap Range(local'[r]) = {}
               /\ runnext'[q] \in {runnext[q], NoG} /\ runnext'[q] # g
    BY <1>1, <1>4, <2>1, <2>2, <2>4 DEF QueueInv
  <2>6. ASSUME NEW x \in Goroutine
        PROVE  (x \in Range(runq) \/ \E q \in Processor : x \in Range(local[q]) \/ runnext[q] = x)
               <=> \/ x \in Range(runq')
                   \/ \E q \in Processor : x \in Range(local'[q]) \/ runnext'[q] = x
                   \/ x = g
    <3>1. (\E q \in Processor : runnext[q] = x) <=> x = g \/ \E q \in Processor : runnext'[q] = x
      BY <1>4, <2>1, <2>4
    <3> QED
      BY <1>2, <2>2, <3>1
  <2> QED
    BY <1>2, <1>5, <2>2, <2>3, <2>5, <2>6, FoundQueue
<1>8. CASE local[v] = <<>> /\ runnext[v] = NoG
  <2>1. UNCHANGED <<pc, curg, local, runnext>>
    BY <1>3, <1>8
  <2> QED
    BY <1>1, <1>2, <2>1, QueueSame
<1> QED
  BY <1>6, <1>7, <1>8

(* execute: the goroutine that was found is no longer runnable. *)
LEMMA ExecQueue ==
  ASSUME IInv, NEW m \in Machine, execute(m)
  PROVE  QueueInv' /\ StatusInv'
<1> USE DEF queueVars, idleVars, findVars, wakeVars
<1>1. QueueInv /\ StatusInv
  BY DEF IInv, Shape
<1>2. PICK g \in Goroutine : g = curg[m] /\ pc[m] = "got"
  BY <1>1 DEF execute, QueueInv
<1>3. /\ UNCHANGED <<runq, local, runnext, curg>> /\ status' = [status EXCEPT ![g] = "running"]
      /\ pc'[m] = "run" /\ \A n \in Machine \ {m} : pc'[n] = pc[n]
  BY <1>2, IndexFacts DEF execute, Goto, IInv, Shape, TypeOK
<1>4. QueueInv'
  BY <1>1, <1>3 DEF QueueInv
<1>5. ASSUME NEW x \in Goroutine
      PROVE  status'[x] = "runnable" <=> status[x] = "runnable" /\ x # g
  BY <1>3 DEF IInv, Shape, TypeOK
<1>6. /\ g \notin Range(runq) /\ \A p \in Processor : g \notin Range(local[p]) /\ g # runnext[p]
      /\ \A n \in Machine \ {m} : pc[n] = "got" => curg[n] # g
  BY <1>1, <1>2 DEF QueueInv
<1>7. ASSUME NEW x \in Goroutine
      PROVE  (\E n \in Machine : pc'[n] = "got" /\ curg'[n] = x)
             <=> x # g /\ \E n \in Machine : pc[n] = "got" /\ curg[n] = x
  BY <1>2, <1>3, <1>6
<1>8. StatusInv'
  BY <1>1, <1>3, <1>5, <1>6, <1>7 DEF StatusInv
<1> QED
  BY <1>4, <1>8

(* execute_handoff: only a goroutine that has yielded is queued again. *)
LEMMA HandoffQueue ==
  ASSUME IInv, NEW m \in Machine, execute_handoff(m)
  PROVE  QueueInv' /\ StatusInv'
<1> USE DEF queueVars, idleVars, findVars, wakeVars
<1>1. QueueInv /\ StatusInv /\ TypeOK
  BY DEF IInv, Shape
<1>2. PICK g \in Goroutine : g = curg[m] /\ status[g] # "runnable"
  BY DEF execute_handoff, OnStack, IInv, Shape, StackInv
<1>3. /\ pc[m] = "switch" /\ pc'[m] = "top" /\ \A n \in Machine \ {m} : pc'[n] = pc[n]
      /\ \A n \in Machine \ {m} : curg'[n] = curg[n]
      /\ runnext' = runnext
  BY <1>1, IndexFacts DEF execute_handoff, Goto, TypeOK
<1>4. \A n \in Machine : /\ pc'[n] = "got" <=> pc[n] = "got"
                         /\ pc[n] = "got" => curg'[n] = curg[n]
  BY <1>3
<1>5. CASE status' = [status EXCEPT ![g] = "waiting"] /\ UNCHANGED <<runq, local>>
  <2>1. \A x \in Goroutine : status'[x] = "runnable" <=> status[x] = "runnable"
    BY <1>1, <1>2, <1>5 DEF TypeOK
  <2> QED
    BY <1>1, <1>3, <1>4, <1>5, <2>1, QueueSame
<1>6. CASE UNCHANGED <<status, runq, local>>
  BY <1>1, <1>3, <1>4, <1>6, QueueSame
<1>7. CASE status' = [status EXCEPT ![g] = "runnable"] /\ runq_put(mp_p[m], g)
  <2>1. PICK p \in Processor : p = mp_p[m]
    BY <1>3, HasP
  <2>2. runq_put(p, g)
    BY <1>7, <2>1
  <2>3. /\ g \notin Range(runq)
        /\ \A q \in Processor : g \notin Range(local[q]) /\ runnext[q] # g
        /\ \A n \in Machine : pc[n] = "got" => curg[n] # g
    BY <1>2, NotQueued
  <2>4. IsInjective(runq) /\ IsInjective(local[p]) /\ Range(local[p]) \cap Range(runq) = {}
    BY <1>1 DEF QueueInv
  <2>5. /\ local' = [local EXCEPT ![p] = local'[p]]
        /\ IsInjective(runq') /\ IsInjective(local'[p])
        /\ Range(local'[p]) \cap Range(runq') = {}
        /\ Range(local'[p]) \cup Range(runq') = Range(local[p]) \cup Range(runq) \cup {g}
    BY <1>1, <2>2, <2>3, <2>4, RunqPut
  <2>6. \A q \in Processor \ {p} : local'[q] = local[q]
    BY <1>1, <2>5 DEF TypeOK
  <2>7. ASSUME NEW q \in Processor
        PROVE  /\ q # p => Range(local[q]) \cap (Range(local'[p]) \cup Range(runq')) = {}
               /\ runnext[q] \notin Range(local'[p]) \cup Range(runq')
    BY <1>1, <2>3, <2>5 DEF QueueInv
  <2>8. ASSUME NEW n \in Machine, pc[n] = "got"
        PROVE  curg[n] \notin Range(local'[p]) \cup Range(runq')
    BY <1>1, <2>3, <2>5, <2>8 DEF QueueInv
  <2>9. QueueInv'
    <3>1. ASSUME NEW q \in Processor
          PROVE  /\ IsInjective(local'[q])
                 /\ Range(local'[q]) \cap Range(runq') = {}
                 /\ runnext'[q] \notin Range(runq')
      BY <1>1, <1>3, <2>5, <2>6, <2>7 DEF QueueInv
    <3>2. ASSUME NEW q \in Processor, NEW r \in Processor
          PROVE  /\ runnext'[q] \notin Range(local'[r])
                 /\ q # r => /\ Range(local'[q]) \cap Range(local'[r]) = {}
                             /\ runnext'[q] = runnext'[r] => runnext'[q] = NoG
      <4>1. CASE q # p /\ r # p
        BY <1>1, <1>3, <2>6, <4>1 DEF QueueInv
      <4>2. CASE q = p \/ r = p
        <5>1. runnext'[q] \notin Range(local'[r])
          BY <1>1, <1>3, <2>6, <2>7, <4>2 DEF QueueInv
        <5>2. q # r => Range(local'[q]) \cap Range(local'[r]) = {}
          BY <2>6, <2>7, <4>2
        <5>3. q # r /\ runnext'[q] = runnext'[r] => runnext'[q] = NoG
          BY <1>1, <1>3 DEF QueueInv
        <5> QED
          BY <5>1, <5>2, <5>3
      <4> QED
        BY <4>1, <4>2
    <3>3. ASSUME NEW n \in Machine, pc'[n] = "got"
          PROVE  /\ curg'[n] \in Goroutine
                 /\ curg'[n] \notin Range(runq')
                 /\ \A q \in Processor : curg'[n] \notin Range(local'[q]) /\ curg'[n] # runnext'[q]
                 /\ \A k \in Machine \ {n} : pc'[k] = "got" => curg'[k] # curg'[n]
      <4>1. curg'[n] = curg[n] /\ pc[n] = "got"
        BY <1>4, <3>3
      <4>2. /\ curg[n] \in Goroutine
            /\ \A q \in Processor : curg[n] \notin Range(local[q]) /\ curg[n] # runnext[q]
            /\ \A k \in Machine \ {n} : pc[k] = "got" => curg[k] # curg[n]
        BY <1>1, <4>1 DEF QueueInv
      <4> QED
        BY <1>3, <1>4, <2>6, <2>8, <4>1, <4>2
    <3> QED
      BY <2>5, <3>1, <3>2, <3>3 DEF QueueInv
  <2>10. StatusInv'
    <3>1. ASSUME NEW x \in Goroutine
          PROVE  status'[x] = "runnable" <=> status[x] = "runnable" \/ x = g
      BY <1>1, <1>7 DEF TypeOK
    <3>2. ASSUME NEW x \in Goroutine
          PROVE  (x \in Range(runq') \/ \E q \in Processor : x \in Range(local'[q]))
             <=> x \in Range(runq) \/ x = g \/ \E q \in Processor : x \in Range(local[q])
      <4>1. x \in Range(runq') \/ x \in Range(local'[p])
              <=> x \in Range(runq) \/ x \in Range(local[p]) \/ x = g
        BY <2>5
      <4> QED
        BY <2>6, <4>1
    <3>3. ASSUME NEW x \in Goroutine
          PROVE  (\E n \in Machine : pc'[n] = "got" /\ curg'[n] = x)
                 <=> \E n \in Machine : pc[n] = "got" /\ curg[n] = x
      BY <1>4
    <3> QED
      BY <1>1, <1>3, <3>1, <3>2, <3>3 DEF StatusInv
  <2> QED
    BY <2>9, <2>10
<1> QED
  BY <1>2, <1>5, <1>6, <1>7 DEF execute_handoff

(* Every step keeps each runnable goroutine in one queue. *)
LEMMA QueueStep ==
  ASSUME IInv, Next
  PROVE  QueueInv' /\ StatusInv'
<1> USE DEF queueVars, idleVars, findVars, wakeVars
<1>1. QueueInv /\ StatusInv /\ TypeOK
  BY DEF IInv, Shape
<1>2. ASSUME NEW t \in Thread, WakeStep(t)
      PROVE  QueueInv' /\ StatusInv'
  <2>1. UNCHANGED <<runq, local, runnext, status, curg>>
    BY <1>2 DEF WakeStep, wake_p, start_m, wire_p, post, new_m
  <2>2. \A n \in Machine : pc'[n] = "got" <=> pc[n] = "got"
    <3>1. CASE wake_p(t) \/ start_m(t) \/ wire_p(t) \/ post(t)
      <4>1. pc[t] # "got" /\ \E l : l # "got" /\ pc' = [pc EXCEPT ![t] = l]
        <5>1. CASE wake_p(t) \/ start_m(t)
          BY <5>1 DEF wake_p, start_m, Goto
        <5>2. CASE wire_p(t) \/ post(t)
          BY <5>2 DEF wire_p, post, Goto
        <5> QED
          BY <3>1, <5>1, <5>2
      <4> QED
        BY <1>1, <4>1, IndexFacts DEF TypeOK
    <3>2. CASE new_m(t)
      <4>1. pc[newm[t]] = "none" /\ pc[t] = "new"
        BY <3>2 DEF new_m, IInv, Shape, WakerInv, WakerOf
      <4>2. pc \in [Thread -> Find \cup Wake \cup {"none", "top", "got", "run", "switch", "park",
                                              "asleep", "exited", "broadcast"}]
            /\ newm[t] \in Thread
        BY <1>1, IndexFacts DEF TypeOK
      <4>3. pc' = [pc EXCEPT ![newm[t]] = "top", ![t] = "run"]
        BY <3>2 DEF new_m
      <4> QED
        BY <4>1, <4>2, <4>3, IndexFacts
    <3> QED
      BY <1>2, <3>1, <3>2 DEF WakeStep
  <2> QED
    BY <1>1, <2>1, <2>2, QueueSame
<1>3. ASSUME NEW m \in Machine, LeaveStep(m)
      PROVE  QueueInv' /\ StatusInv'
  <2>1. UNCHANGED <<runq, local, runnext, curg>> /\ pc[m] = "run" /\ Goto(m, "switch")
    BY <1>3 DEF LeaveStep, gosched, gopark, goexit0, Leave
  <2>2. \A n \in Machine : pc'[n] = "got" <=> pc[n] = "got"
    BY <1>1, <2>1 DEF Goto, TypeOK
  <2>3. \A x \in Goroutine : status'[x] = "runnable" <=> status[x] = "runnable"
    <3>1. curg[m] \in Goroutine /\ status[curg[m]] # "runnable"
      BY <2>1 DEF OnStack, IInv, Shape, StackInv
    <3> QED
      BY <1>1, <1>3, <3>1 DEF LeaveStep, gosched, gopark, goexit0, TypeOK
  <2> QED
    BY <1>1, <2>1, <2>2, <2>3, QueueSame
<1>4. ASSUME NEW m \in Machine,
             schedule_loop(m) \/ Spin(m) \/ StopSpinning(m) \/ park_m(m) \/ park_m_woken(m)
      PROVE  QueueInv' /\ StatusInv'
  <2>1. UNCHANGED <<runq, local, runnext, status, curg>>
    BY <1>4 DEF schedule_loop, Spin, StopSpinning, park_m, park_m_woken
  <2>2. pc[m] # "got" /\ \E l : l # "got" /\ pc' = [pc EXCEPT ![m] = l]
    <3>1. CASE schedule_loop(m) \/ Spin(m) \/ StopSpinning(m)
      BY <3>1 DEF schedule_loop, Spin, StopSpinning, Goto, FindStart
    <3>2. CASE park_m(m) \/ park_m_woken(m)
      BY <3>2 DEF park_m, park_m_woken, Goto
    <3> QED
      BY <1>4, <3>1, <3>2
  <2>3. \A n \in Machine : pc'[n] = "got" <=> pc[n] = "got"
    BY <1>1, <2>2 DEF TypeOK
  <2> QED
    BY <1>1, <2>1, <2>3, QueueSame
<1>5. CASE shutdown \/ shutdown_broadcast
  <2>1. UNCHANGED <<runq, local, runnext, status, curg>>
    BY <1>5 DEF shutdown, shutdown_broadcast
  <2>2. \A n \in Machine : pc'[n] = pc[n]
    BY <1>1, <1>5, IndexFacts DEF shutdown, shutdown_broadcast, Goto, TypeOK
  <2> QED
    BY <1>1, <2>1, <2>2, QueueSame
<1> QED
  BY <1>2, <1>3, <1>4, <1>5, CreateQueue, ReadyQueue, GlobQueue, LocalQueue, StealQueue,
     ExecQueue, HandoffQueue
  DEF Next, LoopStep

(* No M comes to a goroutine's stack and no goroutine is freed or reused. *)
LEMMA StackSame ==
  ASSUME StackInv, g_free' = g_free,
         \A m \in Machine : OnStack(m)' =>
           /\ OnStack(m) /\ curg'[m] = curg[m]
           /\ status'[curg[m]] \in {"running", "dead"}
           /\ pc'[m] = "switch" /\ handoff'[m] = "exited" => status'[curg[m]] = "dead",
         \A p \in Processor : \A g \in Range(g_free[p]) : status'[g] = "dead"
  PROVE  StackInv'
<1>1. ASSUME NEW m \in Machine, OnStack(m)'
      PROVE  /\ curg'[m] \in Goroutine
             /\ status'[curg'[m]] \in {"running", "dead"}
             /\ pc'[m] = "switch" /\ handoff'[m] = "exited" => status'[curg'[m]] = "dead"
             /\ \A n \in Machine \ {m} : OnStack(n)' => curg'[n] # curg'[m]
             /\ \A p \in Processor : curg'[m] \notin Range(g_free'[p])
  <2>1. OnStack(m) /\ curg'[m] = curg[m]
    BY <1>1
  <2>2. /\ curg[m] \in Goroutine
        /\ \A n \in Machine \ {m} : OnStack(n) => curg[n] # curg[m]
        /\ \A p \in Processor : curg[m] \notin Range(g_free[p])
    BY <2>1 DEF StackInv
  <2> QED
    BY <1>1, <2>1, <2>2
<1>2. ASSUME NEW p \in Processor
      PROVE  /\ IsInjective(g_free'[p])
             /\ \A g \in Range(g_free'[p]) : status'[g] = "dead"
             /\ \A q \in Processor \ {p} : Range(g_free'[p]) \cap Range(g_free'[q]) = {}
  BY DEF StackInv
<1> QED
  BY <1>1, <1>2 DEF StackInv

(* goroutine_create takes a free or an unused goroutine, so none on a stack. *)
LEMMA CreateStack ==
  ASSUME IInv, NEW t \in Thread, goroutine_create(t)
  PROVE  StackInv'
<1> USE DEF queueVars, idleVars, findVars, wakeVars
<1>1. PICK g \in Goroutine :
       /\ IF mp_p[t] # NoP /\ g_free[mp_p[t]] # <<>>
          THEN /\ g = Head(g_free[mp_p[t]])
               /\ g_free' = [g_free EXCEPT ![mp_p[t]] = Tail(@)]
          ELSE /\ status[g] = "idle"
               /\ g_free' = g_free
       /\ status' = [status EXCEPT ![g] = "runnable"]
  BY DEF goroutine_create
<1>2. StackInv /\ TypeOK
  BY DEF IInv, Shape
<1>3. \A x \in Goroutine \ {g} : status'[x] = status[x]
  BY <1>1, <1>2 DEF TypeOK
<1>4. curg' = curg /\ handoff' = handoff /\ pc[t] = "run" /\ pc' = [pc EXCEPT ![t] = "wake"]
  BY DEF goroutine_create, Goto
<1>5. ASSUME NEW m \in Machine
      PROVE  /\ OnStack(m)' <=> OnStack(m)
             /\ pc'[m] = "switch" => pc[m] = "switch"
  BY <1>2, <1>4, IndexFacts DEF TypeOK, OnStack, Wake
<1>6. \A p \in Processor : g_free[p] \in Seq(Goroutine) /\ Range(g_free[p]) \subseteq Goroutine
  BY <1>2, RangeFacts DEF TypeOK
<1>7. CASE mp_p[t] # NoP /\ g_free[mp_p[t]] # <<>>
  <2>1. PICK p \in Processor : p = mp_p[t]
    BY <1>2, <1>7 DEF TypeOK
  <2>2. /\ g_free[p] # <<>> /\ g = Head(g_free[p])
        /\ g_free' = [g_free EXCEPT ![p] = Tail(g_free[p])]
    BY <1>1, <1>7, <2>1
  <2>3. g_free'[p] = Tail(g_free[p]) /\ \A q \in Processor \ {p} : g_free'[q] = g_free[q]
    BY <1>2, <2>2 DEF TypeOK
  <2>4. /\ IsInjective(g_free'[p]) /\ g \notin Range(g_free'[p])
        /\ Range(g_free[p]) = Range(g_free'[p]) \cup {g}
    <3>1. IsInjective(g_free[p])
      BY <1>2 DEF StackInv
    <3> QED
      BY <1>6, <2>2, <2>3, <3>1, HeadTailFacts
  <2>5. ASSUME NEW q \in Processor
        PROVE  /\ Range(g_free'[q]) \subseteq Range(g_free[q]) /\ g \notin Range(g_free'[q])
               /\ IsInjective(g_free'[q])
    BY <1>2, <2>3, <2>4 DEF StackInv
  <2>6. ASSUME NEW m \in Machine, OnStack(m) PROVE curg[m] # g
    BY <1>2, <2>4, <2>6 DEF StackInv
  <2>7. ASSUME NEW m \in Machine, OnStack(m)'
        PROVE  /\ curg'[m] \in Goroutine
               /\ status'[curg'[m]] \in {"running", "dead"}
               /\ pc'[m] = "switch" /\ handoff'[m] = "exited" => status'[curg'[m]] = "dead"
               /\ \A n \in Machine \ {m} : OnStack(n)' => curg'[n] # curg'[m]
               /\ \A q \in Processor : curg'[m] \notin Range(g_free'[q])
    <3>1. OnStack(m) /\ curg[m] # g
      BY <1>5, <2>6, <2>7
    <3>2. /\ curg[m] \in Goroutine /\ status[curg[m]] \in {"running", "dead"}
          /\ pc[m] = "switch" /\ handoff[m] = "exited" => status[curg[m]] = "dead"
          /\ \A n \in Machine \ {m} : OnStack(n) => curg[n] # curg[m]
          /\ \A q \in Processor : curg[m] \notin Range(g_free[q])
      BY <1>2, <3>1 DEF StackInv
    <3> QED
      BY <1>3, <1>4, <1>5, <2>5, <3>1, <3>2
  <2>8. ASSUME NEW q \in Processor
        PROVE  /\ \A x \in Range(g_free'[q]) : status'[x] = "dead"
               /\ \A r \in Processor \ {q} : Range(g_free'[q]) \cap Range(g_free'[r]) = {}
    <3>1. ASSUME NEW x \in Range(g_free'[q]) PROVE status'[x] = "dead"
      BY <1>2, <1>3, <1>6, <2>5 DEF StackInv
    <3>2. ASSUME NEW r \in Processor \ {q} PROVE Range(g_free'[q]) \cap Range(g_free'[r]) = {}
      <4>1. Range(g_free[q]) \cap Range(g_free[r]) = {}
        BY <1>2 DEF StackInv
      <4> QED
        BY <2>5, <4>1
    <3> QED
      BY <3>1, <3>2
  <2> QED
    BY <2>5, <2>7, <2>8 DEF StackInv
<1>8. CASE ~(mp_p[t] # NoP /\ g_free[mp_p[t]] # <<>>)
  <2>1. status[g] = "idle" /\ g_free' = g_free
    BY <1>1, <1>8
  <2>2. ASSUME NEW m \in Machine, OnStack(m)'
        PROVE  /\ OnStack(m) /\ curg'[m] = curg[m]
               /\ status'[curg[m]] \in {"running", "dead"}
               /\ pc'[m] = "switch" /\ handoff'[m] = "exited" => status'[curg[m]] = "dead"
    <3>1. OnStack(m)
      BY <1>5, <2>2
    <3>2. /\ curg[m] \in Goroutine /\ status[curg[m]] \in {"running", "dead"}
          /\ pc[m] = "switch" /\ handoff[m] = "exited" => status[curg[m]] = "dead"
      BY <1>2, <3>1 DEF StackInv
    <3> QED
      BY <1>3, <1>4, <1>5, <2>1, <3>1, <3>2
  <2>3. ASSUME NEW p \in Processor, NEW x \in Range(g_free[p]) PROVE status'[x] = "dead"
    BY <1>2, <1>3, <1>6, <2>1 DEF StackInv
  <2> QED
    BY <1>2, <2>1, <2>2, <2>3, StackSame
<1> QED
  BY <1>7, <1>8

(* goready finds its goroutine waiting, so neither on a stack nor free. *)
LEMMA ReadyStack ==
  ASSUME IInv, NEW t \in Thread, goready(t)
  PROVE  StackInv'
<1> USE DEF queueVars, idleVars, findVars, wakeVars
<1>1. PICK g \in Goroutine :
        status[g] = "waiting" /\ status' = [status EXCEPT ![g] = "runnable"]
  BY DEF goready
<1>2. StackInv /\ TypeOK
  BY DEF IInv, Shape
<1>3. \A x \in Goroutine \ {g} : status'[x] = status[x]
  BY <1>1, <1>2 DEF TypeOK
<1>4. /\ curg' = curg /\ handoff' = handoff /\ g_free' = g_free
      /\ pc[t] = "run" /\ pc' = [pc EXCEPT ![t] = "wake"]
  BY DEF goready, Goto
<1>5. ASSUME NEW m \in Machine
      PROVE  /\ OnStack(m)' <=> OnStack(m)
             /\ pc'[m] = "switch" => pc[m] = "switch"
  BY <1>2, <1>4, IndexFacts DEF TypeOK, OnStack, Wake
<1>6. \A p \in Processor : Range(g_free[p]) \subseteq Goroutine
  BY <1>2, RangeFacts DEF TypeOK
<1>7. ASSUME NEW m \in Machine, OnStack(m)'
      PROVE  /\ OnStack(m) /\ curg'[m] = curg[m]
             /\ status'[curg[m]] \in {"running", "dead"}
             /\ pc'[m] = "switch" /\ handoff'[m] = "exited" => status'[curg[m]] = "dead"
  <2>1. OnStack(m)
    BY <1>5, <1>7
  <2>2. /\ curg[m] \in Goroutine /\ status[curg[m]] \in {"running", "dead"}
        /\ pc[m] = "switch" /\ handoff[m] = "exited" => status[curg[m]] = "dead"
    BY <1>2, <2>1 DEF StackInv
  <2> QED
    BY <1>1, <1>3, <1>4, <1>5, <2>1, <2>2
<1>8. ASSUME NEW p \in Processor, NEW x \in Range(g_free[p]) PROVE status'[x] = "dead"
  BY <1>1, <1>2, <1>3, <1>6 DEF StackInv
<1> QED
  BY <1>2, <1>4, <1>7, <1>8, StackSame

(* A goroutine that leaves stays on its stack until the switch is made. *)
LEMMA LeaveStack ==
  ASSUME IInv, NEW m \in Machine, LeaveStep(m)
  PROVE  StackInv'
<1> USE DEF queueVars, idleVars, findVars, wakeVars
<1>1. StackInv /\ TypeOK
  BY DEF IInv, Shape
<1>2. /\ pc[m] = "run" /\ pc' = [pc EXCEPT ![m] = "switch"] /\ curg' = curg /\ g_free' = g_free
      /\ \/ handoff' = [handoff EXCEPT ![m] = "yielded"] /\ status' = status
         \/ handoff' = [handoff EXCEPT ![m] = "parked"] /\ status' = status
         \/ handoff' = [handoff EXCEPT ![m] = "exited"] /\ status' = [status EXCEPT ![curg[m]] = "dead"]
  BY DEF LeaveStep, gosched, gopark, goexit0, Leave, Goto
<1>3. PICK g \in Goroutine : g = curg[m] /\ OnStack(m)
  BY <1>1, <1>2 DEF OnStack, StackInv
<1>4. /\ \A x \in Goroutine : status'[x] = status[x] \/ status'[x] = "dead"
      /\ handoff'[m] = "exited" => status'[g] = "dead"
  BY <1>1, <1>2, <1>3 DEF TypeOK
<1>5. ASSUME NEW n \in Machine, n # m
      PROVE  pc'[n] = pc[n] /\ handoff'[n] = handoff[n]
  BY <1>1, <1>2, <1>5, IndexFacts DEF TypeOK
<1>6. ASSUME NEW n \in Machine, OnStack(n)'
      PROVE  /\ OnStack(n) /\ curg'[n] = curg[n]
             /\ status'[curg[n]] \in {"running", "dead"}
             /\ pc'[n] = "switch" /\ handoff'[n] = "exited" => status'[curg[n]] = "dead"
  <2>1. OnStack(n)
    BY <1>3, <1>5, <1>6 DEF OnStack
  <2>2. /\ curg[n] \in Goroutine /\ status[curg[n]] \in {"running", "dead"}
        /\ pc[n] = "switch" /\ handoff[n] = "exited" => status[curg[n]] = "dead"
    BY <1>1, <2>1 DEF StackInv
  <2> QED
    BY <1>2, <1>3, <1>4, <1>5, <2>1, <2>2
<1>7. ASSUME NEW p \in Processor, NEW x \in Range(g_free[p]) PROVE status'[x] = "dead"
  <2>1. x \in Goroutine
    BY <1>1, RangeFacts DEF TypeOK
  <2> QED
    BY <1>1, <1>4, <2>1 DEF StackInv
<1> QED
  BY <1>1, <1>2, <1>6, <1>7, StackSame

(* execute runs a goroutine that was runnable, so on no other stack. *)
LEMMA ExecStack ==
  ASSUME IInv, NEW m \in Machine, execute(m)
  PROVE  StackInv'
<1> USE DEF queueVars, idleVars, findVars, wakeVars
<1>1. StackInv /\ TypeOK
  BY DEF IInv, Shape
<1>2. PICK g \in Goroutine : g = curg[m] /\ pc[m] = "got" /\ status[g] = "runnable"
  BY DEF execute, IInv, Shape, QueueInv, StatusInv
<1>3. /\ UNCHANGED <<g_free, curg, handoff>> /\ status' = [status EXCEPT ![g] = "running"]
      /\ pc'[m] = "run" /\ \A n \in Machine \ {m} : pc'[n] = pc[n]
  BY <1>1, <1>2, IndexFacts DEF execute, Goto, TypeOK
<1>4. status'[g] = "running" /\ \A x \in Goroutine \ {g} : status'[x] = status[x]
  BY <1>1, <1>3 DEF TypeOK
<1>5. ASSUME NEW n \in Machine \ {m} PROVE OnStack(n)' <=> OnStack(n)
  BY <1>3 DEF OnStack
<1>6. ASSUME NEW n \in Machine, OnStack(n)
      PROVE  /\ n # m /\ curg[n] # g /\ curg[n] \in Goroutine
             /\ status'[curg[n]] = status[curg[n]]
  <2>1. n # m
    BY <1>2, <1>6 DEF OnStack, Wake
  <2>2. curg[n] \in Goroutine /\ status[curg[n]] \in {"running", "dead"}
    BY <1>1, <1>6 DEF StackInv
  <2> QED
    BY <1>2, <1>4, <2>1, <2>2
<1>7. ASSUME NEW p \in Processor
      PROVE  g \notin Range(g_free[p]) /\ \A x \in Range(g_free[p]) : status'[x] = "dead"
  <2>1. Range(g_free[p]) \subseteq Goroutine /\ \A x \in Range(g_free[p]) : status[x] = "dead"
    BY <1>1, RangeFacts DEF TypeOK, StackInv
  <2> QED
    BY <1>2, <1>4, <2>1
<1>8. ASSUME NEW n \in Machine, OnStack(n)'
      PROVE  /\ curg'[n] \in Goroutine
             /\ status'[curg'[n]] \in {"running", "dead"}
             /\ pc'[n] = "switch" /\ handoff'[n] = "exited" => status'[curg'[n]] = "dead"
             /\ \A k \in Machine \ {n} : OnStack(k)' => curg'[k] # curg'[n]
             /\ \A p \in Processor : curg'[n] \notin Range(g_free'[p])
  <2>1. CASE n = m
    <3>1. \A k \in Machine \ {n} : OnStack(k)' => curg'[k] # curg'[n]
      BY <1>2, <1>3, <1>5, <1>6, <2>1
    <3> QED
      BY <1>2, <1>3, <1>4, <1>7, <2>1, <3>1
  <2>2. CASE n # m
    <3>1. OnStack(n)
      BY <1>5, <1>8, <2>2
    <3>2. /\ curg[n] \in Goroutine /\ status[curg[n]] \in {"running", "dead"}
          /\ pc[n] = "switch" /\ handoff[n] = "exited" => status[curg[n]] = "dead"
          /\ \A k \in Machine \ {n} : OnStack(k) => curg[k] # curg[n]
          /\ \A p \in Processor : curg[n] \notin Range(g_free[p])
      BY <1>1, <3>1 DEF StackInv
    <3>3. curg[n] # g /\ status'[curg[n]] = status[curg[n]]
      BY <1>6, <3>1
    <3>4. \A k \in Machine \ {n} : OnStack(k)' => curg'[k] # curg'[n]
      BY <1>2, <1>3, <1>5, <3>2, <3>3
    <3> QED
      BY <1>3, <2>2, <3>2, <3>3, <3>4
  <2> QED
    BY <2>1, <2>2
<1> QED
  BY <1>1, <1>3, <1>7, <1>8 DEF StackInv

(* execute_handoff: the stack is no longer in use; a dead goroutine is freed. *)
LEMMA HandoffStack ==
  ASSUME IInv, NEW m \in Machine, execute_handoff(m)
  PROVE  StackInv'
<1> USE DEF queueVars, idleVars, findVars, wakeVars
<1>1. StackInv /\ TypeOK
  BY DEF IInv, Shape
<1>2. PICK g \in Goroutine : g = curg[m] /\ pc[m] = "switch" /\ OnStack(m)
  BY <1>1 DEF execute_handoff, OnStack, StackInv
<1>3. /\ pc'[m] = "top" /\ \A n \in Machine \ {m} : pc'[n] = pc[n]
      /\ \A n \in Machine \ {m} : curg'[n] = curg[n] /\ handoff'[n] = handoff[n]
  BY <1>1, IndexFacts DEF execute_handoff, Goto, TypeOK
<1>4. ASSUME NEW n \in Machine, OnStack(n)'
      PROVE  /\ n # m /\ OnStack(n) /\ curg'[n] = curg[n] /\ curg[n] \in Goroutine
             /\ curg[n] # g /\ status[curg[n]] \in {"running", "dead"}
             /\ pc'[n] = pc[n] /\ handoff'[n] = handoff[n]
             /\ pc[n] = "switch" /\ handoff[n] = "exited" => status[curg[n]] = "dead"
             /\ \A k \in Machine \ {n} : OnStack(k) => curg[k] # curg[n]
             /\ \A p \in Processor : curg[n] \notin Range(g_free[p])
  <2>1. n # m
    BY <1>3, <1>4 DEF OnStack, Wake
  <2>2. OnStack(n)
    BY <1>3, <1>4, <2>1 DEF OnStack
  <2> QED
    BY <1>1, <1>2, <1>3, <2>1, <2>2 DEF StackInv
<1>5. ASSUME NEW p \in Processor
      PROVE  /\ g_free[p] \in Seq(Goroutine)
             /\ Range(g_free[p]) \subseteq Goroutine /\ g \notin Range(g_free[p])
             /\ \A x \in Range(g_free[p]) : status[x] = "dead"
  BY <1>1, <1>2, RangeFacts DEF TypeOK, StackInv
<1>6. CASE \E s : status' = [status EXCEPT ![g] = s] /\ g_free' = g_free
  <2>1. \A x \in Goroutine \ {g} : status'[x] = status[x]
    BY <1>1, <1>6 DEF TypeOK
  <2>2. ASSUME NEW n \in Machine, OnStack(n)'
        PROVE  /\ OnStack(n) /\ curg'[n] = curg[n]
               /\ status'[curg[n]] \in {"running", "dead"}
               /\ pc'[n] = "switch" /\ handoff'[n] = "exited" => status'[curg[n]] = "dead"
    BY <1>4, <2>1, <2>2
  <2>3. ASSUME NEW p \in Processor, NEW x \in Range(g_free[p]) PROVE status'[x] = "dead"
    BY <1>5, <2>1
  <2> QED
    BY <1>1, <1>6, <2>2, <2>3, StackSame
<1>7. CASE /\ handoff[m] = "exited" /\ status' = status
           /\ g_free' = [g_free EXCEPT ![mp_p[m]] = <<g>> \o @]
  <2>1. PICK p \in Processor : p = mp_p[m]
    BY <1>2, HasP
  <2>2. /\ g_free'[p] = <<g>> \o g_free[p] /\ \A q \in Processor \ {p} : g_free'[q] = g_free[q]
    BY <1>1, <1>7, <2>1 DEF TypeOK
  <2>3. status[g] = "dead"
    BY <1>1, <1>2, <1>7 DEF StackInv
  <2>4. IsInjective(g_free'[p]) /\ Range(g_free'[p]) = Range(g_free[p]) \cup {g}
    <3>1. IsInjective(g_free[p])
      BY <1>1 DEF StackInv
    <3>2. <<g>> \in Seq(Goroutine) /\ Range(<<g>>) = {g} /\ IsInjective(<<g>>)
      BY UnitFacts
    <3> DEFINE u == <<g>>
               s == g_free[p]
    <3>3. u \in Seq(Goroutine) /\ s \in Seq(Goroutine) /\ Range(u) \cap Range(s) = {}
          /\ IsInjective(u) /\ IsInjective(s) /\ Range(u) = {g} /\ g_free'[p] = u \o s
      BY <1>5, <2>2, <3>1, <3>2
    <3> HIDE DEF u, s
    <3>4. IsInjective(u \o s) /\ Range(u \o s) = Range(u) \cup Range(s)
      BY <3>3, ConcatFacts
    <3> QED
      BY <3>3, <3>4 DEF s
  <2>5. ASSUME NEW n \in Machine, OnStack(n)'
        PROVE  /\ curg'[n] \in Goroutine
               /\ status'[curg'[n]] \in {"running", "dead"}
               /\ pc'[n] = "switch" /\ handoff'[n] = "exited" => status'[curg'[n]] = "dead"
               /\ \A k \in Machine \ {n} : OnStack(k)' => curg'[k] # curg'[n]
               /\ \A q \in Processor : curg'[n] \notin Range(g_free'[q])
    <3>1. \A k \in Machine \ {n} : OnStack(k)' => curg'[k] # curg'[n]
      BY <1>4, <2>5
    <3>2. \A q \in Processor : curg'[n] \notin Range(g_free'[q])
      BY <1>4, <2>2, <2>4, <2>5
    <3> QED
      BY <1>4, <1>7, <2>5, <3>1, <3>2
  <2>6. ASSUME NEW q \in Processor
        PROVE  /\ IsInjective(g_free'[q])
               /\ \A x \in Range(g_free'[q]) : status'[x] = "dead"
               /\ \A r \in Processor \ {q} : Range(g_free'[q]) \cap Range(g_free'[r]) = {}
    <3>1. IsInjective(g_free'[q]) /\ \A x \in Range(g_free'[q]) : status'[x] = "dead"
      BY <1>1, <1>7, <2>2, <2>3, <2>4 DEF StackInv
    <3>2. ASSUME NEW r \in Processor \ {q} PROVE Range(g_free'[q]) \cap Range(g_free'[r]) = {}
      <4>1. Range(g_free[q]) \cap Range(g_free[r]) = {} /\ g \notin Range(g_free[q])
            /\ g \notin Range(g_free[r])
        BY <1>1, <1>5 DEF StackInv
      <4>2. CASE q = p
        BY <2>2, <2>4, <4>1, <4>2
      <4>3. CASE r = p
        BY <2>2, <2>4, <4>1, <4>3
      <4>4. CASE q # p /\ r # p
        BY <2>2, <4>1, <4>4
      <4> QED
        BY <4>2, <4>3, <4>4
    <3> QED
      BY <3>1, <3>2
  <2> QED
    BY <2>5, <2>6 DEF StackInv
<1>8. \/ \E s : status' = [status EXCEPT ![g] = s] /\ g_free' = g_free
      \/ /\ handoff[m] = "exited" /\ status' = status
         /\ g_free' = [g_free EXCEPT ![mp_p[m]] = <<g>> \o @]
  BY <1>2 DEF execute_handoff
<1> QED
  BY <1>6, <1>7, <1>8

(* Every step keeps the stacks and the free lists apart. *)
LEMMA StackStep ==
  ASSUME IInv, Next
  PROVE  StackInv'
<1> USE DEF queueVars, idleVars, findVars, wakeVars
<1>1. StackInv /\ TypeOK
  BY DEF IInv, Shape
<1>2. ASSUME UNCHANGED <<status, g_free, handoff>>,
             \A n \in Machine : OnStack(n)' =>
               /\ OnStack(n) /\ curg'[n] = curg[n]
               /\ pc'[n] = "switch" => pc[n] = "switch"
      PROVE  StackInv'
  <2>1. ASSUME NEW n \in Machine, OnStack(n)'
        PROVE  /\ OnStack(n) /\ curg'[n] = curg[n]
               /\ status'[curg[n]] \in {"running", "dead"}
               /\ pc'[n] = "switch" /\ handoff'[n] = "exited" => status'[curg[n]] = "dead"
    <3>1. OnStack(n) /\ curg'[n] = curg[n] /\ (pc'[n] = "switch" => pc[n] = "switch")
      BY <1>2, <2>1
    <3> QED
      BY <1>1, <1>2, <3>1 DEF StackInv
  <2> QED
    BY <1>1, <1>2, <2>1, StackSame DEF StackInv
<1>3. ASSUME NEW t \in Thread, WakeStep(t)
      PROVE  StackInv'
  <2>1. UNCHANGED <<status, g_free, handoff, curg>> /\ pc[t] \in Wake
    BY <1>3 DEF WakeStep, wake_p, start_m, wire_p, post, new_m, Wake
  <2>2. CASE wake_p(t) \/ start_m(t) \/ wire_p(t) \/ post(t)
    <3>1. \E l \in Wake \cup {"run"} : pc' = [pc EXCEPT ![t] = l]
      <4>1. CASE wake_p(t) \/ start_m(t)
        BY <4>1 DEF wake_p, start_m, Goto, Wake
      <4>2. CASE wire_p(t) \/ post(t)
        BY <4>2 DEF wire_p, post, Goto, Wake
      <4> QED
        BY <2>2, <4>1, <4>2
    <3>2. PICK l \in Wake \cup {"run"} : pc' = [pc EXCEPT ![t] = l]
      BY <3>1
    <3>3. \A n \in Machine : OnStack(n)' => OnStack(n) /\ (pc'[n] = "switch" => pc[n] = "switch")
      BY <1>1, <2>1, <3>2, IndexFacts DEF TypeOK, OnStack, Wake
    <3> QED
      BY <1>2, <2>1, <3>3
  <2>3. CASE new_m(t)
    <3>1. pc' = [pc EXCEPT ![newm[t]] = "top", ![t] = "run"] /\ newm[t] \in Thread
      BY <1>1, <2>3, IndexFacts DEF new_m, TypeOK
    <3>2. \A n \in Machine : OnStack(n)' => OnStack(n) /\ (pc'[n] = "switch" => pc[n] = "switch")
      BY <1>1, <2>1, <3>1, IndexFacts DEF TypeOK, OnStack, Wake
    <3> QED
      BY <1>2, <2>1, <3>2
  <2> QED
    BY <1>3, <2>2, <2>3 DEF WakeStep
<1>4. ASSUME NEW m \in Machine,
             UNCHANGED <<status, g_free, handoff>>,
             \A n \in Machine \ {m} : curg'[n] = curg[n],
             \E l \in Find \cup {"top", "got", "park", "asleep", "exited"} :
               pc' = [pc EXCEPT ![m] = l]
      PROVE  StackInv'
  <2>1. PICK l \in Find \cup {"top", "got", "park", "asleep", "exited"} : pc' = [pc EXCEPT ![m] = l]
    BY <1>4
  <2>2. pc'[m] = l /\ \A n \in Machine \ {m} : pc'[n] = pc[n]
    BY <1>1, <2>1, IndexFacts DEF TypeOK
  <2>3. ~OnStack(m)' /\ \A n \in Machine \ {m} : OnStack(n)' => OnStack(n)
    BY <2>2 DEF OnStack, Wake, Find
  <2> QED
    BY <1>2, <1>4, <2>2, <2>3
<1>5. ASSUME NEW m \in Machine, glob_runq_get(m) \/ runq_get(m)
      PROVE  StackInv'
  <2>1. UNCHANGED <<status, g_free, handoff>>
    BY <1>5 DEF glob_runq_get, runq_get, FindFrame
  <2>2. \A n \in Machine \ {m} : curg'[n] = curg[n]
    BY <1>1, <1>5 DEF glob_runq_get, runq_get, Found, TypeOK
  <2>3. \E l \in Find \cup {"top", "got", "park", "asleep", "exited"} : pc' = [pc EXCEPT ![m] = l]
    <3>1. CASE glob_runq_get(m)
      BY <3>1 DEF glob_runq_get, Found, Goto, Find
    <3>2. CASE runq_get(m)
      BY <3>2 DEF runq_get, Found, Goto, Find
    <3> QED
      BY <1>5, <3>1, <3>2
  <2> QED
    BY <1>4, <2>1, <2>2, <2>3
<1>6. ASSUME NEW m \in Machine, steal_work(m)
      PROVE  StackInv'
  <2>1. UNCHANGED <<status, g_free, handoff>>
    BY <1>6 DEF steal_work, FindFrame
  <2>2. PICK v \in victims[m] :
          (\E g : Found(m, g)) \/ UNCHANGED <<pc, curg>>
    BY <1>6 DEF steal_work
  <2>3. CASE UNCHANGED <<pc, curg>>
    BY <1>2, <2>1, <2>3 DEF OnStack
  <2>4. CASE \E g : Found(m, g)
    <3>1. \A n \in Machine \ {m} : curg'[n] = curg[n]
      BY <1>1, <2>4 DEF Found, TypeOK
    <3>2. pc' = [pc EXCEPT ![m] = "got"]
      BY <2>4 DEF Found, Goto
    <3> QED
      BY <1>4, <2>1, <3>1, <3>2
  <2> QED
    BY <2>2, <2>3, <2>4
<1>7. ASSUME NEW m \in Machine,
             schedule_loop(m) \/ Spin(m) \/ StopSpinning(m) \/ park_m(m) \/ park_m_woken(m)
      PROVE  StackInv'
  <2>1. UNCHANGED <<status, g_free, handoff, curg>>
    BY <1>7 DEF schedule_loop, Spin, StopSpinning, park_m, park_m_woken
  <2>2. \E l \in Find \cup {"top", "got", "park", "asleep", "exited"} : pc' = [pc EXCEPT ![m] = l]
    <3>1. CASE schedule_loop(m) \/ Spin(m) \/ StopSpinning(m)
      BY <3>1 DEF schedule_loop, Spin, StopSpinning, Goto, FindStart, Find
    <3>2. CASE park_m(m) \/ park_m_woken(m)
      BY <3>2 DEF park_m, park_m_woken, Goto
    <3> QED
      BY <1>7, <3>1, <3>2
  <2> QED
    BY <1>4, <2>1, <2>2
<1>8. CASE shutdown \/ shutdown_broadcast
  <2>1. UNCHANGED <<g_free, status, curg, handoff>>
    BY <1>8 DEF shutdown, shutdown_broadcast
  <2>2. \A n \in Machine : pc'[n] = pc[n]
    BY <1>1, <1>8, IndexFacts DEF shutdown, shutdown_broadcast, Goto, TypeOK
  <2> QED
    BY <1>2, <2>1, <2>2 DEF OnStack
<1> QED
  BY <1>3, <1>5, <1>6, <1>7, <1>8, CreateStack, ReadyStack, LeaveStack, ExecStack, HandoffStack
  DEF Next, LoopStep

-----------------------------------------------------------------------------
(* The invariant *)

(* At first every P is idle, once. *)
LEMMA IdleAtFirst ==
  ASSUME pidle = [i \in 1..gomaxprocs |-> gomaxprocs - i]
  PROVE  pidle \in Seq(Processor) /\ IsInjective(pidle) /\ Range(pidle) = Processor
<1>1. gomaxprocs \in Nat
  BY SchedAssumption
<1>2. pidle \in [1..gomaxprocs -> Processor]
  BY <1>1 DEF Processor
<1>3. pidle \in Seq(Processor) /\ Len(pidle) = gomaxprocs
  BY <1>1, <1>2
<1>4. \A i \in 1..gomaxprocs : pidle[i] = gomaxprocs - i
  OBVIOUS
<1>5. PICK s \in Seq(Processor) :
        s = pidle /\ Len(s) = gomaxprocs /\ \A i \in 1..gomaxprocs : s[i] = gomaxprocs - i
  BY <1>3, <1>4
<1>6. /\ Range(s) \subseteq Processor
      /\ \A x : x \in Range(s) <=> \E i \in 1 .. Len(s) : s[i] = x
      /\ IsInjective(s) <=> \A i, j \in 1 .. Len(s) : s[i] = s[j] => i = j
  BY RangeFacts
<1>7. IsInjective(s)
  <2>1. ASSUME NEW i \in 1 .. Len(s), NEW j \in 1 .. Len(s), s[i] = s[j] PROVE i = j
    <3>1. i \in 1..gomaxprocs /\ j \in 1..gomaxprocs
      BY <1>5
    <3>2. \A k \in 1..gomaxprocs : s[k] = gomaxprocs - k
      BY <1>5, Zenon
    <3>3. s[i] = gomaxprocs - i /\ s[j] = gomaxprocs - j
      BY <3>1, <3>2, Zenon
    <3>4. gomaxprocs - i = gomaxprocs - j
      BY <2>1, <3>3, Zenon
    <3>5. \A n \in Nat : \A k, l \in 1..n : n - k = n - l => k = l
      OBVIOUS
    <3> QED
      BY <1>1, <3>1, <3>4, <3>5
  <2> QED
    BY <1>6, <2>1
<1>8. ASSUME NEW p \in Processor PROVE p \in Range(s)
  <2>1. PICK i \in 1..gomaxprocs : gomaxprocs - i = p
    <3>1. gomaxprocs - p \in 1..gomaxprocs /\ gomaxprocs - (gomaxprocs - p) = p
      BY <1>1 DEF Processor
    <3> QED
      BY <3>1
  <2>2. s[i] = p /\ i \in 1 .. Len(s)
    BY <1>5, <2>1
  <2> QED
    BY <1>6, <2>2
<1> QED
  BY <1>5, <1>6, <1>7, <1>8

(* IInv holds before the first worker exists. *)
LEMMA InitIInv == Init => IInv
<1> SUFFICES ASSUME Init PROVE IInv
  OBVIOUS
<1>1. pidle \in Seq(Processor) /\ IsInjective(pidle) /\ Range(pidle) = Processor
  BY IdleAtFirst DEF Init
<1>2. Range(<<>>) = {} /\ IsInjective(<<>>)
  <2>1. <<>> \in Seq({})
    OBVIOUS
  <2> QED
    BY <2>1, RangeFacts
<1>3. /\ \A t \in Thread : /\ mp_p[t] = NoP /\ newp[t] = NoP /\ newm[t] = M0
                           /\ pc[t] = IF t = M0 THEN "run" ELSE "none"
      /\ \A m \in Machine : pc[m] = "none" /\ ~spinning[m] /\ park[m] = 0 /\ tries[m] = 0
      /\ \A p \in Processor : local[p] = <<>> /\ runnext[p] = NoG /\ g_free[p] = <<>>
      /\ \A g \in Goroutine : status[g] = "idle"
      /\ runq = <<>> /\ midle = <<>> /\ mnext = 1 /\ nmspinning = 0 /\ stopped = FALSE
  BY IndexFacts DEF Init
<1>4. TypeOK
  <2>1. runq \in Seq(Goroutine) /\ midle \in Seq(Machine)
        /\ local \in [Processor -> Seq(Goroutine)] /\ g_free \in [Processor -> Seq(Goroutine)]
        /\ \A p \in Processor : Len(local[p]) <= local_queue_size
    BY SchedAssumption DEF Init
  <2>2. /\ sched_tick \in [Processor -> 0..(global_queue_check_interval - 1)]
        /\ mnext \in 1..(MaxM + 1) /\ nmspinning \in 0..MaxM
        /\ tries \in [Machine -> 0..SpinTries]
    BY SchedAssumption DEF Init
  <2>3. /\ pc \in [Thread -> Find \cup Wake \cup {"none", "top", "got", "run", "switch", "park",
                                              "asleep", "exited", "broadcast"}]
        /\ status \in [Goroutine -> {"idle", "runnable", "running", "waiting", "dead"}]
        /\ handoff \in [Machine -> {"none", "parked", "yielded", "exited"}]
    BY DEF Init
  <2>4. /\ runnext \in [Processor -> Goroutine \cup {NoG}]
        /\ stopped \in BOOLEAN
        /\ mp_p \in [Thread -> Processor \cup {NoP}]
        /\ spinning \in [Machine -> BOOLEAN]
        /\ park \in [Machine -> Nat]
        /\ curg \in [Machine -> Goroutine \cup {NoG}]
        /\ victims \in [Machine -> SUBSET Processor]
        /\ newp \in [Thread -> Processor \cup {NoP}]
        /\ newm \in [Thread -> Machine \cup {M0}]
    BY DEF Init
  <2> QED
    BY <1>1, <2>1, <2>2, <2>3, <2>4 DEF TypeOK
<1>5. WakerInv
  <2>1. M0 < mnext /\ M0 \notin Range(midle)
    BY <1>2, <1>3 DEF M0
  <2>2. ASSUME NEW t \in Thread PROVE WakerOf(t)
    <3>1. newm[t] = M0 /\ newp[t] = NoP /\ pc[t] \in {"run", "none"}
      BY <1>3
    <3> QED
      BY <2>1, <3>1 DEF WakerOf
  <2> QED
    BY <1>3, <2>2 DEF WakerInv
<1>6. MachineInv
  <2>1. ASSUME NEW m \in Machine PROVE MachineOf(m)
    <3>1. pc[m] = "none" /\ park[m] = 0 /\ ~spinning[m] /\ mnext = 1 /\ ~stopped
      BY <1>3
    <3>2. ~(m < mnext)
      BY <3>1, IndexFacts
    <3> QED
      BY <3>1, <3>2 DEF MachineOf
  <2>2. pc[M0] = "run"
    BY <1>3, IndexFacts
  <2> QED
    BY <1>2, <1>3, <2>1, <2>2 DEF MachineInv
<1>7. OwnerInv
  BY <1>1, <1>3, IndexFacts DEF OwnerInv
<1>8. WorkInv
  BY <1>3 DEF WorkInv, Empty
<1>9. SpinInv
  <2>1. SpinCount
    <3>1. {m \in Machine : spinning[m]} = {}
      BY <1>3
    <3>2. Cardinality({}) = 0
      BY FS_EmptySet
    <3> QED
      BY <1>3, <3>1, <3>2 DEF SpinCount
  <2> QED
    BY <1>3, <2>1 DEF SpinInv
<1>10. QueueInv /\ StatusInv
  BY <1>2, <1>3, SchedAssumption DEF QueueInv, StatusInv
<1>11. StackInv
  BY <1>2, <1>3 DEF StackInv, OnStack, Wake
<1>12. NoStrandedWork /\ mnext - 1 <= gomaxprocs
  BY <1>3, SchedAssumption DEF NoStrandedWork
<1> QED
  BY <1>4, <1>5, <1>6, <1>7, <1>8, <1>9, <1>10, <1>11, <1>12 DEF IInv, Shape

(* Every step keeps it. *)
LEMMA NextIInv == IInv /\ [Next]_vars => IInv'
<1> SUFFICES ASSUME IInv, [Next]_vars PROVE IInv'
  OBVIOUS
<1>1. CASE Next
  <2>1. Shape'
    BY <1>1, TypeStep, WakerStep, MachineStep, OwnerStep, WorkStep, SpinStep, QueueStep, StackStep,
       CountStep DEF Shape
  <2>2. NoStrandedWork'
    BY <1>1, <2>1, StrandedStep
  <2> QED
    BY <2>1, <2>2 DEF IInv
<1>2. CASE UNCHANGED vars
  <2> USE <1>2 DEF vars, queueVars, idleVars, findVars, wakeVars
  <2>1. TypeOK' /\ QueueInv' /\ StatusInv'
    BY DEF IInv, Shape, TypeOK, QueueInv, StatusInv
  <2>2. WakerInv' /\ MachineInv'
    BY DEF IInv, Shape, WakerInv, WakerOf, MachineInv, MachineOf, Resting, Unwired, Empty
  <2>3. OwnerInv' /\ WorkInv' /\ SpinInv'
    BY DEF IInv, Shape, OwnerInv, WorkInv, Empty, SpinInv, SpinCount
  <2>4. StackInv'
    BY DEF IInv, Shape, StackInv, OnStack
  <2>5. NoStrandedWork' /\ mnext' - 1 <= gomaxprocs
    BY DEF IInv, Shape, NoStrandedWork, Awake
  <2> QED
    BY <2>1, <2>2, <2>3, <2>4, <2>5 DEF IInv, Shape
<1> QED
  BY <1>1, <1>2

(* IInv is an invariant of the scheduler. *)
THEOREM Invariance == Spec => []IInv
BY InitIInv, NextIInv, PTL DEF Spec

(* The state keeps its types; no local queue is longer than its ring.      *)
THEOREM SchedTypes == Spec => []TypeOK
<1>1. IInv => TypeOK
  BY DEF IInv, Shape
<1> QED
  BY <1>1, Invariance, PTL

(* nmspinning, which wake_p trusts, is the number of spinning Ms.           *)
THEOREM SpinnersCounted == Spec => []SpinCount
<1>1. IInv => SpinCount
  BY DEF IInv, Shape, SpinInv
<1> QED
  BY <1>1, Invariance, PTL

(* Every M at work has a P, a P without an M has no work, and start_m makes *)
(* no more Ms than there are Ps.                                            *)
THEOREM WorkersHavePs == Spec => []WorkersHoldPs
<1>1. IInv => WorkersHoldPs
  BY DEF IInv, Shape, MachineInv, MachineOf, WorkInv, Empty, WorkersHoldPs
<1> QED
  BY <1>1, Invariance, PTL

(* No wakeup is lost: work in the global queue keeps an M awake.            *)
THEOREM NoLostWakeup == Spec => []NoStrandedWork
<1>1. IInv => NoStrandedWork
  BY DEF IInv
<1> QED
  BY <1>1, Invariance, PTL

-----------------------------------------------------------------------------
(* Copies, counted *)

(* A goroutine is in a queue without repetitions once or not at all. *)
LEMMA OccursOnce ==
  ASSUME NEW S, NEW s \in Seq(S), IsInjective(s), NEW g
  PROVE  /\ Occurrences(g, s) \in {0, 1}
         /\ Occurrences(g, s) = 1 <=> g \in Range(s)
<1> DEFINE C == {i \in 1..Len(s) : s[i] = g}
<1>1. /\ \A i, j \in 1 .. Len(s) : s[i] = s[j] => i = j
      /\ g \in Range(s) <=> \E i \in 1 .. Len(s) : s[i] = g
  BY RangeFacts
<1>2. \A x, y \in C : x = y
  BY <1>1
<1>3. C # {} <=> g \in Range(s)
  BY <1>1
<1>4. Occurrences(g, s) = Cardinality(C)
  BY DEF Occurrences
<1> HIDE DEF C
<1>5. Cardinality(C) \in {0, 1} /\ (Cardinality(C) = 1 <=> C # {})
  BY <1>2, CountOne
<1> QED
  BY <1>3, <1>4, <1>5

(* The four places of Copies: at most one of them holds g, and once. *)
LEMMA CopiesCounted ==
  ASSUME IInv, NEW g \in Goroutine
  PROVE  Copies(g) = IF status[g] = "runnable" THEN 1 ELSE 0
<1> DEFINE A == Occurrences(g, runq)
           L == {pi \in Processor \X (1..local_queue_size) :
                   pi[2] <= Len(local[pi[1]]) /\ local[pi[1]][pi[2]] = g}
           N == {p \in Processor : runnext[p] = g}
           K == {m \in Machine : pc[m] = "got" /\ curg[m] = g}
<1>1. QueueInv /\ StatusInv
  BY DEF IInv, Shape
<1>2. /\ runq \in Seq(Goroutine) /\ local \in [Processor -> Seq(Goroutine)]
      /\ \A p \in Processor : Len(local[p]) <= local_queue_size /\ Len(local[p]) \in Nat
      /\ NoG \notin Goroutine /\ local_queue_size \in Nat
  BY SchedAssumption DEF IInv, Shape, TypeOK
<1>3. A \in {0, 1} /\ (A = 1 <=> g \in Range(runq))
  <2>1. IsInjective(runq)
    BY <1>1 DEF QueueInv
  <2> QED
    BY <1>2, <2>1, OccursOnce
<1>4. ASSUME NEW p \in Processor
      PROVE  /\ \A i, j \in 1 .. Len(local[p]) : local[p][i] = local[p][j] => i = j
             /\ g \in Range(local[p]) <=> \E i \in 1 .. Len(local[p]) : local[p][i] = g
  <2>1. local[p] \in Seq(Goroutine) /\ IsInjective(local[p])
    BY <1>1, <1>2 DEF QueueInv
  <2> QED
    BY <2>1, RangeFacts
<1>5. ASSUME NEW p \in Processor, NEW i \in 1..local_queue_size
      PROVE  <<p, i>> \in L <=> i \in 1 .. Len(local[p]) /\ local[p][i] = g
  BY <1>2
<1>6. Cardinality(L) \in {0, 1}
      /\ (Cardinality(L) = 1 <=> \E p \in Processor : g \in Range(local[p]))
  <2>1. \A x \in L : \E p \in Processor, i \in 1..local_queue_size : x = <<p, i>>
    OBVIOUS
  <2> HIDE DEF L
  <2>2. ASSUME NEW x \in L, NEW y \in L PROVE x = y
    <3>1. PICK p \in Processor, i \in 1..local_queue_size : x = <<p, i>>
      BY <2>1
    <3>2. PICK q \in Processor, j \in 1..local_queue_size : y = <<q, j>>
      BY <2>1
    <3>3. /\ i \in 1 .. Len(local[p]) /\ local[p][i] = g
          /\ j \in 1 .. Len(local[q]) /\ local[q][j] = g
      BY <1>5, <3>1, <3>2
    <3>4. g \in Range(local[p]) /\ g \in Range(local[q])
      BY <1>4, <3>3
    <3>5. p = q
      BY <1>1, <3>4 DEF QueueInv
    <3>6. i = j
      BY <1>4, <3>3, <3>5
    <3> QED
      BY <3>1, <3>2, <3>5, <3>6
  <2>3. L # {} <=> \E p \in Processor : g \in Range(local[p])
    <3>1. ASSUME NEW x \in L PROVE \E p \in Processor : g \in Range(local[p])
      <4>1. PICK p \in Processor, i \in 1..local_queue_size : x = <<p, i>>
        BY <2>1
      <4>2. i \in 1 .. Len(local[p]) /\ local[p][i] = g
        BY <1>5, <4>1
      <4> QED
        BY <1>4, <4>2
    <3>2. ASSUME NEW p \in Processor, g \in Range(local[p]) PROVE L # {}
      <4>1. PICK i \in 1 .. Len(local[p]) : local[p][i] = g
        BY <1>4, <3>2
      <4>2. i \in 1..local_queue_size
        BY <1>2, <4>1
      <4>3. <<p, i>> \in L
        BY <1>5, <4>1, <4>2
      <4> QED
        BY <4>3
    <3> QED
      BY <3>1, <3>2
  <2>4. Cardinality(L) \in {0, 1} /\ (Cardinality(L) = 1 <=> L # {})
    BY <2>2, CountOne
  <2> QED
    BY <2>3, <2>4
<1>7. Cardinality(N) \in {0, 1} /\ (Cardinality(N) = 1 <=> \E p \in Processor : runnext[p] = g)
  <2>1. \A x, y \in N : x = y
    BY <1>1, <1>2 DEF QueueInv
  <2>2. N # {} <=> \E p \in Processor : runnext[p] = g
    OBVIOUS
  <2> HIDE DEF N
  <2>3. Cardinality(N) \in {0, 1} /\ (Cardinality(N) = 1 <=> N # {})
    BY <2>1, CountOne
  <2> QED
    BY <2>2, <2>3
<1>8. /\ Cardinality(K) \in {0, 1}
      /\ Cardinality(K) = 1 <=> \E m \in Machine : pc[m] = "got" /\ curg[m] = g
  <2>1. \A x, y \in K : x = y
    BY <1>1 DEF QueueInv
  <2>2. K # {} <=> \E m \in Machine : pc[m] = "got" /\ curg[m] = g
    OBVIOUS
  <2> HIDE DEF K
  <2>3. Cardinality(K) \in {0, 1} /\ (Cardinality(K) = 1 <=> K # {})
    BY <2>1, CountOne
  <2> QED
    BY <2>2, <2>3
<1>9. Copies(g) = A + Cardinality(L) + Cardinality(N) + Cardinality(K)
  BY DEF Copies
<1> HIDE DEF A, L, N, K
<1>10. status[g] = "runnable" <=> A = 1 \/ Cardinality(L) = 1 \/ Cardinality(N) = 1 \/ Cardinality(K) = 1
  BY <1>1, <1>3, <1>6, <1>7, <1>8 DEF StatusInv
<1>11. /\ A = 1 => Cardinality(L) # 1 /\ Cardinality(N) # 1 /\ Cardinality(K) # 1
       /\ Cardinality(L) = 1 => Cardinality(N) # 1 /\ Cardinality(K) # 1
       /\ Cardinality(N) = 1 => Cardinality(K) # 1
  <2>1. g \in Range(runq) => /\ ~\E p \in Processor : g \in Range(local[p])
                             /\ ~\E p \in Processor : runnext[p] = g
                             /\ ~\E m \in Machine : pc[m] = "got" /\ curg[m] = g
    BY <1>1 DEF QueueInv
  <2>2. (\E p \in Processor : g \in Range(local[p])) =>
          /\ ~\E p \in Processor : runnext[p] = g
          /\ ~\E m \in Machine : pc[m] = "got" /\ curg[m] = g
    BY <1>1 DEF QueueInv
  <2>3. (\E p \in Processor : runnext[p] = g) =>
          ~\E m \in Machine : pc[m] = "got" /\ curg[m] = g
    BY <1>1 DEF QueueInv
  <2> QED
    BY <1>3, <1>6, <1>7, <1>8, <2>1, <2>2, <2>3
<1> QED
  BY <1>3, <1>6, <1>7, <1>8, <1>9, <1>10, <1>11

(* A runnable goroutine is queued exactly once and no other is queued; one  *)
(* whose stack a thread uses is neither queued nor free.                    *)
THEOREM GoroutinesOnce == Spec => []EachGoroutineOnce
<1>1. IInv => EachGoroutineOnce
  <2> SUFFICES ASSUME IInv PROVE EachGoroutineOnce
    OBVIOUS
  <2>1. ASSUME NEW m \in Machine, OnStack(m)
        PROVE  /\ status[curg[m]] \in {"running", "dead"}
               /\ \A n \in Machine \ {m} : OnStack(n) => curg[n] # curg[m]
               /\ \A p \in Processor : Occurrences(curg[m], g_free[p]) = 0
    <3>1. /\ status[curg[m]] \in {"running", "dead"}
          /\ \A n \in Machine \ {m} : OnStack(n) => curg[n] # curg[m]
          /\ \A p \in Processor : curg[m] \notin Range(g_free[p])
      BY <2>1 DEF IInv, Shape, StackInv
    <3>2. ASSUME NEW p \in Processor PROVE Occurrences(curg[m], g_free[p]) = 0
      <4>1. PICK g \in Goroutine \cup {NoG}, s \in Seq(Goroutine) :
              g = curg[m] /\ s = g_free[p] /\ IsInjective(s)
        BY DEF IInv, Shape, TypeOK, StackInv
      <4>2. Occurrences(g, s) \in {0, 1} /\ (Occurrences(g, s) = 1 <=> g \in Range(s))
        BY <4>1, OccursOnce
      <4> QED
        BY <3>1, <4>1, <4>2
    <3> QED
      BY <3>1, <3>2
  <2> QED
    BY <2>1, CopiesCounted DEF EachGoroutineOnce
<1> QED
  BY <1>1, Invariance, PTL

(* Before a shutdown every P is idle, wired to one M, or held by one waker. *)
THEOREM ProcessorsOnce == Spec => []EachProcessorOnce
<1>1. IInv => EachProcessorOnce
  <2> SUFFICES ASSUME IInv, ~stopped, NEW p \in Processor PROVE Holders(p) = 1
    BY DEF EachProcessorOnce
  <2> DEFINE I == {i \in 1..Len(pidle) : pidle[i] = p}
             M == {t \in Thread : mp_p[t] = p}
             W == {t \in Thread : newp[t] = p}
  <2>1. OwnerInv /\ pidle \in Seq(Processor) /\ p # NoP
    BY IndexFacts DEF IInv, Shape, TypeOK
  <2>2. /\ IsInjective(pidle)
        /\ \A t \in Thread : mp_p[t] \notin Range(pidle) /\ newp[t] \notin Range(pidle)
        /\ \A t, u \in Thread :
             /\ mp_p[t] = mp_p[u] /\ mp_p[t] # NoP => t = u
             /\ newp[t] = newp[u] /\ newp[t] # NoP => t = u
             /\ mp_p[t] = newp[u] => mp_p[t] = NoP
        /\ p \in Range(pidle) \/ \E t \in Thread : mp_p[t] = p \/ newp[t] = p
    BY <2>1 DEF OwnerInv
  <2>3. Cardinality(I) \in {0, 1} /\ (Cardinality(I) = 1 <=> p \in Range(pidle))
    <3>1. Occurrences(p, pidle) = Cardinality(I)
      BY DEF Occurrences
    <3> QED
      BY <2>1, <2>2, <3>1, OccursOnce
  <2>4. Cardinality(M) \in {0, 1} /\ (Cardinality(M) = 1 <=> \E t \in Thread : mp_p[t] = p)
    <3>1. \A x, y \in M : x = y
      BY <2>1, <2>2
    <3>2. M # {} <=> \E t \in Thread : mp_p[t] = p
      OBVIOUS
    <3> HIDE DEF M
    <3>3. Cardinality(M) \in {0, 1} /\ (Cardinality(M) = 1 <=> M # {})
      BY <3>1, CountOne
    <3> QED
      BY <3>2, <3>3
  <2>5. Cardinality(W) \in {0, 1} /\ (Cardinality(W) = 1 <=> \E t \in Thread : newp[t] = p)
    <3>1. \A x, y \in W : x = y
      BY <2>1, <2>2
    <3>2. W # {} <=> \E t \in Thread : newp[t] = p
      OBVIOUS
    <3> HIDE DEF W
    <3>3. Cardinality(W) \in {0, 1} /\ (Cardinality(W) = 1 <=> W # {})
      BY <3>1, CountOne
    <3> QED
      BY <3>2, <3>3
  <2>6. Holders(p) = Cardinality(I) + Cardinality(M) + Cardinality(W)
    BY DEF Holders
  <2> HIDE DEF I, M, W
  <2>7. /\ Cardinality(I) = 1 => Cardinality(M) # 1 /\ Cardinality(W) # 1
        /\ Cardinality(M) = 1 => Cardinality(W) # 1
        /\ Cardinality(I) = 1 \/ Cardinality(M) = 1 \/ Cardinality(W) = 1
    BY <2>1, <2>2, <2>3, <2>4, <2>5
  <2> QED
    BY <2>3, <2>4, <2>5, <2>6, <2>7
<1> QED
  BY <1>1, Invariance, PTL
=============================================================================

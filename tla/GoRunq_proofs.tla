--------------------------- MODULE GoRunq_proofs ---------------------------
(***************************************************************************)
(* The safety properties of the lock-free run queue, for any number of     *)
(* goroutines and thieves, any size of the ring and any start of the       *)
(* counters, wrapping included.                                            *)
(*                                                                         *)
(* The counters are numbers modulo W, and a thief may have read a head     *)
(* that has moved since.  The invariant speaks of positions that do not    *)
(* wrap: the tail is at Start + puts, and a counter c is as far before it  *)
(* as Minus(runq_tail, c) says, which is right as long as fewer than W     *)
(* goroutines were put since c was the head.                               *)
(***************************************************************************)
EXTENDS GoRunq, SequenceFacts

-----------------------------------------------------------------------------
(* The inductive invariant *)

(* Positions that do not wrap: of the tail, and of a counter up to the tail. *)
End == Start + puts
At(c) == End - Minus(runq_tail, c)

Cell(a) == runq[a % local_queue_size]

Stored == {Cell(a) : a \in At(runq_head)..(End - 1)}

Putting == {"put", "put_store", "put_publish", "slow", "slow_copy", "slow_global"}

(* A counter that was the head, now or before. *)
Past(c) == Start <= At(c) /\ At(c) <= At(runq_head)

CounterInv ==
  /\ runq_tail = End % W
  /\ Past(runq_head) /\ NoDesync
  /\ pc \in {"put", "put_store", "put_publish"} => puts < MaxPuts
  /\ pc \in {"put_store", "put_publish"} => Minus(runq_tail, runq_head) < local_queue_size

(* Every slot that was ever published holds a goroutine. *)
CellInv == \A a \in Start..(End - 1) : Cell(a) \in Goroutine

OwnerInv ==
  /\ pc \in Putting \cup {"get_next"} => gp \in Goroutine
  /\ pc = "put_publish" => Cell(End) = gp
  /\ pc = "slow_copy" =>
       /\ Past(h) /\ Minus(runq_tail, h) <= local_queue_size /\ Len(batch) <= SlowCount(h)
       /\ \A i \in 1..Len(batch) : batch[i] = Cell(At(h) + i - 1)
  /\ pc \in {"get_copy", "get_cas"} => Past(h) /\ At(h) < End
  /\ pc = "get_cas" => gp = Cell(At(h))

(* What a thief has copied is what is in the ring, unless the head has moved. *)
ThiefOf(t) ==
  /\ tpc[t] \in {"tail", "copy"} => Past(th[t])
  /\ tpc[t] = "copy" =>
       /\ Minus(tt[t], th[t]) \in 1..local_queue_size
       /\ At(th[t]) + Minus(tt[t], th[t]) <= End
       /\ Len(tbatch[t]) <= StealCount(t)
       /\ th[t] = runq_head => \A i \in 1..Len(tbatch[t]) : tbatch[t][i] = Cell(At(th[t]) + i - 1)
  /\ tpc[t] # "copy" => tbatch[t] = <<>>
  /\ tpc[t] = "next_take" => tnext[t] \in Goroutine

ThiefInv == \A t \in Thief : ThiefOf(t)

(* No queue holds a goroutine twice. *)
OnceInv ==
  /\ \A a, b \in At(runq_head)..(End - 1) : Cell(a) = Cell(b) => a = b
  /\ IsInjective(glob)
  /\ pc = "slow_global" => IsInjective(batch)

One(b) == IF b THEN 1 ELSE 0

(* Every goroutine is in one place. *)
Places(g) ==
  out[g] + One(g \in Stored) + One(runnext = g) + One(g \in Range(glob))
         + One(pc \in Putting /\ gp = g) + One(pc = "slow_global" /\ g \in Range(batch))

PlaceInv == \A g \in Goroutine : Places(g) = 1

IInv ==
  /\ TypeOK /\ CounterInv /\ CellInv /\ OwnerInv /\ ThiefInv /\ OnceInv /\ PlaceInv

-----------------------------------------------------------------------------
(* Counters *)

(* What the proofs use of the constants. *)
LEMMA ConstFacts ==
  /\ W \in Nat \ {0} /\ local_queue_size \in Nat \ {0} /\ local_queue_size < W
  /\ Start \in 0..(W - 1) /\ MaxPuts \in 0..(W - 1) /\ NoG \notin Goroutine
  /\ W % local_queue_size = 0
BY RunqAssumption

(* The distance between two counters. *)
LEMMA MinusFacts ==
  ASSUME NEW a \in 0..(W - 1), NEW b \in 0..(W - 1)
  PROVE  /\ Minus(a, b) \in 0..(W - 1)
         /\ Minus(a, b) = IF b <= a THEN a - b ELSE a - b + W
<1> DEFINE x == a - b
<1>1. x \in Int /\ W \in Nat \ {0}
  BY ConstFacts
<1>2. CASE b <= a
  <2> DEFINE q == 0
  <2>1. x \in 0..(W - 1) /\ q \in Int /\ x = W * q + x
    BY <1>1, <1>2
  <2> HIDE DEF q
  <2>2. x % W = x
    BY <1>1, <2>1, ModUnique
  <2> QED
    BY <1>2, <2>1, <2>2 DEF Minus
<1>3. CASE ~(b <= a)
  <2> DEFINE q == -1
             r == x + W
  <2>1. r \in 0..(W - 1) /\ q \in Int /\ x = W * q + r
    BY <1>1, <1>3
  <2> HIDE DEF q, r
  <2>2. x % W = r
    BY <1>1, <2>1, ModUnique
  <2> QED
    BY <1>3, <2>1, <2>2 DEF Minus, r
<1> QED
  BY <1>2, <1>3

(* A counter some places further. *)
LEMMA PlusFacts ==
  ASSUME NEW a \in 0..(W - 1), NEW k \in 0..(W - 1)
  PROVE  /\ Plus(a, k) \in 0..(W - 1)
         /\ Plus(a, k) = IF a + k < W THEN a + k ELSE a + k - W
<1> DEFINE x == a + k
<1>1. x \in Int /\ W \in Nat \ {0}
  BY ConstFacts
<1>2. CASE x < W
  <2> DEFINE q == 0
  <2>1. x \in 0..(W - 1) /\ q \in Int /\ x = W * q + x
    BY <1>1, <1>2
  <2> HIDE DEF q
  <2>2. x % W = x
    BY <1>1, <2>1, ModUnique
  <2> QED
    BY <1>2, <2>1, <2>2 DEF Plus
<1>3. CASE ~(x < W)
  <2> DEFINE q == 1
             r == x - W
  <2>1. r \in 0..(W - 1) /\ q \in Int /\ x = W * q + r
    BY <1>1, <1>3
  <2> HIDE DEF q, r
  <2>2. x % W = r
    BY <1>1, <2>1, ModUnique
  <2>3. Plus(a, k) = r /\ r = a + k - W
    BY <1>1, <2>2 DEF Plus, r
  <2> QED
    BY <1>3, <2>1, <2>3
<1> QED
  BY <1>2, <1>3

(* The tail moves on by one: every counter is one further away, unless the *)
(* distance was as large as it can be.                                     *)
LEMMA TailMoves ==
  ASSUME NEW a \in 0..(W - 1), NEW c \in 0..(W - 1), Minus(a, c) < W - 1
  PROVE  Minus(Plus(a, 1), c) = Minus(a, c) + 1
<1>1. W \in Nat \ {0}
  BY ConstFacts
<1> DEFINE k == 1
<1>2. CASE W = 1
  BY <1>1, <1>2, MinusFacts
<1>3. CASE W > 1
  <2>1. k \in 0..(W - 1)
    BY <1>1, <1>3
  <2> HIDE DEF k
  <2> DEFINE b == Plus(a, k)
  <2>2. b \in 0..(W - 1) /\ b = IF a + k < W THEN a + k ELSE a + k - W
    BY <2>1, PlusFacts
  <2> HIDE DEF b
  <2>3. Minus(b, c) = IF c <= b THEN b - c ELSE b - c + W
    BY <2>2, MinusFacts
  <2>4. Minus(a, c) = IF c <= a THEN a - c ELSE a - c + W
    BY MinusFacts
  <2>5. Minus(b, c) = Minus(a, c) + 1
    BY <1>1, <2>2, <2>3, <2>4 DEF k
  <2> QED
    BY <2>5 DEF b, k
<1> QED
  BY <1>1, <1>2, <1>3

(* The head moves on by k, at most up to the tail. *)
LEMMA HeadMoves ==
  ASSUME NEW a \in 0..(W - 1), NEW c \in 0..(W - 1), NEW k \in 0..(W - 1), k <= Minus(a, c)
  PROVE  /\ Plus(c, k) \in 0..(W - 1)
         /\ Minus(a, Plus(c, k)) = Minus(a, c) - k
<1>1. W \in Nat \ {0}
  BY ConstFacts
<1> DEFINE b == Plus(c, k)
<1>2. b \in 0..(W - 1) /\ b = IF c + k < W THEN c + k ELSE c + k - W
  BY PlusFacts
<1> HIDE DEF b
<1>3. Minus(a, b) = IF b <= a THEN a - b ELSE a - b + W
  BY <1>2, MinusFacts
<1>4. Minus(a, c) = IF c <= a THEN a - c ELSE a - c + W
  BY MinusFacts
<1>5. Minus(a, b) = Minus(a, c) - k
  BY <1>1, <1>2, <1>3, <1>4
<1> QED
  BY <1>2, <1>5 DEF b

(* Counters at the same distance are equal. *)
LEMMA SameDistance ==
  ASSUME NEW a \in 0..(W - 1), NEW b \in 0..(W - 1), NEW c \in 0..(W - 1),
         Minus(a, b) = Minus(a, c)
  PROVE  b = c
<1>1. Minus(a, b) = IF b <= a THEN a - b ELSE a - b + W
  BY MinusFacts
<1>2. Minus(a, c) = IF c <= a THEN a - c ELSE a - c + W
  BY MinusFacts
<1>3. W \in Nat \ {0}
  BY ConstFacts
<1>4. (IF b <= a THEN a - b ELSE a - b + W) = (IF c <= a THEN a - c ELSE a - c + W)
  BY <1>1, <1>2
<1> QED
  BY <1>3, <1>4

(* The slot of a counter is the slot of its position. *)
LEMMA SlotAt ==
  ASSUME TypeOK, runq_tail = End % W, NEW c \in 0..(W - 1), NEW i \in 0..(W - 1)
  PROVE  /\ Slot(Plus(c, i)) = (At(c) + i) % local_queue_size
         /\ Slot(c) = At(c) % local_queue_size
<1> DEFINE n == local_queue_size
           q == End \div W
           z == W \div n
           d == Minus(runq_tail, c)
           p == Plus(c, i)
<1>0. W % n = 0
  BY ConstFacts
<1>1. W \in Nat \ {0} /\ n \in Nat \ {0} /\ runq_tail \in 0..(W - 1) /\ End \in Int
  BY ConstFacts DEF TypeOK, End
<1>2. q \in Int /\ End = W * q + runq_tail
  BY <1>1, DivMod
<1>3. z \in Int /\ W = n * z
  BY <1>0, <1>1, DivMod
<1>4. d \in Int /\ d = IF c <= runq_tail THEN runq_tail - c ELSE runq_tail - c + W
  <2>1. PICK r \in 0..(W - 1) : r = runq_tail
    BY <1>1
  <2>2. Minus(r, c) \in 0..(W - 1) /\ Minus(r, c) = IF c <= r THEN r - c ELSE r - c + W
    BY MinusFacts
  <2> QED
    BY <1>1, <2>1, <2>2
<1>5. p \in 0..(W - 1) /\ p = IF c + i < W THEN c + i ELSE c + i - W
  BY PlusFacts
<1>6. At(c) = End - d
  BY DEF At
<1> HIDE DEF n, q, z, d, p
<1>7. ASSUME NEW x \in Int, NEW y \in Int, NEW k \in Int, x = y + W * k
      PROVE  x % n = y % n
  <2> DEFINE l == z * k
  <2>1. W * k = n * l /\ l \in Int
    BY <1>1, <1>3
  <2> HIDE DEF l
  <2>2. x = y + n * l
    BY <1>7, <2>1
  <2> QED
    BY <1>1, <2>1, <2>2, ModShift
<1>8. \E k \in Int : At(c) = c + W * k
  <2>1. CASE c <= runq_tail
    <3> DEFINE v == W * q
    <3>1. v \in Int /\ End = v + runq_tail
      BY <1>1, <1>2
    <3>2. At(c) = End - (runq_tail - c)
      BY <1>4, <1>6, <2>1
    <3> HIDE DEF v
    <3>3. At(c) = c + v
      BY <1>1, <3>1, <3>2
    <3> QED
      BY <1>2, <3>3 DEF v
  <2>2. CASE ~(c <= runq_tail)
    <3>1. At(c) = c + (W * q - W)
      BY <1>1, <1>2, <1>4, <1>6, <2>2
    <3>2. W * (q - 1) = W * q - W /\ q - 1 \in Int
      BY <1>1, <1>2
    <3> QED
      BY <3>1, <3>2
  <2> QED
    BY <2>1, <2>2
<1>9. PICK k \in Int : At(c) = c + W * k
  BY <1>8
<1>10. At(c) % n = c % n
  <2>1. At(c) \in Int
    BY <1>1, <1>4, <1>6
  <2> QED
    BY <1>7, <1>9, <2>1
<1>11. \E l \in Int : At(c) + i = p + W * l
  <2>1. CASE c + i < W
    BY <1>1, <1>5, <1>9, <2>1
  <2>2. CASE ~(c + i < W)
    <3>1. At(c) + i = p + (W * k + W)
      BY <1>1, <1>5, <1>9, <2>2
    <3>2. W * (k + 1) = W * k + W /\ k + 1 \in Int
      BY <1>1
    <3> QED
      BY <3>1, <3>2
  <2> QED
    BY <2>1, <2>2
<1>12. (At(c) + i) % n = p % n
  <2>1. PICK l \in Int : At(c) + i = p + W * l
    BY <1>11
  <2>2. At(c) + i \in Int /\ p \in Int
    BY <1>1, <1>4, <1>5, <1>6
  <2> QED
    BY <1>7, <2>1, <2>2
<1> QED
  BY <1>10, <1>12 DEF Slot, n, p

-----------------------------------------------------------------------------
(* The ring *)

(* The positions of the head, of the tail and of any counter. *)
LEMMA Positions ==
  ASSUME IInv
  PROVE  /\ runq_head \in 0..(W - 1) /\ runq_tail \in 0..(W - 1)
         /\ puts \in 0..(W - 1) /\ End = Start + puts /\ Start \in Nat /\ End \in Nat
         /\ local_queue_size \in Nat \ {0} /\ W \in Nat \ {0} /\ local_queue_size < W
         /\ Minus(runq_tail, runq_head) \in 0..local_queue_size
         /\ At(runq_head) = End - Minus(runq_tail, runq_head)
         /\ At(runq_head) \in Start..End /\ End <= At(runq_head) + local_queue_size
         /\ \A c \in 0..(W - 1) :
              /\ Minus(runq_tail, c) \in 0..(W - 1) /\ At(c) = End - Minus(runq_tail, c)
              /\ At(c) \in Int /\ At(c) <= End
              /\ At(c) = At(runq_head) => c = runq_head
<1>1. /\ runq_head \in 0..(W - 1) /\ runq_tail \in 0..(W - 1) /\ puts \in 0..MaxPuts
  BY DEF IInv, TypeOK
<1>2. /\ local_queue_size \in Nat \ {0} /\ W \in Nat \ {0} /\ local_queue_size < W
      /\ MaxPuts \in 0..(W - 1) /\ Start \in Nat
  BY ConstFacts
<1>3. puts \in 0..(W - 1) /\ End = Start + puts /\ End \in Nat
  BY <1>1, <1>2 DEF End
<1>4. ASSUME NEW c \in 0..(W - 1)
      PROVE  /\ Minus(runq_tail, c) \in 0..(W - 1) /\ At(c) = End - Minus(runq_tail, c)
             /\ At(c) \in Int /\ At(c) <= End
             /\ At(c) = At(runq_head) => c = runq_head
  <2>1. Minus(runq_tail, c) \in 0..(W - 1)
    BY <1>1, MinusFacts
  <2>2. Minus(runq_tail, runq_head) \in 0..(W - 1)
    BY <1>1, MinusFacts
  <2>3. At(c) = End - Minus(runq_tail, c) /\ At(runq_head) = End - Minus(runq_tail, runq_head)
    BY DEF At
  <2>4. At(c) = At(runq_head) => Minus(runq_tail, c) = Minus(runq_tail, runq_head)
    BY <1>2, <1>3, <2>1, <2>2, <2>3
  <2>5. Minus(runq_tail, c) = Minus(runq_tail, runq_head) => c = runq_head
    BY <1>1, SameDistance
  <2> QED
    BY <1>2, <1>3, <2>1, <2>3, <2>4, <2>5
<1>5. Minus(runq_tail, runq_head) \in 0..(W - 1) /\ At(runq_head) = End - Minus(runq_tail, runq_head)
  BY <1>1, <1>4
<1>6. Minus(runq_tail, runq_head) <= local_queue_size /\ Start <= At(runq_head)
  BY DEF IInv, CounterInv, NoDesync, Past
<1> QED
  BY <1>1, <1>2, <1>3, <1>4, <1>5, <1>6

(* A position outside of the window of the same ring is in another slot. *)
LEMMA Apart ==
  ASSUME IInv, NEW a \in Int, NEW b \in Int, a < b + local_queue_size, b < a + local_queue_size,
         a % local_queue_size = b % local_queue_size
  PROVE  a = b
BY ModClose, Positions

(* What a step does to the ring. *)
LEMMA RingCases ==
  ASSUME IInv, Next
  PROVE  \/ UNCHANGED <<runq_head, runq_tail, runq, puts>>
         \/ PutStore
         \/ PutPublish
         \/ \E k \in 0..Minus(runq_tail, runq_head) :
              runq_head' = Plus(runq_head, k) /\ UNCHANGED <<runq_tail, runq, puts>>
<1> USE DEF ringVars, ownerVars, thiefVars
<1>0. Minus(runq_tail, runq_head) \in Nat
  BY Positions
<1>1. ASSUME NEW g \in Goroutine, runq_put(g) \/ runq_put_next(g)
      PROVE  UNCHANGED <<runq_head, runq_tail, runq, puts>>
  BY <1>1 DEF runq_put, runq_put_next
<1>2. CASE PutLoad \/ SlowLoad \/ SlowCopy \/ SlowGlobal \/ glob_runq_get
  BY <1>2 DEF PutLoad, SlowLoad, SlowCopy, SlowGlobal, glob_runq_get
<1>3. CASE GetNext \/ GetNextTake \/ GetLoad \/ GetCopy
  BY <1>3 DEF GetNext, GetNextTake, GetLoad, GetCopy
<1>4. CASE SlowClaim
  <2>1. CASE runq_head = h
    <3>1. \A n \in Nat : n \div 2 \in 0..n
      OBVIOUS
    <3>2. SlowCount(h) \in 0..Minus(runq_tail, runq_head)
      BY <1>0, <2>1, <3>1 DEF SlowCount
    <3> QED
      BY <1>4, <2>1, <3>2 DEF SlowClaim
  <2>2. CASE runq_head # h
    BY <1>4, <2>2 DEF SlowClaim
  <2> QED
    BY <2>1, <2>2
<1>5. CASE GetClaim
  <2>1. CASE runq_head = h
    <3>1. Minus(runq_tail, runq_head) >= 1
      <4>1. At(runq_head) < End
        BY <1>5, <2>1 DEF GetClaim, IInv, OwnerInv
      <4> QED
        BY <4>1, Positions
    <3> QED
      BY <1>0, <1>5, <2>1, <3>1 DEF GetClaim
  <2>2. CASE runq_head # h
    BY <1>5, <2>2 DEF GetClaim
  <2> QED
    BY <2>1, <2>2
<1>6. ASSUME NEW t \in Thief, StealHead(t) \/ StealTail(t) \/ StealCopy(t) \/ StealNext(t) \/ StealNextTake(t)
      PROVE  UNCHANGED <<runq_head, runq_tail, runq, puts>>
  BY <1>6 DEF StealHead, StealTail, StealCopy, StealNext, StealNextTake
<1>7. ASSUME NEW t \in Thief, StealClaim(t)
      PROVE  \/ UNCHANGED <<runq_head, runq_tail, runq, puts>>
             \/ \E k \in 0..Minus(runq_tail, runq_head) :
                  runq_head' = Plus(runq_head, k) /\ UNCHANGED <<runq_tail, runq, puts>>
  <2>1. CASE runq_head = th[t]
    <3> DEFINE d == Minus(tt[t], th[t])
    <3>1. d \in Nat /\ At(runq_head) + d <= End
      BY <1>7, <2>1 DEF StealClaim, IInv, ThiefInv, ThiefOf
    <3>2. \A n \in Nat : n - n \div 2 \in 0..n
      OBVIOUS
    <3>3. StealCount(t) \in 0..d
      BY <3>1, <3>2 DEF StealCount
    <3>4. d <= Minus(runq_tail, runq_head)
      BY <3>1, Positions
    <3> HIDE DEF d
    <3>5. StealCount(t) \in 0..Minus(runq_tail, runq_head)
      BY <1>0, <3>1, <3>3, <3>4
    <3> QED
      BY <1>7, <2>1, <3>5 DEF StealClaim
  <2>2. CASE runq_head # th[t]
    BY <1>7, <2>2 DEF StealClaim
  <2> QED
    BY <2>1, <2>2
<1> QED
  BY <1>1, <1>2, <1>3, <1>4, <1>5, <1>6, <1>7 DEF Next, OwnerStep, runq_steal

(* A claim moves the head on; nothing else moves. *)
LEMMA ClaimRing ==
  ASSUME IInv, NEW k \in 0..Minus(runq_tail, runq_head),
         runq_head' = Plus(runq_head, k), UNCHANGED <<runq_tail, runq, puts>>
  PROVE  /\ runq_head' \in 0..(W - 1)
         /\ At(runq_head)' = At(runq_head) + k
         /\ \A c \in 0..(W - 1) : At(c)' = At(c)
         /\ End' = End
<1>1. k \in 0..(W - 1) /\ k <= Minus(runq_tail, runq_head)
  BY Positions
<1>2. runq_head' \in 0..(W - 1) /\ Minus(runq_tail, runq_head') = Minus(runq_tail, runq_head) - k
  BY <1>1, Positions, HeadMoves
<1>3. End' = End /\ \A c \in 0..(W - 1) : At(c)' = At(c)
  BY DEF End, At
<1>4. At(runq_head)' = End - Minus(runq_tail, runq_head')
  BY DEF End, At
<1>5. At(runq_head)' = At(runq_head) + k
  BY <1>1, <1>2, <1>4, Positions
<1> QED
  BY <1>2, <1>3, <1>5

(* A put that is published makes the window one longer. *)
LEMMA PublishRing ==
  ASSUME IInv, PutPublish
  PROVE  /\ runq_tail' \in 0..(W - 1) /\ runq_tail' = End' % W
         /\ End' = End + 1 /\ puts' = puts + 1 /\ puts < MaxPuts
         /\ \A c \in 0..(W - 1) : Past(c) => At(c)' = At(c)
         /\ At(runq_head)' = At(runq_head)
<1>1. /\ puts < MaxPuts /\ puts' = puts + 1 /\ runq_tail' = Plus(runq_tail, 1)
      /\ UNCHANGED <<runq_head, runq>>
  BY DEF PutPublish, IInv, CounterInv
<1>2. /\ W \in Nat \ {0} /\ runq_tail \in 0..(W - 1) /\ puts \in Nat /\ MaxPuts <= W - 1
      /\ Start \in Nat /\ End = Start + puts /\ MaxPuts \in Nat
  BY ConstFacts, Positions
<1>3. End' = End + 1
  BY <1>1, <1>2 DEF End
<1> DEFINE u == 1
<1>4. u \in 0..(W - 1)
  BY <1>1, <1>2
<1> HIDE DEF u
<1>5. Plus(runq_tail, u) \in 0..(W - 1) /\ runq_tail' = Plus(runq_tail, u)
  <2>1. Plus(runq_tail, u) \in 0..(W - 1)
    BY <1>2, <1>4, PlusFacts
  <2> QED
    BY <1>1, <2>1 DEF u
<1>6. runq_tail' = End' % W
  <2>1. runq_tail = End % W
    BY DEF IInv, CounterInv
  <2> DEFINE e == End
             f == End + 1
             q == e \div W
             r == Plus(runq_tail, u)
  <2>2. e \in Int /\ f \in Int
    BY <1>2
  <2>3. q \in Int /\ e = W * q + runq_tail
    BY <1>2, <2>1, <2>2, DivMod
  <2>4. r \in 0..(W - 1) /\ r = IF runq_tail + u < W THEN runq_tail + u ELSE runq_tail + u - W
    BY <1>2, <1>4, PlusFacts
  <2>5. f = e + 1
    OBVIOUS
  <2> HIDE DEF e, f, q, r
  <2> DEFINE v == W * q
  <2>6. v \in Int /\ e = v + runq_tail
    BY <1>2, <2>3
  <2>7. CASE runq_tail + u < W
    <3>1. f = v + r
      BY <1>2, <2>4, <2>5, <2>6, <2>7 DEF u
    <3>2. f % W = r
      BY <1>2, <2>2, <2>3, <2>4, <3>1, ModUnique
    <3> QED
      BY <1>3, <1>5, <3>2 DEF f, r
  <2>8. CASE ~(runq_tail + u < W)
    <3> DEFINE p == q + 1
    <3>1. W * p = v + W /\ p \in Int
      BY <1>2, <2>3
    <3> HIDE DEF v, p
    <3>2. f = W * p + r
      BY <1>2, <2>4, <2>5, <2>6, <2>8, <3>1 DEF u
    <3>3. f % W = r
      BY <1>2, <2>2, <2>4, <3>1, <3>2, ModUnique
    <3> QED
      BY <1>3, <1>5, <3>3 DEF f, r
  <2> QED
    BY <2>7, <2>8
<1>7. ASSUME NEW c \in 0..(W - 1), Past(c)
      PROVE  At(c)' = At(c)
  <2>1. Minus(runq_tail, c) \in Nat /\ Minus(runq_tail, c) <= puts
    BY <1>2, <1>7, Positions DEF Past
  <2>2. Minus(runq_tail, c) < W - 1
    BY <1>1, <1>2, <2>1
  <2>3. Minus(runq_tail', c) = Minus(runq_tail, c) + 1
    BY <1>1, <1>2, <2>2, TailMoves
  <2>4. At(c)' = End' - Minus(runq_tail', c) /\ At(c) = End - Minus(runq_tail, c)
    BY DEF At
  <2> QED
    BY <1>2, <1>3, <2>1, <2>3, <2>4
<1>8. At(runq_head)' = At(runq_head)
  <2>1. PICK c \in 0..(W - 1) : c = runq_head /\ Past(c)
    BY Positions DEF IInv, CounterInv
  <2>2. At(runq_head)' = At(c)' /\ At(runq_head) = At(c)
    BY <1>1, <2>1 DEF At, End
  <2> QED
    BY <1>7, <2>1, <2>2
<1> QED
  BY <1>1, <1>3, <1>5, <1>6, <1>7, <1>8

(* A store goes to the slot after the window, so the window stays. *)
LEMMA StoreRing ==
  ASSUME IInv, PutStore
  PROVE  /\ gp \in Goroutine /\ runq' \in [0..(local_queue_size - 1) -> Goroutine \cup {NoG}]
         /\ Cell(End)' = gp
         /\ \A a \in Int : Cell(a)' = Cell(a) \/ Cell(a)' = gp
         /\ \A a \in At(runq_head)..(End - 1) : Cell(a)' = Cell(a)
<1> DEFINE n == local_queue_size
<1>1. /\ gp \in Goroutine /\ runq' = [runq EXCEPT ![Slot(runq_tail)] = gp]
      /\ UNCHANGED <<runq_head, runq_tail, puts>>
      /\ Minus(runq_tail, runq_head) < local_queue_size
  BY DEF PutStore, IInv, OwnerInv, CounterInv, Putting
<1>2. runq \in [0..(n - 1) -> Goroutine \cup {NoG}] /\ n \in Nat \ {0} /\ End \in Nat
  BY Positions DEF IInv, TypeOK
<1>3. Slot(runq_tail) = End % n
  <2>1. At(runq_tail) = End
    <3>1. Minus(runq_tail, runq_tail) = 0
      <4>1. PICK c \in 0..(W - 1) : c = runq_tail
        BY Positions
      <4>2. Minus(c, c) = IF c <= c THEN c - c ELSE c - c + W
        BY MinusFacts
      <4> QED
        BY <4>1, <4>2
    <3> QED
      BY <1>2, <3>1 DEF At
  <2> DEFINE i == 0
  <2>2. i \in 0..(W - 1) /\ runq_tail \in 0..(W - 1)
    BY Positions
  <2> HIDE DEF i
  <2>3. Slot(runq_tail) = At(runq_tail) % local_queue_size
    BY <2>2, SlotAt DEF IInv, CounterInv
  <2> QED
    BY <2>1, <2>3
<1>4. \A a \in Int : a % n \in 0..(n - 1)
  BY <1>2, DivMod
<1>5. ASSUME NEW a \in Int
      PROVE  Cell(a)' = IF a % n = End % n THEN gp ELSE Cell(a)
  BY <1>1, <1>2, <1>3, <1>4 DEF Cell
<1>6. ASSUME NEW a \in At(runq_head)..(End - 1)
      PROVE  Cell(a)' = Cell(a)
  <2>1. a \in Int /\ a < End /\ End < a + local_queue_size
    BY <1>1, Positions
  <2>2. PICK e \in Int : e = End /\ a < e + local_queue_size /\ e < a + local_queue_size
    BY <1>2, <2>1
  <2>3. a % local_queue_size = e % local_queue_size => a = e
    BY <2>1, <2>2, Apart
  <2>4. a % n # End % n
    BY <1>2, <2>1, <2>2, <2>3
  <2> QED
    BY <1>5, <2>1, <2>4
<1>7. runq' \in [0..(n - 1) -> Goroutine \cup {NoG}]
  BY <1>1, <1>2
<1>8. Cell(End)' = gp
  <2>1. End' = End
    BY <1>1 DEF End
  <2>2. Cell(End)' = runq'[End % n]
    BY <2>1 DEF Cell
  <2>3. End % n \in 0..(n - 1)
    <3>1. PICK e \in Int : e = End
      BY <1>2
    <3>2. e % n \in 0..(n - 1)
      BY <1>4
    <3> QED
      BY <3>1, <3>2
  <2>4. PICK s \in 0..(n - 1) : s = End % n
    BY <2>3
  <2>5. runq' = [runq EXCEPT ![s] = gp] /\ Cell(End)' = runq'[s]
    BY <1>1, <1>3, <2>2, <2>4
  <2> QED
    BY <1>2, <2>5
<1> QED
  BY <1>1, <1>5, <1>6, <1>7, <1>8

(* No step brings a head back that has moved, or changes the window but at *)
(* its ends.                                                               *)
LEMMA RingStep ==
  ASSUME IInv, Next
  PROVE  /\ runq_head' \in 0..(W - 1) /\ runq_tail' \in 0..(W - 1) /\ puts' \in 0..MaxPuts
         /\ runq' \in [0..(local_queue_size - 1) -> Goroutine \cup {NoG}]
         /\ runq_tail' = End' % W
         /\ End' \in {End, End + 1} /\ (End' # End => PutPublish)
         /\ At(runq_head)' \in At(runq_head)..End
         /\ \A c \in 0..(W - 1) :
              Past(c) => At(c)' = At(c) /\ Past(c)' /\ (c = runq_head' => c = runq_head)
         /\ \A a \in At(runq_head)..(End - 1) : Cell(a)' = Cell(a)
         /\ ~PutStore => \A a \in Int : Cell(a)' = Cell(a)
         /\ \A a \in Start..(End - 1) : Cell(a)' \in Goroutine
<1>1. /\ runq \in [0..(local_queue_size - 1) -> Goroutine \cup {NoG}]
      /\ runq_head \in 0..(W - 1) /\ runq_tail \in 0..(W - 1) /\ puts \in 0..MaxPuts
      /\ runq_tail = End % W /\ \A a \in Start..(End - 1) : Cell(a) \in Goroutine
  BY DEF IInv, TypeOK, CounterInv, CellInv
<1>2. ASSUME At(runq_head)' \in At(runq_head)..End,
             \A c \in 0..(W - 1) : Past(c) => At(c)' = At(c)
      PROVE  \A c \in 0..(W - 1) :
               Past(c) => At(c)' = At(c) /\ Past(c)' /\ (c = runq_head' => c = runq_head)
  <2>1. ASSUME NEW c \in 0..(W - 1), Past(c)
        PROVE  At(c)' = At(c) /\ Past(c)' /\ (c = runq_head' => c = runq_head)
    <3>1. At(c)' = At(c) /\ At(c) \in Int /\ Start <= At(c) /\ At(c) <= At(runq_head)
      BY <1>2, <2>1, Positions DEF Past
    <3>2. At(runq_head) \in Int /\ At(runq_head)' \in Int /\ At(runq_head) <= At(runq_head)'
      BY <1>2, Positions
    <3>3. Past(c)'
      <4>1. At(c) <= At(runq_head)'
        BY <3>1, <3>2
      <4> QED
        BY <3>1, <4>1 DEF Past
    <3>4. c = runq_head' => At(c)' = At(runq_head)'
      BY DEF At
    <3>5. c = runq_head' => At(c) = At(runq_head)
      BY <3>1, <3>2, <3>4
    <3> QED
      BY <3>1, <3>3, <3>5, Positions
  <2> QED
    BY <2>1
<1>3. CASE UNCHANGED <<runq_head, runq_tail, runq, puts>>
  <2>1. /\ End' = End /\ At(runq_head)' = At(runq_head)
        /\ \A c \in 0..(W - 1) : At(c)' = At(c)
        /\ \A a \in Int : Cell(a)' = Cell(a)
    BY <1>3 DEF End, At, Cell
  <2>2. At(runq_head)' \in At(runq_head)..End /\ At(runq_head) \in Int /\ Start \in Nat /\ End \in Nat
    BY <2>1, Positions
  <2>3. \A a \in Start..(End - 1) : a \in Int
    BY <2>2
  <2>4. \A a \in At(runq_head)..(End - 1) : a \in Int
    BY <2>2
  <2> QED
    BY <1>1, <1>2, <1>3, <2>1, <2>2, <2>3, <2>4
<1>4. CASE PutStore
  <2>1. UNCHANGED <<runq_head, runq_tail, puts>>
    BY <1>4 DEF PutStore
  <2>2. /\ End' = End /\ At(runq_head)' = At(runq_head)
        /\ \A c \in 0..(W - 1) : At(c)' = At(c)
    BY <2>1 DEF End, At
  <2>3. At(runq_head)' \in At(runq_head)..End /\ Start \in Nat /\ End \in Nat
    BY <2>2, Positions
  <2>4. \A a \in Start..(End - 1) : Cell(a)' \in Goroutine
    BY <1>1, <1>4, <2>3, StoreRing
  <2> QED
    BY <1>1, <1>2, <1>4, <2>1, <2>2, <2>3, <2>4, StoreRing
<1>5. CASE PutPublish
  <2>1. UNCHANGED <<runq_head, runq>>
    BY <1>5 DEF PutPublish
  <2>2. /\ runq_tail' \in 0..(W - 1) /\ runq_tail' = End' % W
        /\ End' = End + 1 /\ puts' = puts + 1 /\ puts < MaxPuts
        /\ \A c \in 0..(W - 1) : Past(c) => At(c)' = At(c)
        /\ At(runq_head)' = At(runq_head)
    BY <1>5, PublishRing
  <2>3. \A a \in Int : Cell(a)' = Cell(a)
    BY <2>1 DEF Cell
  <2>4. At(runq_head)' \in At(runq_head)..End /\ At(runq_head) \in Int /\ Start \in Nat /\ End \in Nat
    BY <2>2, Positions
  <2>5. puts' \in 0..MaxPuts
    BY <1>1, <2>2, ConstFacts
  <2>6. \A a \in Start..(End - 1) : a \in Int
    BY <2>4
  <2>7. \A a \in At(runq_head)..(End - 1) : a \in Int
    BY <2>4
  <2> QED
    BY <1>1, <1>2, <1>5, <2>1, <2>2, <2>3, <2>4, <2>5, <2>6, <2>7
<1>6. CASE \E k \in 0..Minus(runq_tail, runq_head) :
             runq_head' = Plus(runq_head, k) /\ UNCHANGED <<runq_tail, runq, puts>>
  <2>1. PICK k \in 0..Minus(runq_tail, runq_head) :
             runq_head' = Plus(runq_head, k) /\ UNCHANGED <<runq_tail, runq, puts>>
    BY <1>6
  <2>2. /\ runq_head' \in 0..(W - 1)
        /\ At(runq_head)' = At(runq_head) + k
        /\ \A c \in 0..(W - 1) : At(c)' = At(c)
        /\ End' = End
    BY <2>1, ClaimRing
  <2>3. \A a \in Int : Cell(a)' = Cell(a)
    BY <2>1 DEF Cell
  <2>4. At(runq_head)' \in At(runq_head)..End /\ At(runq_head) \in Int /\ Start \in Nat /\ End \in Nat
    BY <2>2, Positions
  <2>6. \A a \in Start..(End - 1) : a \in Int
    BY <2>4
  <2>7. \A a \in At(runq_head)..(End - 1) : a \in Int
    BY <2>4
  <2> QED
    BY <1>1, <1>2, <2>1, <2>2, <2>3, <2>4, <2>6, <2>7
<1> QED
  BY <1>3, <1>4, <1>5, <1>6, RingCases

-----------------------------------------------------------------------------
(* Counters, owner and thieves *)

(* Copying from the slot of a counter is copying from its position. *)
LEMMA CopyFacts ==
  ASSUME IInv, NEW c \in 0..(W - 1), NEW i \in 0..(W - 1)
  PROVE  /\ runq[Slot(Plus(c, i))] = Cell(At(c) + i) /\ runq[Slot(c)] = Cell(At(c))
         /\ Past(c) /\ At(c) + i < End => Cell(At(c) + i) \in Goroutine
<1>1. Slot(Plus(c, i)) = (At(c) + i) % local_queue_size /\ Slot(c) = At(c) % local_queue_size
  BY SlotAt DEF IInv, CounterInv
<1>2. ASSUME Past(c), At(c) + i < End
      PROVE  Cell(At(c) + i) \in Goroutine
  <2>1. At(c) + i \in Start..(End - 1)
    BY <1>2, Positions DEF Past
  <2> QED
    BY <2>1 DEF IInv, CellInv
<1> QED
  BY <1>1, <1>2 DEF Cell

(* What changes the program counter of the owner, and the rest of its state. *)
LEMMA OwnerSame ==
  ASSUME Next, ~OwnerStep
  PROVE  UNCHANGED <<pc, gp, batch, h, puts>> /\ ~PutStore /\ ~PutPublish
BY DEF Next, OwnerStep, runq_steal, glob_runq_get, StealHead, StealTail, StealCopy, StealClaim,
       StealNext, StealNextTake, ownerVars

(* The counters stay apart by the size of the ring at most. *)
LEMMA CounterStep ==
  ASSUME IInv, Next
  PROVE  CounterInv'
<1>1. /\ runq_tail' = End' % W /\ runq_head' \in 0..(W - 1) /\ runq_tail' \in 0..(W - 1)
      /\ End' \in {End, End + 1} /\ (End' # End => PutPublish)
      /\ At(runq_head)' \in At(runq_head)..End
  BY RingStep
<1>2. /\ At(runq_head) \in Start..End /\ End <= At(runq_head) + local_queue_size
      /\ Start \in Nat /\ End \in Nat /\ local_queue_size \in Nat
      /\ At(runq_head) = End - Minus(runq_tail, runq_head)
      /\ Minus(runq_tail, runq_head) \in Nat
  BY Positions
<1>3. Minus(runq_tail, runq_head)' \in Nat /\ At(runq_head)' = End' - Minus(runq_tail, runq_head)'
  <2>1. Minus(runq_tail', runq_head') \in 0..(W - 1)
    BY <1>1, MinusFacts
  <2> QED
    BY <2>1 DEF At, Minus
<1>4. Past(runq_head)'
  BY <1>1, <1>2 DEF Past
<1>5. NoDesync'
  <2>1. CASE End' = End
    BY <1>1, <1>2, <1>3, <2>1 DEF NoDesync
  <2>2. CASE End' # End
    <3>1. Minus(runq_tail, runq_head) < local_queue_size /\ End' = End + 1
      BY <1>1, <2>2 DEF PutPublish, IInv, CounterInv
    <3> QED
      BY <1>1, <1>2, <1>3, <3>1 DEF NoDesync
  <2> QED
    BY <2>1, <2>2
<1>6. pc' \in {"put", "put_store", "put_publish"} => puts' < MaxPuts
  <2>1. pc \in {"put", "put_store", "put_publish"} => puts < MaxPuts
    BY DEF IInv, CounterInv
  <2>2. CASE OwnerStep
    BY <2>1, <2>2 DEF OwnerStep, runq_put, runq_put_next, PutLoad, PutStore, PutPublish, SlowLoad,
         SlowCopy, SlowClaim, SlowGlobal, GetNext, GetNextTake, GetLoad, GetCopy, GetClaim
  <2>3. CASE ~OwnerStep
    BY <2>1, <2>3, OwnerSame
  <2> QED
    BY <2>2, <2>3
<1>7. ASSUME pc' \in {"put_store", "put_publish"}
      PROVE  Minus(runq_tail, runq_head)' < local_queue_size
  <2>1. Minus(runq_tail, runq_head) < local_queue_size /\ ~PutPublish
    <3>1. CASE OwnerStep
      <4>1. PutLoad \/ PutStore
        BY <1>7, <3>1 DEF OwnerStep, runq_put, runq_put_next, PutLoad, PutStore, PutPublish, SlowLoad,
           SlowCopy, SlowClaim, SlowGlobal, GetNext, GetNextTake, GetLoad, GetCopy, GetClaim
      <4> QED
        BY <1>7, <4>1 DEF PutLoad, PutStore, PutPublish, IInv, CounterInv
    <3>2. CASE ~OwnerStep
      BY <1>7, <3>2, OwnerSame DEF IInv, CounterInv
    <3> QED
      BY <3>1, <3>2
  <2>2. End' = End
    BY <1>1, <2>1
  <2> QED
    BY <1>1, <1>2, <1>3, <2>1, <2>2
<1> QED
  BY <1>1, <1>4, <1>5, <1>6, <1>7 DEF CounterInv

(* Every published slot holds a goroutine. *)
LEMMA CellStep ==
  ASSUME IInv, Next
  PROVE  CellInv'
<1>1. /\ End' \in {End, End + 1} /\ (End' # End => PutPublish)
      /\ \A a \in Start..(End - 1) : Cell(a)' \in Goroutine
      /\ ~PutStore => \A a \in Int : Cell(a)' = Cell(a)
  BY RingStep
<1>2. End \in Nat /\ Start \in Nat
  BY Positions
<1>3. ASSUME NEW a \in Start..(End' - 1)
      PROVE  Cell(a)' \in Goroutine
  <2>1. CASE a \in Start..(End - 1)
    BY <1>1, <2>1
  <2>2. CASE a \notin Start..(End - 1)
    <3>1. PutPublish /\ a = End
      <4>1. PICK e \in {End, End + 1} : e = End' /\ a \in Start..(e - 1)
        BY <1>1
      <4>2. e = End + 1 /\ a = End
        <5>1. PICK n \in Nat : n = End
          BY <1>2
        <5>2. e \in {n, n + 1} /\ a \in Start..(e - 1) /\ a \notin Start..(n - 1)
          BY <2>2, <4>1, <5>1
        <5>3. e = n + 1 /\ a = n
          BY <1>2, <5>2
        <5> QED
          BY <5>1, <5>3
      <4>3. End' # End
        BY <1>2, <4>1, <4>2
      <4> QED
        BY <1>1, <4>2, <4>3
    <3>2. Cell(End) = gp /\ gp \in Goroutine /\ ~PutStore
      BY <3>1 DEF PutPublish, PutStore, IInv, OwnerInv, Putting
    <3>3. Cell(a)' = Cell(a)
      BY <1>1, <1>2, <3>1, <3>2
    <3> QED
      BY <3>1, <3>2, <3>3
  <2> QED
    BY <2>1, <2>2
<1> QED
  BY <1>3 DEF CellInv

-----------------------------------------------------------------------------
(* Counting *)

(* How often a goroutine is in a sequence; once or not at all when the     *)
(* sequence has no repetitions.                                            *)
LEMMA OccursFacts ==
  ASSUME NEW S, NEW s \in Seq(S), NEW g
  PROVE  /\ Occurrences(g, s) \in Nat
         /\ IsInjective(s) => Occurrences(g, s) = One(g \in Range(s))
<1> DEFINE C == {i \in 1..Len(s) : s[i] = g}
<1>1. /\ IsInjective(s) <=> \A i, j \in 1 .. Len(s) : s[i] = s[j] => i = j
      /\ g \in Range(s) <=> \E i \in 1 .. Len(s) : s[i] = g
  BY RangeFacts
<1>2. IsInjective(s) => \A x, y \in C : x = y
  BY <1>1
<1>3. C # {} <=> g \in Range(s)
  BY <1>1
<1>4. Occurrences(g, s) = Cardinality(C)
  BY DEF Occurrences
<1>5. IsFiniteSet(C)
  <2> DEFINE a == 1
             b == Len(s)
  <2>1. a \in Int /\ b \in Int
    OBVIOUS
  <2> HIDE DEF a, b
  <2>2. IsFiniteSet(a..b)
    BY <2>1, FS_Interval
  <2>3. C \subseteq a..b
    BY DEF a, b
  <2> HIDE DEF C
  <2> QED
    BY <2>2, <2>3, FS_Subset
<1> HIDE DEF C
<1>6. Cardinality(C) \in Nat
  BY <1>5, FS_CardinalityType
<1>7. ASSUME IsInjective(s)
      PROVE  Cardinality(C) \in {0, 1} /\ (Cardinality(C) = 1 <=> C # {})
  <2>1. \A x, y \in C : x = y
    BY <1>2, <1>7
  <2> QED
    BY <2>1, CountOne
<1> QED
  BY <1>3, <1>4, <1>6, <1>7 DEF One

(* What handing out a sequence does to the counts. *)
LEMMA HandOutFacts ==
  ASSUME out \in [Goroutine -> Nat], NEW s \in Seq(Goroutine), HandOut(s)
  PROVE  /\ out' \in [Goroutine -> Nat]
         /\ IsInjective(s) => \A g \in Goroutine : out'[g] = out[g] + One(g \in Range(s))
<1>1. \A g \in Goroutine : out'[g] = out[g] + Occurrences(g, s)
  BY DEF HandOut
<1>2. \A g \in Goroutine : /\ Occurrences(g, s) \in Nat
                           /\ IsInjective(s) => Occurrences(g, s) = One(g \in Range(s))
  BY OccursFacts
<1>3. out' \in [Goroutine -> Nat]
  <2>1. \A g \in Goroutine : out[g] + Occurrences(g, s) \in Nat
    BY <1>2
  <2> QED
    BY <2>1 DEF HandOut
<1> QED
  BY <1>1, <1>2, <1>3

(* What handing out one goroutine does. *)
LEMMA HandOutOne ==
  ASSUME out \in [Goroutine -> Nat], NEW x \in Goroutine, HandOut(<<x>>)
  PROVE  /\ out' \in [Goroutine -> Nat]
         /\ \A g \in Goroutine : out'[g] = out[g] + One(g = x)
<1> DEFINE s == <<x>>
<1>1. s \in Seq(Goroutine) /\ Range(s) = {x} /\ IsInjective(s) /\ HandOut(s)
  BY UnitFacts
<1> HIDE DEF s
<1>2. /\ out' \in [Goroutine -> Nat]
      /\ \A g \in Goroutine : out'[g] = out[g] + One(g \in Range(s))
  BY <1>1, HandOutFacts
<1>3. \A g \in Goroutine : g \in Range(s) <=> g = x
  BY <1>1
<1> QED
  BY <1>2, <1>3 DEF One

-----------------------------------------------------------------------------
(* Copies *)

(* The owner copies a goroutine of the window as it was when it read the head. *)
LEMMA SlowCopyFacts ==
  ASSUME IInv, SlowCopy
  PROVE  /\ batch \in Seq(Goroutine) /\ Cell(At(h) + Len(batch)) \in Goroutine
         /\ batch' = Append(batch, Cell(At(h) + Len(batch)))
<1>1. /\ batch \in Seq(Goroutine) /\ h \in 0..(W - 1) /\ Past(h)
      /\ Minus(runq_tail, h) <= local_queue_size /\ Len(batch) < Minus(runq_tail, h) \div 2
      /\ batch' = Append(batch, runq[Slot(Plus(h, Len(batch)))])
  BY DEF SlowCopy, SlowCount, IInv, OwnerInv, TypeOK
<1>2. PICK c \in 0..(W - 1) : c = h
  BY <1>1
<1>3. Minus(runq_tail, c) \in Nat /\ At(c) = End - Minus(runq_tail, c) /\ End \in Nat
  BY Positions
<1>4. \A n \in Nat : n \div 2 \in 0..n
  OBVIOUS
<1>5. PICK i \in 0..(W - 1) : i = Len(batch)
  <2>1. Len(batch) \in Nat /\ Minus(runq_tail, c) \div 2 \in 0..Minus(runq_tail, c)
    BY <1>1, <1>3, <1>4
  <2>2. W \in Nat /\ Minus(runq_tail, c) < W
    BY Positions
  <2> QED
    BY <1>1, <1>2, <1>3, <2>1, <2>2
<1>6. At(c) + i < End
  BY <1>1, <1>2, <1>3, <1>4, <1>5
<1>7. runq[Slot(Plus(c, i))] = Cell(At(c) + i) /\ Cell(At(c) + i) \in Goroutine
  BY <1>1, <1>2, <1>6, CopyFacts
<1> QED
  BY <1>1, <1>2, <1>5, <1>7

(* So does a thief. *)
LEMMA StealCopyFacts ==
  ASSUME IInv, NEW t \in Thief, StealCopy(t)
  PROVE  /\ tbatch[t] \in Seq(Goroutine) /\ Cell(At(th[t]) + Len(tbatch[t])) \in Goroutine
         /\ tbatch' = [tbatch EXCEPT ![t] = Append(tbatch[t], Cell(At(th[t]) + Len(tbatch[t])))]
<1>1. /\ tbatch \in [Thief -> Seq(Goroutine)] /\ th[t] \in 0..(W - 1) /\ tbatch[t] \in Seq(Goroutine)
      /\ tpc[t] = "copy" /\ Len(tbatch[t]) < StealCount(t)
      /\ tbatch' = [tbatch EXCEPT ![t] = Append(tbatch[t], runq[Slot(Plus(th[t], Len(tbatch[t])))])]
  BY DEF StealCopy, IInv, TypeOK
<1>2. ThiefOf(t)
  BY DEF IInv, ThiefInv
<1> DEFINE d == Minus(tt[t], th[t])
<1>3. /\ Past(th[t]) /\ d \in 1..local_queue_size /\ At(th[t]) + d <= End
      /\ StealCount(t) = d - d \div 2
  BY <1>1, <1>2 DEF ThiefOf, StealCount
<1> HIDE DEF d
<1>4. PICK c \in 0..(W - 1) : c = th[t]
  BY <1>1
<1>5. \A n \in Nat : n - n \div 2 \in 0..n
  OBVIOUS
<1>6. StealCount(t) \in 0..d /\ d \in 1..local_queue_size
  BY <1>3, <1>5, Positions
<1>7. PICK i \in 0..(W - 1) : i = Len(tbatch[t]) /\ i < d
  <2>1. Len(tbatch[t]) \in Nat
    BY <1>1
  <2>2. W \in Nat /\ local_queue_size \in Nat /\ local_queue_size < W
    BY Positions
  <2> QED
    BY <1>1, <1>6, <2>1, <2>2
<1>8. At(c) + i < End
  <2>1. At(c) \in Int /\ End \in Nat
    BY Positions
  <2>2. At(c) + d <= End /\ d \in Nat
    BY <1>3, <1>4, <1>6
  <2> QED
    BY <1>7, <2>1, <2>2
<1>9. runq[Slot(Plus(c, i))] = Cell(At(c) + i) /\ Cell(At(c) + i) \in Goroutine
  BY <1>3, <1>4, <1>8, CopyFacts
<1> QED
  BY <1>1, <1>4, <1>7, <1>9

-----------------------------------------------------------------------------
(* Claims *)

(* The ring's oldest goroutines, in order. *)
Oldest(s) ==
  /\ s \in Seq(Goroutine) /\ Len(s) <= Minus(runq_tail, runq_head)
  /\ \A i \in 1..Len(s) : s[i] = Cell(At(runq_head) + i - 1)

(* What the owner moves to the global queue is the oldest half of the ring. *)
LEMMA SlowBatch ==
  ASSUME IInv, SlowClaim, runq_head = h
  PROVE  Oldest(batch) /\ runq_head' = Plus(runq_head, Len(batch)) /\ UNCHANGED <<runq_tail, runq, puts, out>>
<1>1. /\ batch \in Seq(Goroutine) /\ Len(batch) = Minus(runq_tail, h) \div 2
      /\ \A i \in 1..Len(batch) : batch[i] = Cell(At(h) + i - 1)
      /\ runq_head' = Plus(runq_head, Len(batch)) /\ UNCHANGED <<runq_tail, runq, puts, out>>
  BY DEF SlowClaim, SlowCount, IInv, OwnerInv, TypeOK
<1>2. Minus(runq_tail, h) \in Nat
  BY Positions
<1>3. \A n \in Nat : n \div 2 <= n
  OBVIOUS
<1> QED
  BY <1>1, <1>2, <1>3 DEF Oldest

(* What the owner takes is the oldest of the ring. *)
LEMMA GetBatch ==
  ASSUME IInv, GetClaim, runq_head = h
  PROVE  /\ gp \in Goroutine /\ Oldest(<<gp>>) /\ runq_head' = Plus(runq_head, Len(<<gp>>))
         /\ HandOut(<<gp>>) /\ UNCHANGED <<runq_tail, runq, puts>>
<1>1. /\ Past(h) /\ At(h) < End /\ gp = Cell(At(h)) /\ h \in 0..(W - 1)
      /\ runq_head' = Plus(h, 1) /\ HandOut(<<gp>>) /\ UNCHANGED <<runq_tail, runq, puts>>
  BY DEF GetClaim, IInv, OwnerInv, TypeOK
<1>2. gp \in Goroutine
  <2>1. At(h) \in Start..(End - 1)
    BY <1>1, Positions DEF Past
  <2> QED
    BY <1>1, <2>1 DEF IInv, CellInv
<1>3. Minus(runq_tail, runq_head) >= 1
  BY <1>1, Positions
<1>4. At(runq_head) \in Int /\ At(runq_head) + 1 - 1 = At(runq_head)
  BY Positions
<1> DEFINE s == <<gp>>
<1>5. s \in Seq(Goroutine) /\ Len(s) = 1 /\ s[1] = gp
  BY <1>2
<1>6. Len(s) <= Minus(runq_tail, runq_head)
  BY <1>3, <1>5, Positions
<1>7. \A i \in 1..Len(s) : s[i] = Cell(At(runq_head) + i - 1)
  <2>1. ASSUME NEW i \in 1..Len(s)
        PROVE  s[i] = Cell(At(runq_head) + i - 1)
    <3>1. i = 1
      BY <1>5
    <3>2. At(runq_head) + i - 1 = At(runq_head)
      BY <1>4, <3>1
    <3> QED
      BY <1>1, <1>5, <3>1, <3>2
  <2> QED
    BY <2>1
<1>8. Oldest(s)
  BY <1>5, <1>6, <1>7 DEF Oldest
<1> QED
  BY <1>1, <1>2, <1>5, <1>8

(* What a thief takes is the oldest half of the ring. *)
LEMMA StealBatch ==
  ASSUME IInv, NEW t \in Thief, StealClaim(t), runq_head = th[t]
  PROVE  /\ Oldest(tbatch[t]) /\ runq_head' = Plus(runq_head, Len(tbatch[t]))
         /\ HandOut(tbatch[t]) /\ UNCHANGED <<runq_tail, runq, puts>>
<1>1. /\ tbatch[t] \in Seq(Goroutine) /\ tpc[t] = "copy" /\ Len(tbatch[t]) = StealCount(t)
      /\ runq_head' = Plus(runq_head, Len(tbatch[t])) /\ HandOut(tbatch[t])
      /\ UNCHANGED <<runq_tail, runq, puts>>
  BY DEF StealClaim, IInv, TypeOK, ownerVars
<1> DEFINE d == Minus(tt[t], th[t])
<1>2. /\ d \in 1..local_queue_size /\ At(runq_head) + d <= End /\ StealCount(t) = d - d \div 2
      /\ \A i \in 1..Len(tbatch[t]) : tbatch[t][i] = Cell(At(runq_head) + i - 1)
  BY <1>1 DEF IInv, ThiefInv, ThiefOf, StealCount
<1> HIDE DEF d
<1>3. \A n \in Nat : n - n \div 2 \in 0..n
  OBVIOUS
<1>4. d \in Nat /\ StealCount(t) \in 0..d
  BY <1>2, <1>3, Positions
<1>5. d <= Minus(runq_tail, runq_head)
  BY <1>2, <1>4, Positions, SMTT(30)
<1>6. Len(tbatch[t]) <= Minus(runq_tail, runq_head)
  BY <1>1, <1>4, <1>5, Positions
<1> QED
  BY <1>1, <1>2, <1>6 DEF Oldest

(* The oldest are all different, and they are stored. *)
LEMMA OldestFacts ==
  ASSUME IInv, NEW s, Oldest(s)
  PROVE  /\ s \in Seq(Goroutine) /\ IsInjective(s) /\ Range(s) \subseteq Stored
         /\ \A x : x \in Range(s) <=> \E a \in At(runq_head)..(At(runq_head) + Len(s) - 1) : Cell(a) = x
<1>1. /\ s \in Seq(Goroutine) /\ Len(s) \in Nat
      /\ \A i \in 1..Len(s) : s[i] = Cell(At(runq_head) + i - 1)
  BY DEF Oldest
<1>2. PICK b \in Int : b = At(runq_head)
  BY Positions
<1>3. b + Len(s) <= End /\ End \in Nat
  <2>1. Len(s) <= Minus(runq_tail, runq_head)
    BY DEF Oldest
  <2> QED
    BY <1>1, <1>2, <2>1, Positions, SMTT(30)
<1>4. \A i \in 1..Len(s) : s[i] = Cell(b + i - 1) /\ b + i - 1 \in b..(End - 1)
  BY <1>1, <1>2, <1>3
<1>5. \A a, c \in b..(End - 1) : Cell(a) = Cell(c) => a = c
  BY <1>2 DEF IInv, OnceInv
<1>6. \A i, j \in 1..Len(s) : s[i] = s[j] => i = j
  <2>1. ASSUME NEW i \in 1..Len(s), NEW j \in 1..Len(s), s[i] = s[j]
        PROVE  i = j
    <3>1. b + i - 1 = b + j - 1
      BY <1>4, <1>5, <2>1
    <3> QED
      BY <1>1, <3>1
  <2> QED
    BY <2>1
<1>7. IsInjective(s) /\ \A x : x \in Range(s) <=> \E i \in 1..Len(s) : s[i] = x
  BY <1>1, <1>6, RangeFacts
<1>8. ASSUME NEW x
      PROVE  x \in Range(s) <=> \E a \in b..(b + Len(s) - 1) : Cell(a) = x
  <2>1. ASSUME NEW i \in 1..Len(s), s[i] = x
        PROVE  \E a \in b..(b + Len(s) - 1) : Cell(a) = x
    <3>1. b + i - 1 \in b..(b + Len(s) - 1)
      BY <1>1
    <3> QED
      BY <1>4, <2>1, <3>1
  <2>2. ASSUME NEW a \in b..(b + Len(s) - 1), Cell(a) = x
        PROVE  \E i \in 1..Len(s) : s[i] = x
    <3>1. PICK i \in 1..Len(s) : b + i - 1 = a
      <4>1. a - b + 1 \in 1..Len(s) /\ b + (a - b + 1) - 1 = a
        BY <1>1
      <4> QED
        BY <4>1
    <3> QED
      BY <1>4, <2>2, <3>1
  <2> QED
    BY <1>7, <2>1, <2>2
<1>9. Range(s) \subseteq Stored
  <2>1. ASSUME NEW x \in Range(s)
        PROVE  x \in Stored
    <3>1. PICK i \in 1..Len(s) : s[i] = x
      BY <1>7
    <3> QED
      BY <1>2, <1>4, <3>1 DEF Stored
  <2> QED
    BY <2>1
<1> QED
  BY <1>1, <1>2, <1>7, <1>8, <1>9

(* After a claim the claimed goroutines are not stored, and the others are. *)
LEMMA ClaimStored ==
  ASSUME IInv, NEW s, Oldest(s), runq_head' = Plus(runq_head, Len(s)), UNCHANGED <<runq_tail, runq, puts>>
  PROVE  Stored' = Stored \ Range(s)
<1>1. s \in Seq(Goroutine) /\ Len(s) \in Nat /\ Len(s) <= Minus(runq_tail, runq_head)
  BY DEF Oldest
<1>2. PICK k \in 0..Minus(runq_tail, runq_head) : k = Len(s)
  BY <1>1, Positions
<1>3. At(runq_head)' = At(runq_head) + k /\ End' = End
  BY <1>2, ClaimRing
<1>4. PICK b \in Int : b = At(runq_head)
  BY Positions
<1>5. \A a : Cell(a)' = Cell(a)
  BY DEF Cell
<1>6. Stored' = {Cell(a) : a \in (b + k)..(End - 1)}
  BY <1>3, <1>4, <1>5 DEF Stored
<1>7. Stored = {Cell(a) : a \in b..(End - 1)}
  BY <1>4 DEF Stored
<1>8. \A x : x \in Range(s) <=> \E a \in b..(b + k - 1) : Cell(a) = x
  BY <1>2, <1>4, OldestFacts
<1>9. \A a, c \in b..(End - 1) : Cell(a) = Cell(c) => a = c
  BY <1>4 DEF IInv, OnceInv
<1>10. b + k <= End /\ End \in Nat /\ k \in Nat
  BY <1>2, <1>4, Positions, SMTT(30)
<1>11. ASSUME NEW x \in Stored'
       PROVE  x \in Stored \ Range(s)
  <2>1. PICK a \in (b + k)..(End - 1) : x = Cell(a)
    BY <1>6
  <2>2. a \in b..(End - 1)
    BY <1>10
  <2>3. ASSUME NEW c \in b..(b + k - 1), Cell(c) = x
        PROVE  FALSE
    <3>1. c \in b..(End - 1) /\ c # a
      BY <1>10
    <3> QED
      BY <1>9, <2>1, <2>2, <2>3, <3>1
  <2> QED
    BY <1>7, <1>8, <2>1, <2>2, <2>3
<1>12. ASSUME NEW x \in Stored \ Range(s)
       PROVE  x \in Stored'
  <2>1. PICK a \in b..(End - 1) : x = Cell(a)
    BY <1>7
  <2>2. a \notin b..(b + k - 1)
    BY <1>8, <2>1
  <2>3. a \in (b + k)..(End - 1)
    BY <1>10, <2>2
  <2> QED
    BY <1>6, <2>1, <2>3
<1> QED
  BY <1>11, <1>12

(* Any other step keeps what is stored, but for a put. *)
LEMMA KeepStored ==
  ASSUME IInv, UNCHANGED <<runq_head, runq_tail, puts>>, UNCHANGED runq \/ PutStore
  PROVE  Stored' = Stored
<1>1. At(runq_head)' = At(runq_head) /\ End' = End
  BY DEF At, End
<1>2. \A a \in At(runq_head)..(End - 1) : Cell(a)' = Cell(a)
  <2>1. CASE UNCHANGED runq
    BY <2>1 DEF Cell
  <2>2. CASE PutStore
    BY <2>2, StoreRing
  <2> QED
    BY <2>1, <2>2
<1> QED
  BY <1>1, <1>2 DEF Stored

(* A put that is published stores the goroutine, which was in no other slot. *)
LEMMA PutStored ==
  ASSUME IInv, PutPublish
  PROVE  Stored' = Stored \cup {gp} /\ gp \notin Stored /\ gp \in Goroutine /\ Cell(End) = gp
<1>1. gp \in Goroutine /\ Cell(End) = gp /\ pc \in Putting /\ UNCHANGED runq
  BY DEF PutPublish, IInv, OwnerInv, Putting
<1>2. \A a : Cell(a)' = Cell(a)
  BY <1>1 DEF Cell
<1>3. At(runq_head)' = At(runq_head) /\ End' = End + 1
  BY PublishRing
<1>4. PICK b \in Int : b = At(runq_head) /\ b <= End
  BY Positions
<1>5. End \in Nat
  BY Positions
<1>6. Stored' = {Cell(a) : a \in b..End}
  <2>1. End + 1 - 1 = End
    BY <1>5
  <2>2. At(runq_head)' = b /\ End' - 1 = End
    BY <1>3, <1>4, <1>5
  <2> QED
    BY <1>2, <2>2 DEF Stored
<1>7. Stored = {Cell(a) : a \in b..(End - 1)}
  BY <1>4 DEF Stored
<1>8. \A a : a \in b..End <=> a \in b..(End - 1) \/ a = End
  BY <1>4, <1>5
<1>9. gp \notin Stored
  <2>1. Places(gp) = 1
    BY <1>1 DEF IInv, PlaceInv
  <2>2. out[gp] \in Nat
    BY <1>1 DEF IInv, TypeOK
  <2> QED
    BY <1>1, <2>1, <2>2 DEF Places, One
<1>10. Stored' = Stored \cup {Cell(End)}
  BY <1>6, <1>7, <1>8
<1> QED
  BY <1>1, <1>9, <1>10

-----------------------------------------------------------------------------
(* Types *)

(* The goroutine the owner holds, or was told of, is one. *)
LEMMA HandFacts ==
  ASSUME IInv
  PROVE  /\ pc \in Putting \cup {"get_next"} => gp \in Goroutine
         /\ runnext # NoG => runnext \in Goroutine
         /\ \A t \in Thief : tpc[t] = "next_take" => tnext[t] \in Goroutine
BY DEF IInv, TypeOK, OwnerInv, ThiefInv, ThiefOf

(* The variables keep their types. *)
LEMMA TypeStep ==
  ASSUME IInv, Next
  PROVE  TypeOK'
<1> DEFINE PC == {"idle", "put", "put_store", "put_publish", "slow", "slow_copy", "slow_global",
                  "get_next", "get", "get_copy", "get_cas"}
           GP == Goroutine \cup {NoG}
           Count == 0..(W - 1)
           Owner == pc \in PC /\ gp \in GP /\ batch \in Seq(Goroutine) /\ h \in Count
           Shared == runnext \in GP /\ glob \in Seq(Goroutine) /\ out \in [Goroutine -> Nat]
           Thieves == /\ tpc \in [Thief -> {"idle", "tail", "next", "next_take", "copy"}]
                      /\ th \in [Thief -> Count]
                      /\ tt \in [Thief -> Count]
                      /\ tnext \in [Thief -> GP]
                      /\ tbatch \in [Thief -> Seq(Goroutine)]
<1> USE DEF ringVars, ownerVars, thiefVars
<1>1. /\ runq_head' \in Count /\ runq_tail' \in Count /\ puts' \in 0..MaxPuts
      /\ runq' \in [0..(local_queue_size - 1) -> GP]
  BY RingStep
<1> SUFFICES Owner' /\ Shared' /\ Thieves'
  BY <1>1 DEF TypeOK
<1>2. /\ pc \in PC /\ gp \in GP /\ batch \in Seq(Goroutine) /\ h \in Count /\ runnext \in GP
      /\ glob \in Seq(Goroutine) /\ out \in [Goroutine -> Nat]
      /\ runq_head \in Count /\ runq_tail \in Count /\ 0 \in Count /\ NoG \in GP
      /\ \A x \in Goroutine : x \in GP
  BY ConstFacts DEF IInv, TypeOK
<1>3. Thieves /\ <<>> \in Seq(Goroutine)
  BY DEF IInv, TypeOK
<1>0. ASSUME tpc' = tpc, th' = th, tt' = tt, tnext' = tnext, tbatch' = tbatch
      PROVE  Thieves'
  BY <1>0, <1>3
<1> HIDE DEF GP, Count
<1>4. ASSUME NEW g \in Goroutine, runq_put(g) \/ runq_put_next(g)
      PROVE  Owner' /\ Shared' /\ Thieves'
  <2>1. out' = [out EXCEPT ![g] = out[g] - 1] /\ out[g] > 0
    BY <1>4 DEF runq_put, runq_put_next
  <2>2. out' \in [Goroutine -> Nat]
    BY <1>2, <2>1
  <2> HIDE DEF Thieves
  <2> QED
    BY <1>0, <1>2, <1>4, <2>2 DEF runq_put, runq_put_next
<1>5. CASE PutLoad \/ PutStore \/ PutPublish \/ SlowLoad \/ SlowClaim
  <2> HIDE DEF Thieves
  <2> QED
    BY <1>0, <1>2, <1>3, <1>5 DEF PutLoad, PutStore, PutPublish, SlowLoad, SlowClaim
<1>6. CASE SlowCopy
  <2>1. batch' \in Seq(Goroutine)
    <3>1. PICK x \in Goroutine : batch' = Append(batch, x)
      BY <1>6, SlowCopyFacts
    <3> QED
      BY <1>2, <3>1
  <2> HIDE DEF Thieves
  <2> QED
    BY <1>0, <1>2, <1>3, <1>6, <2>1 DEF SlowCopy
<1>7. CASE SlowGlobal
  <2>1. glob' = glob \o batch \o <<gp>> /\ gp \in Goroutine
    BY <1>7, HandFacts DEF SlowGlobal, Putting
  <2>2. glob' \in Seq(Goroutine)
    <3>1. <<gp>> \in Seq(Goroutine)
      BY <2>1
    <3>2. glob \o batch \in Seq(Goroutine)
      BY <1>2
    <3> QED
      BY <2>1, <3>1, <3>2
  <2> HIDE DEF Thieves
  <2> QED
    BY <1>0, <1>2, <1>3, <1>7, <2>2 DEF SlowGlobal
<1>8. CASE glob_runq_get
  <2>1. Head(glob) \in Goroutine /\ glob' \in Seq(Goroutine)
    <3>1. glob # <<>> /\ glob' = Tail(glob)
      BY <1>8 DEF glob_runq_get
    <3> QED
      BY <1>2, <3>1
  <2>2. PICK x \in Goroutine : HandOut(<<x>>)
    BY <1>8, <2>1 DEF glob_runq_get
  <2>3. out' \in [Goroutine -> Nat]
    BY <1>2, <2>2, HandOutOne
  <2> HIDE DEF Thieves
  <2> QED
    BY <1>0, <1>2, <1>3, <1>8, <2>1, <2>3 DEF glob_runq_get
<1>9. CASE GetNext \/ GetLoad
  <2> HIDE DEF Thieves
  <2> QED
    BY <1>0, <1>2, <1>3, <1>9 DEF GetNext, GetLoad
<1>10. CASE GetNextTake
  <2>1. gp \in Goroutine
    BY <1>10, HandFacts DEF GetNextTake
  <2>2. HandOut(<<gp>>) => out' \in [Goroutine -> Nat]
    BY <1>2, <2>1, HandOutOne
  <2>3. out' \in [Goroutine -> Nat]
    BY <1>2, <1>10, <2>2 DEF GetNextTake
  <2> HIDE DEF Thieves
  <2> QED
    BY <1>0, <1>2, <1>3, <1>10, <2>3 DEF GetNextTake
<1>12. CASE GetCopy
  <2>1. gp' \in Goroutine
    <3>1. PICK c \in 0..(W - 1) : c = h /\ Past(c) /\ At(c) < End
      BY <1>2, <1>12 DEF GetCopy, IInv, OwnerInv, Count
    <3> DEFINE i == 0
    <3>2. i \in 0..(W - 1)
      BY <1>2 DEF Count
    <3> HIDE DEF i
    <3>3. runq[Slot(c)] = Cell(At(c))
      BY <3>2, CopyFacts
    <3>4. At(c) \in Start..(End - 1)
      BY <3>1, Positions DEF Past
    <3>5. Cell(At(c)) \in Goroutine
      BY <3>4 DEF IInv, CellInv
    <3> QED
      BY <1>12, <3>1, <3>3, <3>5 DEF GetCopy
  <2> HIDE DEF Thieves
  <2> QED
    BY <1>0, <1>2, <1>3, <1>12, <2>1 DEF GetCopy
<1>13. CASE GetClaim
  <2>1. out' \in [Goroutine -> Nat]
    <3>1. CASE runq_head = h
      <4>1. gp \in Goroutine /\ HandOut(<<gp>>)
        BY <1>13, <3>1, GetBatch
      <4> QED
        BY <1>2, <4>1, HandOutOne
    <3>2. CASE runq_head # h
      BY <1>2, <1>13, <3>2 DEF GetClaim
    <3> QED
      BY <3>1, <3>2
  <2> HIDE DEF Thieves
  <2> QED
    BY <1>0, <1>2, <1>3, <1>13, <2>1 DEF GetClaim
<1>14. ASSUME NEW t \in Thief, StealHead(t) \/ StealTail(t)
       PROVE  Owner' /\ Shared' /\ Thieves'
  <2>1. tpc' \in [Thief -> {"idle", "tail", "next", "next_take", "copy"}]
    BY <1>3, <1>14 DEF StealHead, StealTail
  <2>2. th' \in [Thief -> Count] /\ tt' \in [Thief -> Count]
    <3>1. /\ th' = [th EXCEPT ![t] = runq_head] \/ th' = th
          /\ tt' = [tt EXCEPT ![t] = runq_tail] \/ tt' = tt
      BY <1>14 DEF StealHead, StealTail
    <3> QED
      BY <1>2, <1>3, <3>1
  <2>3. /\ tnext' = tnext /\ tbatch' = tbatch /\ runnext' = runnext /\ glob' = glob /\ out' = out
        /\ pc' = pc /\ gp' = gp /\ batch' = batch /\ h' = h
    BY <1>14 DEF StealHead, StealTail
  <2> QED
    BY <1>2, <1>3, <2>1, <2>2, <2>3
<1>15. ASSUME NEW t \in Thief, StealCopy(t)
       PROVE  Owner' /\ Shared' /\ Thieves'
  <2>1. PICK x \in Goroutine : tbatch' = [tbatch EXCEPT ![t] = Append(tbatch[t], x)]
    BY <1>15, StealCopyFacts
  <2>2. Append(tbatch[t], x) \in Seq(Goroutine)
    BY <1>3
  <2>3. tbatch' \in [Thief -> Seq(Goroutine)]
    BY <1>3, <2>1, <2>2
  <2> QED
    BY <1>2, <1>3, <1>15, <2>3 DEF StealCopy
<1>16. ASSUME NEW t \in Thief, StealClaim(t)
       PROVE  Owner' /\ Shared' /\ Thieves'
  <2>1. out' \in [Goroutine -> Nat]
    <3>1. CASE runq_head = th[t]
      <4>1. PICK s \in Seq(Goroutine) : HandOut(s)
        BY <1>2, <1>3, <1>16, <3>1 DEF StealClaim
      <4> QED
        BY <1>2, <4>1, HandOutFacts
    <3>2. CASE runq_head # th[t]
      BY <1>2, <1>3, <1>16, <3>2 DEF StealClaim
    <3> QED
      BY <3>1, <3>2
  <2>2. tbatch' \in [Thief -> Seq(Goroutine)]
    BY <1>2, <1>3, <1>16 DEF StealClaim
  <2> QED
    BY <1>2, <1>3, <1>16, <2>1, <2>2 DEF StealClaim
<1>17. ASSUME NEW t \in Thief, StealNext(t)
       PROVE  Owner' /\ Shared' /\ Thieves'
  BY <1>2, <1>3, <1>17 DEF StealNext
<1>18. ASSUME NEW t \in Thief, StealNextTake(t)
       PROVE  Owner' /\ Shared' /\ Thieves'
  <2>1. PICK x \in Goroutine : x = tnext[t]
    BY <1>18, HandFacts DEF StealNextTake
  <2>2. HandOut(<<x>>) => out' \in [Goroutine -> Nat]
    BY <1>2, HandOutOne
  <2>3. out' \in [Goroutine -> Nat] /\ runnext' \in GP
    BY <1>2, <1>3, <1>18, <2>1, <2>2 DEF StealNextTake
  <2>4. Thieves'
    BY <1>2, <1>3, <1>18 DEF StealNextTake
  <2> HIDE DEF Thieves
  <2> QED
    BY <1>2, <1>3, <1>18, <2>3, <2>4 DEF StealNextTake
<1> HIDE DEF Owner, Shared, Thieves
<1> QED
  BY <1>4, <1>5, <1>6, <1>7, <1>8, <1>9, <1>10, <1>12, <1>13, <1>14, <1>15, <1>16, <1>17, <1>18
     DEF Next, OwnerStep, runq_steal

-----------------------------------------------------------------------------
(* The owner *)

(* Only a store and a put that is published change a slot or the tail. *)
LEMMA Settled ==
  ASSUME IInv, Next, ~PutStore, ~PutPublish
  PROVE  /\ End' = End /\ runq_tail' = runq_tail /\ runq' = runq
         /\ \A a : Cell(a)' = Cell(a)
         /\ \A c \in 0..(W - 1) : Past(c) => Past(c)'
<1>1. UNCHANGED <<runq_tail, runq, puts>>
  BY RingCases
<1>2. End' = End /\ runq_tail' = runq_tail /\ runq' = runq
  BY <1>1 DEF End
<1>3. \A a : Cell(a)' = Cell(a)
  BY <1>2 DEF Cell
<1>4. \A c \in 0..(W - 1) : Past(c) => Past(c)'
  BY RingStep
<1> QED
  BY <1>2, <1>3, <1>4

(* How the owner comes to where it holds something. *)
LEMMA OwnerMoves ==
  ASSUME Next
  PROVE  /\ pc' = "put_publish" => PutStore \/ ~OwnerStep
         /\ pc' = "slow_copy" => SlowLoad \/ SlowCopy \/ ~OwnerStep
         /\ pc' = "get_copy" => GetLoad \/ ~OwnerStep
         /\ pc' = "get_cas" => GetCopy \/ ~OwnerStep
         /\ pc' = "slow_global" => SlowLoad \/ SlowClaim \/ ~OwnerStep
<1>1. CASE OwnerStep
  BY <1>1 DEF OwnerStep, runq_put, runq_put_next, PutLoad, PutStore, PutPublish, SlowLoad,
     SlowCopy, SlowClaim, SlowGlobal, GetNext, GetNextTake, GetLoad, GetCopy, GetClaim
<1> QED
  BY <1>1

(* What the owner holds is a goroutine. *)
LEMMA OwnerHand ==
  ASSUME IInv, Next
  PROVE  pc' \in Putting \cup {"get_next"} => gp' \in Goroutine
<1>1. /\ pc \in Putting \cup {"get_next"} => gp \in Goroutine
      /\ runnext \in Goroutine \cup {NoG}
  BY DEF IInv, TypeOK, OwnerInv
<1>2. CASE OwnerStep
  <2>1. ASSUME NEW g \in Goroutine, runq_put(g) \/ runq_put_next(g)
        PROVE  pc' \in Putting \cup {"get_next"} => gp' \in Goroutine
    BY <1>1, <2>1 DEF runq_put, runq_put_next, Putting
  <2>2. CASE PutLoad \/ PutStore \/ PutPublish \/ SlowLoad \/ SlowCopy \/ SlowClaim \/ SlowGlobal
    BY <1>1, <2>2 DEF PutLoad, PutStore, PutPublish, SlowLoad, SlowCopy, SlowClaim, SlowGlobal, Putting
  <2>3. CASE GetNext \/ GetNextTake \/ GetLoad \/ GetCopy \/ GetClaim
    BY <1>1, <2>3 DEF GetNext, GetNextTake, GetLoad, GetCopy, GetClaim, Putting
  <2> QED
    BY <1>2, <2>1, <2>2, <2>3 DEF OwnerStep
<1>3. CASE ~OwnerStep
  BY <1>1, <1>3, OwnerSame
<1> QED
  BY <1>2, <1>3

(* What the owner stored is in the slot it publishes. *)
LEMMA OwnerPublish ==
  ASSUME IInv, Next
  PROVE  pc' = "put_publish" => Cell(End)' = gp'
<1>1. CASE PutStore
  <2>1. gp' = gp
    BY <1>1 DEF PutStore
  <2> QED
    BY <1>1, <2>1, StoreRing
<1>2. CASE ~OwnerStep
  <2>1. pc' = pc /\ gp' = gp /\ ~PutStore /\ ~PutPublish
    BY <1>2, OwnerSame
  <2>2. Cell(End)' = Cell(End)
    BY <2>1, Settled DEF Cell
  <2> QED
    BY <2>1, <2>2 DEF IInv, OwnerInv
<1> QED
  BY <1>1, <1>2, OwnerMoves

(* What the owner has copied is what the slots hold. *)
LEMMA OwnerCopy ==
  ASSUME IInv, Next, pc' = "slow_copy"
  PROVE  /\ Past(h)' /\ Minus(runq_tail, h)' <= local_queue_size /\ Len(batch') <= SlowCount(h)'
         /\ \A i \in 1..Len(batch') : batch'[i] = Cell(At(h) + i - 1)'
<1>1. CASE SlowLoad
  <2>1. h' = runq_head /\ runq_head' = runq_head /\ batch' = <<>> /\ ~PutStore /\ ~PutPublish
    BY <1>1 DEF SlowLoad, PutStore, PutPublish, ringVars
  <2>2. Past(h)' /\ Minus(runq_tail, h)' <= local_queue_size /\ Minus(runq_tail, h)' \in Nat
    <3>1. CounterInv' /\ h' = runq_head'
      BY <2>1, CounterStep
    <3>2. Minus(runq_tail, h)' = Minus(runq_tail, runq_head)
      BY <2>1, Settled DEF Minus
    <3>3. Past(h)' = Past(runq_head)'
      BY <3>1 DEF Past, At, Minus
    <3>4. Minus(runq_tail, runq_head) \in 0..local_queue_size /\ local_queue_size \in Nat
      BY Positions
    <3> QED
      BY <3>1, <3>2, <3>3, <3>4 DEF CounterInv
  <2>3. Len(batch') = 0 /\ \A n \in Nat : 0 <= n \div 2
    BY <2>1
  <2>4. Len(batch') <= SlowCount(h)'
    <3>1. SlowCount(h)' = Minus(runq_tail, h)' \div 2
      BY DEF SlowCount
    <3> QED
      BY <2>2, <2>3, <3>1
  <2>5. \A i \in 1..Len(batch') : FALSE
    BY <2>3
  <2> QED
    BY <2>2, <2>4, <2>5
<1>2. CASE SlowCopy
  <2>1. /\ pc = "slow_copy" /\ h' = h /\ Len(batch) < SlowCount(h) /\ ~PutStore /\ ~PutPublish
    BY <1>2 DEF SlowCopy, PutStore, PutPublish
  <2>2. /\ Past(h) /\ Minus(runq_tail, h) <= local_queue_size /\ h \in 0..(W - 1)
        /\ \A i \in 1..Len(batch) : batch[i] = Cell(At(h) + i - 1)
    BY <2>1 DEF IInv, OwnerInv, TypeOK
  <2>3. /\ batch \in Seq(Goroutine) /\ Cell(At(h) + Len(batch)) \in Goroutine
        /\ batch' = Append(batch, Cell(At(h) + Len(batch)))
    BY <1>2, SlowCopyFacts
  <2>4. /\ Minus(runq_tail, h)' = Minus(runq_tail, h) /\ At(h)' = At(h)
        /\ SlowCount(h)' = SlowCount(h) /\ \A a : Cell(a)' = Cell(a)
    BY <2>1, Settled DEF SlowCount, Minus, At
  <2>5. Past(h)'
    <3>1. PICK c \in 0..(W - 1) : c = h /\ Past(c)
      BY <2>2
    <3>2. Past(c)'
      BY <2>1, <3>1, Settled
    <3> QED
      BY <2>1, <3>1, <3>2 DEF Past, At, Minus
  <2>6. Len(batch') <= SlowCount(h)'
    <3>1. SlowCount(h) \in Int
      <4>1. Minus(runq_tail, h) \in Nat
        BY <2>2, Positions
      <4> QED
        BY <4>1 DEF SlowCount
    <3>2. Len(batch') = Len(batch) + 1 /\ Len(batch) \in Nat
      BY <2>3
    <3> QED
      BY <2>1, <2>4, <3>1, <3>2
  <2>7. ASSUME NEW i \in 1..Len(batch')
        PROVE  batch'[i] = Cell(At(h) + i - 1)'
    <3>1. At(h) \in Int
      BY <2>2, Positions
    <3>2. Cell(At(h) + i - 1)' = Cell(At(h) + i - 1)
      BY <2>1, <2>4, Settled DEF Cell
    <3>3. CASE i \in 1..Len(batch)
      BY <2>2, <2>3, <3>2, <3>3
    <3>4. CASE i = Len(batch) + 1
      <4>1. At(h) + i - 1 = At(h) + Len(batch)
        BY <2>3, <3>1, <3>4
      <4> QED
        BY <2>3, <3>2, <3>4, <4>1
    <3> QED
      BY <2>3, <3>3, <3>4
  <2> QED
    BY <2>2, <2>4, <2>5, <2>6, <2>7
<1>3. CASE ~OwnerStep
  <2>1. pc = "slow_copy" /\ h' = h /\ batch' = batch /\ ~PutStore /\ ~PutPublish
    BY <1>3, OwnerSame
  <2>2. /\ Past(h) /\ Minus(runq_tail, h) <= local_queue_size /\ Len(batch) <= SlowCount(h)
        /\ h \in 0..(W - 1) /\ \A i \in 1..Len(batch) : batch[i] = Cell(At(h) + i - 1)
    BY <2>1 DEF IInv, OwnerInv, TypeOK
  <2>3. /\ Minus(runq_tail, h)' = Minus(runq_tail, h) /\ At(h)' = At(h)
        /\ SlowCount(h)' = SlowCount(h)
    BY <2>1, Settled DEF SlowCount, Minus, At
  <2>4. Past(h)'
    <3>1. PICK c \in 0..(W - 1) : c = h /\ Past(c)
      BY <2>2
    <3>2. Past(c)'
      BY <2>1, <3>1, Settled
    <3> QED
      BY <2>1, <3>1, <3>2 DEF Past, At, Minus
  <2>5. \A i \in 1..Len(batch) : Cell(At(h) + i - 1)' = Cell(At(h) + i - 1)
    BY <2>1, <2>3, Settled DEF Cell
  <2> QED
    BY <2>1, <2>2, <2>3, <2>4, <2>5
<1> QED
  BY <1>1, <1>2, <1>3, OwnerMoves

(* The head the owner read was the head, and the ring was not empty then. *)
LEMMA OwnerGet ==
  ASSUME IInv, Next
  PROVE  /\ pc' \in {"get_copy", "get_cas"} => Past(h)' /\ At(h)' < End'
         /\ pc' = "get_cas" => gp' = Cell(At(h))'
<1>1. ASSUME pc \in {"get_copy", "get_cas"}, h' = h, ~PutStore, ~PutPublish
      PROVE  Past(h)' /\ At(h)' < End' /\ At(h)' = At(h) /\ Cell(At(h))' = Cell(At(h))
  <2>1. PICK c \in 0..(W - 1) : c = h /\ Past(c) /\ At(c) < End
    BY <1>1 DEF IInv, OwnerInv, TypeOK
  <2>2. Past(c)' /\ End' = End
    BY <1>1, <2>1, Settled
  <2>3. Past(h)' /\ At(h)' = At(h)
    BY <1>1, <2>1, <2>2, Settled DEF Past, At, Minus
  <2>4. Cell(At(h))' = Cell(At(h))
    BY <1>1, <2>3, Settled DEF Cell
  <2> QED
    BY <2>1, <2>2, <2>3, <2>4
<1>2. CASE GetLoad
  <2>1. ~PutStore /\ ~PutPublish /\ pc' # "get_cas" /\ runq_head' = runq_head
    BY <1>2 DEF GetLoad, PutStore, PutPublish, ringVars
  <2>2. ASSUME pc' = "get_copy"
        PROVE  Past(h)' /\ At(h)' < End'
    <3>1. h' = runq_head /\ runq_tail # runq_head
      BY <1>2, <2>2 DEF GetLoad
    <3>2. CounterInv'
      BY CounterStep
    <3>3. Past(h)' = Past(runq_head)' /\ At(h)' = At(runq_head)
      BY <2>1, <3>1, Settled DEF Past, At, Minus
    <3>4. Minus(runq_tail, runq_head) # 0
      <4>1. PICK a \in 0..(W - 1) : a = runq_tail
        BY Positions
      <4>2. PICK b \in 0..(W - 1) : b = runq_head
        BY Positions
      <4>3. Minus(a, b) = IF b <= a THEN a - b ELSE a - b + W
        BY MinusFacts
      <4>4. a # b /\ W \in Nat \ {0}
        BY <3>1, <4>1, <4>2, Positions
      <4>5. Minus(a, b) # 0
        BY <4>3, <4>4
      <4> QED
        BY <4>1, <4>2, <4>5
    <3>5. At(runq_head) < End
      BY <3>4, Positions
    <3>6. End' = End
      BY <2>1, Settled
    <3> QED
      BY <3>2, <3>3, <3>5, <3>6 DEF CounterInv
  <2> QED
    BY <2>1, <2>2
<1>3. CASE GetCopy
  <2>1. /\ pc = "get_copy" /\ h' = h /\ ~PutStore /\ ~PutPublish /\ gp' = runq[Slot(h)]
    BY <1>3 DEF GetCopy, PutStore, PutPublish
  <2>2. gp' = Cell(At(h))
    <3>1. PICK c \in 0..(W - 1) : c = h
      BY DEF IInv, TypeOK
    <3> DEFINE i == 0
    <3>2. i \in 0..(W - 1)
      BY Positions
    <3> HIDE DEF i
    <3>3. runq[Slot(c)] = Cell(At(c))
      BY <3>2, CopyFacts
    <3> QED
      BY <2>1, <3>1, <3>3
  <2> QED
    BY <1>1, <2>1, <2>2
<1>4. CASE ~OwnerStep
  <2>1. pc' = pc /\ h' = h /\ gp' = gp /\ ~PutStore /\ ~PutPublish
    BY <1>4, OwnerSame
  <2>2. pc = "get_cas" => gp = Cell(At(h))
    BY DEF IInv, OwnerInv
  <2> QED
    BY <1>1, <2>1, <2>2
<1> QED
  BY <1>2, <1>3, <1>4, OwnerMoves

(* The owner's part of the invariant. *)
LEMMA OwnerStepInv ==
  ASSUME IInv, Next
  PROVE  OwnerInv'
<1>1. pc' = "slow_copy" =>
         /\ Past(h)' /\ Minus(runq_tail, h)' <= local_queue_size /\ Len(batch') <= SlowCount(h)'
         /\ \A i \in 1..Len(batch') : batch'[i] = Cell(At(h) + i - 1)'
  BY OwnerCopy
<1> QED
  BY <1>1, OwnerHand, OwnerPublish, OwnerGet DEF OwnerInv

-----------------------------------------------------------------------------
(* The thieves *)

(* A thief that does not move keeps what it knows, whatever the others do. *)
LEMMA ThiefKept ==
  ASSUME IInv, Next, NEW t \in Thief, tpc'[t] = tpc[t], th'[t] = th[t], tt'[t] = tt[t],
         tnext'[t] = tnext[t], tbatch'[t] = tbatch[t]
  PROVE  ThiefOf(t)'
<1>1. ThiefOf(t)
  BY DEF IInv, ThiefInv
<1>2. PICK c \in 0..(W - 1) : c = th[t]
  BY DEF IInv, TypeOK
<1>3. Past(c) => At(c)' = At(c) /\ Past(c)' /\ (c = runq_head' => c = runq_head)
  BY RingStep
<1>4. Past(th[t])' = Past(c)' /\ At(th[t])' = At(c)' /\ Past(th[t]) = Past(c) /\ At(th[t]) = At(c)
  BY <1>2 DEF Past, At, Minus
<1>5. /\ tpc'[t] \in {"tail", "copy"} => Past(th[t])'
      /\ tpc'[t] # "copy" => tbatch'[t] = <<>>
      /\ tpc'[t] = "next_take" => tnext'[t] \in Goroutine
  BY <1>1, <1>3, <1>4 DEF ThiefOf
<1>6. ASSUME tpc[t] = "copy"
      PROVE  /\ Minus(tt[t], th[t])' \in 1..local_queue_size
             /\ At(th[t])' + Minus(tt[t], th[t])' <= End'
             /\ Len(tbatch'[t]) <= StealCount(t)'
             /\ th'[t] = runq_head' =>
                  \A i \in 1..Len(tbatch'[t]) : tbatch'[t][i] = Cell(At(th[t]) + i - 1)'
  <2> DEFINE d == Minus(tt[t], th[t])
  <2>1. /\ Past(c) /\ d \in 1..local_queue_size /\ At(c) + d <= End /\ Len(tbatch[t]) <= d - d \div 2
        /\ c = runq_head => \A i \in 1..Len(tbatch[t]) : tbatch[t][i] = Cell(At(c) + i - 1)
    BY <1>1, <1>2, <1>4, <1>6 DEF ThiefOf, StealCount
  <2>2. Minus(tt[t], th[t])' = d /\ StealCount(t)' = d - d \div 2
    BY DEF Minus, StealCount
  <2> HIDE DEF d
  <2>3. /\ At(c)' = At(c) /\ (c = runq_head' => c = runq_head)
    BY <1>3, <2>1
  <2>4. At(c) \in Int /\ End \in Nat /\ d \in Nat /\ End' \in {End, End + 1}
    BY <2>1, Positions, RingStep
  <2>5. At(c) + d <= End'
    BY <2>1, <2>4
  <2>6. ASSUME c = runq_head', NEW i \in 1..Len(tbatch[t])
        PROVE  tbatch[t][i] = Cell(At(c) + i - 1)'
    <3>1. Len(tbatch[t]) \in Nat
      BY DEF IInv, TypeOK
    <3>2. \A n \in Nat : n - n \div 2 <= n /\ n - n \div 2 \in Int
      OBVIOUS
    <3>3. At(c) + i - 1 \in At(c)..(End - 1)
      <4>1. Len(tbatch[t]) <= d
        <5>1. PICK m \in Int : m <= d /\ Len(tbatch[t]) <= m
          BY <2>1, <2>4, <3>2
        <5>2. d \in Nat
          BY <2>4
        <5> QED
          BY <3>1, <5>1, <5>2
      <4>2. i \in Int /\ 1 <= i /\ i <= d
        BY <2>4, <3>1, <4>1
      <4>3. At(c) + d <= End
        BY <2>1
      <4> QED
        BY <2>4, <4>2, <4>3
    <3>4. PICK a \in At(runq_head)..(End - 1) : a = At(c) + i - 1
      BY <2>3, <2>6, <3>3
    <3>5. Cell(a)' = Cell(a)
      BY RingStep
    <3>6. Cell(At(c) + i - 1)' = Cell(a)'
      BY <2>3, <3>4 DEF Cell
    <3> QED
      BY <2>1, <2>3, <2>6, <3>4, <3>5, <3>6
  <2>7. ASSUME th'[t] = runq_head', NEW i \in 1..Len(tbatch'[t])
        PROVE  tbatch'[t][i] = Cell(At(th[t]) + i - 1)'
    <3>1. tbatch[t][i] = Cell(At(c) + i - 1)'
      BY <1>2, <2>6, <2>7
    <3>2. Cell(At(th[t]) + i - 1)' = Cell(At(c) + i - 1)'
      BY <1>4 DEF Cell
    <3> QED
      BY <3>1, <3>2
  <2> QED
    BY <1>4, <2>1, <2>2, <2>3, <2>5, <2>7
<1> QED
  BY <1>5, <1>6 DEF ThiefOf

(* A thief's own step. *)
LEMMA ThiefMoves ==
  ASSUME IInv, Next, NEW t \in Thief, runq_steal(t)
  PROVE  ThiefOf(t)'
<1> USE DEF ringVars, ownerVars
<1>1. /\ tpc \in [Thief -> {"idle", "tail", "next", "next_take", "copy"}]
      /\ th \in [Thief -> 0..(W - 1)] /\ tt \in [Thief -> 0..(W - 1)]
      /\ tnext \in [Thief -> Goroutine \cup {NoG}] /\ tbatch \in [Thief -> Seq(Goroutine)]
      /\ runnext \in Goroutine \cup {NoG}
  BY DEF IInv, TypeOK
<1>2. ThiefOf(t) /\ CounterInv'
  BY CounterStep DEF IInv, ThiefInv
<1>3. CASE StealHead(t)
  <2>1. /\ tpc'[t] = "tail" /\ th'[t] = runq_head' /\ tbatch'[t] = <<>>
    BY <1>1, <1>2, <1>3 DEF StealHead, ThiefOf
  <2>2. Past(th[t])'
    BY <1>2, <2>1 DEF CounterInv, Past, At, Minus
  <2> QED
    BY <2>1, <2>2 DEF ThiefOf
<1>4. CASE StealTail(t)
  <2>1. /\ th'[t] = th[t] /\ tt'[t] = runq_tail /\ tbatch'[t] = <<>> /\ Past(th[t])
        /\ UNCHANGED <<runq_head, runq_tail, runq, puts>> /\ tpc'[t] # "next_take"
        /\ tpc'[t] = "copy" => /\ Minus(runq_tail, th[t]) # 0
                               /\ ~(Minus(runq_tail, th[t]) > local_queue_size)
    BY <1>1, <1>2, <1>4 DEF StealTail, ThiefOf
  <2>2. PICK c \in 0..(W - 1) : c = th[t]
    BY <1>1
  <2> DEFINE d == Minus(runq_tail, c)
  <2>3. /\ d \in Nat /\ At(c) = End - d /\ End \in Nat /\ local_queue_size \in Nat
    BY Positions
  <2>4. /\ Past(th[t])' /\ At(th[t])' = At(c) /\ End' = End /\ Minus(tt[t], th[t])' = d
        /\ StealCount(t)' = d - d \div 2
    BY <2>1, <2>2 DEF Past, At, End, Minus, StealCount
  <2>5. tpc'[t] = "copy" => d # 0 /\ ~(d > local_queue_size)
    BY <2>1, <2>2
  <2> HIDE DEF d
  <2>6. \A n \in Nat : 0 <= n - n \div 2
    OBVIOUS
  <2>7. Len(tbatch'[t]) = 0 /\ \A i \in 1..Len(tbatch'[t]) : FALSE
    BY <2>1
  <2>8. ASSUME tpc'[t] = "copy"
        PROVE  /\ Minus(tt[t], th[t])' \in 1..local_queue_size
               /\ At(th[t])' + Minus(tt[t], th[t])' <= End'
               /\ Len(tbatch'[t]) <= StealCount(t)'
    <3>1. d \in 1..local_queue_size /\ At(c) + d <= End /\ 0 <= d - d \div 2
      BY <2>3, <2>5, <2>6, <2>8
    <3> QED
      BY <2>4, <2>7, <3>1
  <2> QED
    BY <2>1, <2>4, <2>7, <2>8 DEF ThiefOf
<1>5. CASE StealCopy(t)
  <2>1. /\ tpc[t] = "copy" /\ tpc'[t] = "copy" /\ th'[t] = th[t] /\ tt'[t] = tt[t]
        /\ Len(tbatch[t]) < StealCount(t) /\ UNCHANGED <<runq_head, runq_tail, runq, puts>>
    BY <1>5 DEF StealCopy
  <2>2. /\ tbatch[t] \in Seq(Goroutine) /\ Cell(At(th[t]) + Len(tbatch[t])) \in Goroutine
        /\ tbatch'[t] = Append(tbatch[t], Cell(At(th[t]) + Len(tbatch[t])))
    BY <1>1, <1>5, StealCopyFacts
  <2>3. /\ Past(th[t])' = Past(th[t]) /\ At(th[t])' = At(th[t]) /\ End' = End
        /\ Minus(tt[t], th[t])' = Minus(tt[t], th[t]) /\ StealCount(t)' = StealCount(t)
    BY <2>1 DEF Past, At, End, Minus, StealCount
  <2>4. /\ Past(th[t]) /\ Minus(tt[t], th[t]) \in 1..local_queue_size
        /\ At(th[t]) + Minus(tt[t], th[t]) <= End
        /\ th[t] = runq_head => \A i \in 1..Len(tbatch[t]) : tbatch[t][i] = Cell(At(th[t]) + i - 1)
    BY <1>2, <2>1 DEF ThiefOf
  <2>5. Len(tbatch'[t]) <= StealCount(t)'
    <3>1. StealCount(t) \in Int
      <4>1. Minus(tt[t], th[t]) \in Nat
        BY <2>4, Positions
      <4> QED
        BY <4>1 DEF StealCount
    <3>2. Len(tbatch'[t]) = Len(tbatch[t]) + 1 /\ Len(tbatch[t]) \in Nat
      BY <2>2
    <3> QED
      BY <2>1, <2>3, <3>1, <3>2
  <2>6. ASSUME th'[t] = runq_head', NEW i \in 1..Len(tbatch'[t])
        PROVE  tbatch'[t][i] = Cell(At(th[t]) + i - 1)'
    <3>1. At(th[t]) \in Int
      BY <1>1, Positions
    <3>2. Cell(At(th[t]) + i - 1)' = Cell(At(th[t]) + i - 1)
      BY <2>1, <2>3 DEF Cell
    <3>3. CASE i \in 1..Len(tbatch[t])
      BY <2>1, <2>2, <2>4, <2>6, <3>2, <3>3, SMTT(30)
    <3>4. CASE i = Len(tbatch[t]) + 1
      <4>1. At(th[t]) + i - 1 = At(th[t]) + Len(tbatch[t])
        BY <2>2, <3>1, <3>4
      <4> QED
        BY <2>2, <3>2, <3>4, <4>1
    <3> QED
      BY <2>2, <3>3, <3>4
  <2> QED
    BY <2>1, <2>3, <2>4, <2>5, <2>6 DEF ThiefOf
<1>6. CASE StealClaim(t)
  BY <1>1, <1>6 DEF StealClaim, ThiefOf
<1>7. CASE StealNext(t)
  BY <1>1, <1>2, <1>7 DEF StealNext, ThiefOf
<1>8. CASE StealNextTake(t)
  BY <1>1, <1>2, <1>8 DEF StealNextTake, ThiefOf
<1> QED
  BY <1>3, <1>4, <1>5, <1>6, <1>7, <1>8 DEF runq_steal

(* The thieves' part of the invariant. *)
LEMMA ThiefStep ==
  ASSUME IInv, Next
  PROVE  ThiefInv'
<1> USE DEF ringVars, ownerVars, thiefVars
<1>1. SUFFICES ASSUME NEW t \in Thief PROVE ThiefOf(t)'
  BY DEF ThiefInv
<1>2. /\ tpc \in [Thief -> {"idle", "tail", "next", "next_take", "copy"}]
      /\ th \in [Thief -> 0..(W - 1)] /\ tt \in [Thief -> 0..(W - 1)]
      /\ tnext \in [Thief -> Goroutine \cup {NoG}] /\ tbatch \in [Thief -> Seq(Goroutine)]
  BY DEF IInv, TypeOK
<1>3. CASE runq_steal(t)
  BY <1>3, ThiefMoves
<1>4. ASSUME NEW u \in Thief, u # t, runq_steal(u)
      PROVE  ThiefOf(t)'
  <2>1. /\ tpc'[t] = tpc[t] /\ th'[t] = th[t] /\ tt'[t] = tt[t] /\ tnext'[t] = tnext[t]
        /\ tbatch'[t] = tbatch[t]
    BY <1>2, <1>4 DEF runq_steal, StealHead, StealTail, StealCopy, StealClaim, StealNext, StealNextTake
  <2> QED
    BY <2>1, ThiefKept
<1>5. CASE OwnerStep \/ glob_runq_get
  <2>1. tpc' = tpc /\ th' = th /\ tt' = tt /\ tnext' = tnext /\ tbatch' = tbatch
    BY <1>5 DEF OwnerStep, runq_put, runq_put_next, PutLoad, PutStore, PutPublish, SlowLoad,
       SlowCopy, SlowClaim, SlowGlobal, GetNext, GetNextTake, GetLoad, GetCopy, GetClaim, glob_runq_get
  <2> QED
    BY <2>1, ThiefKept
<1> QED
  BY <1>3, <1>4, <1>5 DEF Next

-----------------------------------------------------------------------------
(* Every goroutine in one place *)

(* What the owner holds is in neither of its queues, nor in both of them. *)
LEMMA OnePlace ==
  ASSUME IInv, NEW g \in Goroutine, pc = "slow_global"
  PROVE  /\ g \in Range(glob) => g \notin Range(batch) /\ g # gp
         /\ g \in Range(batch) => g # gp
<1>1. Places(g) = 1 /\ out[g] \in Nat
  BY DEF IInv, PlaceInv, TypeOK
<1>2. PICK a \in {0, 1} : a = One(g \in Stored)
  BY DEF One
<1>3. PICK b \in {0, 1} : b = One(runnext = g)
  BY DEF One
<1>4. PICK c \in {0, 1} : c = One(g \in Range(glob)) /\ (c = 1 <=> g \in Range(glob))
  BY DEF One
<1>5. PICK d \in {0, 1} : d = One(pc \in Putting /\ gp = g) /\ (d = 1 <=> gp = g)
  BY DEF One, Putting
<1>6. PICK e \in {0, 1} : e = One(pc = "slow_global" /\ g \in Range(batch)) /\ (e = 1 <=> g \in Range(batch))
  BY DEF One
<1>7. out[g] + a + b + c + d + e = 1
  BY <1>1, <1>2, <1>3, <1>4, <1>5, <1>6 DEF Places
<1>8. (c = 1 => d = 0 /\ e = 0) /\ (d = 1 => e = 0)
  BY <1>1, <1>7
<1> QED
  BY <1>4, <1>5, <1>6, <1>8

(* The ring, the global queue and the owner's batch have no repetitions. *)
LEMMA OnceStep ==
  ASSUME IInv, Next
  PROVE  OnceInv'
<1> USE DEF ringVars, ownerVars, thiefVars
<1>1. \A a, b \in (At(runq_head)..(End - 1))' : Cell(a)' = Cell(b)' => a = b
  <2>1. \A a, b \in At(runq_head)..(End - 1) : Cell(a) = Cell(b) => a = b
    BY DEF IInv, OnceInv
  <2>2. PICK p \in Int : p = At(runq_head)
    BY Positions
  <2>3. PICK e \in Nat : e = End
    BY Positions
  <2>4. PICK q \in Int : q = At(runq_head)' /\ p <= q
    BY <2>2, <2>3, RingStep
  <2>5. PICK f \in {e, e + 1} : f = End'
    BY <2>3, RingStep
  <2>6. \A a \in p..(e - 1) : Cell(a)' = Cell(a)
    BY <2>2, <2>3, RingStep
  <2>7. CASE f = e
    <3>1. \A a \in q..(e - 1) : a \in p..(e - 1)
      BY <2>4
    <3> QED
      BY <2>1, <2>2, <2>3, <2>4, <2>5, <2>6, <2>7, <3>1
  <2>8. CASE f = e + 1
    <3>1. PutPublish
      <4>1. End' # End
        BY <2>3, <2>5, <2>8
      <4> QED
        BY <4>1, RingStep
    <3>2. gp \notin Stored /\ Cell(e) = gp /\ ~PutStore
      BY <2>3, <3>1, PutStored DEF PutPublish, PutStore
    <3>3. \A a \in Int : Cell(a)' = Cell(a)
      BY <3>2, RingStep
    <3>4. \A a \in p..(e - 1) : Cell(a) # gp
      BY <2>2, <2>3, <3>2 DEF Stored
    <3>5. \A a \in q..e : a \in Int /\ (a \in p..(e - 1) \/ a = e)
      BY <2>4
    <3>6. \A a, b \in q..e : Cell(a)' = Cell(b)' => a = b
      <4>1. ASSUME NEW a \in q..e, NEW b \in q..e, Cell(a)' = Cell(b)'
            PROVE  a = b
        <5>1. Cell(a) = Cell(b)
          BY <3>3, <3>5, <4>1
        <5>2. (a \in p..(e - 1) \/ a = e) /\ (b \in p..(e - 1) \/ b = e)
          BY <3>5
        <5> QED
          BY <2>1, <2>2, <2>3, <3>2, <3>4, <5>1, <5>2
      <4> QED
        BY <4>1
    <3>7. f - 1 = e
      BY <2>8
    <3> QED
      BY <2>4, <2>5, <3>6, <3>7
  <2> QED
    BY <2>5, <2>7, <2>8
<1>2. glob \in Seq(Goroutine) /\ batch \in Seq(Goroutine) /\ out \in [Goroutine -> Nat]
  BY DEF IInv, TypeOK
<1>3. IsInjective(glob) /\ (pc = "slow_global" => IsInjective(batch)) /\ PlaceInv
  BY DEF IInv, OnceInv
<1>4. IsInjective(glob')
  <2>1. CASE SlowGlobal
    <3> DEFINE u == <<gp>>
               v == glob \o batch
    <3>1. pc = "slow_global" /\ gp \in Goroutine /\ glob' = v \o u
      BY <2>1, HandFacts DEF SlowGlobal, Putting
    <3>2. u \in Seq(Goroutine) /\ Range(u) = {gp} /\ IsInjective(u)
      BY <3>1, UnitFacts
    <3> HIDE DEF u
    <3>3. ASSUME NEW x \in Goroutine
          PROVE  /\ x \in Range(glob) => x \notin Range(batch) /\ x # gp
                 /\ x \in Range(batch) => x # gp
      BY <3>1, OnePlace
    <3>4. Range(glob) \subseteq Goroutine /\ Range(batch) \subseteq Goroutine
      BY <1>2, RangeFacts
    <3>5. Range(glob) \cap Range(batch) = {}
      BY <3>3, <3>4
    <3>6. v \in Seq(Goroutine) /\ IsInjective(v) /\ Range(v) = Range(glob) \cup Range(batch)
      BY <1>2, <1>3, <3>1, <3>5, ConcatFacts
    <3> HIDE DEF v
    <3>7. Range(v) \cap Range(u) = {}
      BY <3>2, <3>3, <3>4, <3>6
    <3> QED
      BY <3>1, <3>2, <3>6, <3>7, ConcatFacts
  <2>2. CASE glob_runq_get
    <3>1. glob # <<>> /\ glob' = Tail(glob)
      BY <2>2 DEF glob_runq_get
    <3> QED
      BY <1>2, <1>3, <3>1, HeadTailFacts
  <2>3. CASE ~SlowGlobal /\ ~glob_runq_get
    <3>1. glob' = glob
      BY <2>3 DEF Next, OwnerStep, runq_put, runq_put_next, PutLoad, PutStore, PutPublish, SlowLoad,
         SlowCopy, SlowClaim, GetNext, GetNextTake, GetLoad, GetCopy, GetClaim, runq_steal, StealHead,
         StealTail, StealCopy, StealClaim, StealNext, StealNextTake
    <3> QED
      BY <1>3, <3>1
  <2> QED
    BY <2>1, <2>2, <2>3
<1>5. ASSUME pc' = "slow_global"
      PROVE  IsInjective(batch')
  <2>1. CASE SlowLoad
    <3>1. batch' = <<>>
      BY <2>1 DEF SlowLoad
    <3> QED
      BY <1>2, <3>1, RangeFacts
  <2>2. CASE SlowClaim
    <3>1. runq_head = h /\ batch' = batch
      BY <1>5, <2>2 DEF SlowClaim
    <3> QED
      BY <2>2, <3>1, SlowBatch, OldestFacts
  <2>3. CASE ~OwnerStep
    <3>1. pc = "slow_global" /\ batch' = batch
      BY <1>5, <2>3, OwnerSame
    <3> QED
      BY <1>3, <3>1
  <2> QED
    BY <1>5, <2>1, <2>2, <2>3, OwnerMoves
<1> QED
  BY <1>1, <1>4, <1>5 DEF OnceInv

(* No step loses a goroutine or makes a second one. *)
LEMMA PlaceStep ==
  ASSUME IInv, Next
  PROVE  PlaceInv'
<1> USE DEF ringVars, ownerVars, thiefVars
<1> SUFFICES ASSUME NEW g \in Goroutine PROVE Places(g)' = 1
  BY DEF PlaceInv
<1> DEFINE R == One(g \in Stored)
           N == One(runnext = g)
           Q == One(g \in Range(glob))
           K == One(pc \in Putting /\ gp = g)
           B == One(pc = "slow_global" /\ g \in Range(batch))
<1>1. /\ out[g] \in Nat /\ R \in {0, 1} /\ N \in {0, 1} /\ Q \in {0, 1} /\ K \in {0, 1} /\ B \in {0, 1}
      /\ R' \in {0, 1} /\ N' \in {0, 1} /\ Q' \in {0, 1} /\ K' \in {0, 1} /\ B' \in {0, 1}
  BY DEF One, IInv, TypeOK
<1>2. out[g] + R + N + Q + K + B = 1
  BY DEF IInv, PlaceInv, Places
<1> SUFFICES out'[g] + R' + N' + Q' + K' + B' = 1
  BY DEF Places
<1>3. /\ out \in [Goroutine -> Nat] /\ glob \in Seq(Goroutine) /\ batch \in Seq(Goroutine)
      /\ runnext \in Goroutine \cup {NoG} /\ NoG \notin Goroutine
      /\ tbatch \in [Thief -> Seq(Goroutine)]
  BY ConstFacts DEF IInv, TypeOK
<1>4. ASSUME runq_head' = runq_head, runq_tail' = runq_tail, puts' = puts, runq' = runq \/ PutStore
      PROVE  R' = R
  <2>1. Stored' = Stored
    BY <1>4, KeepStored
  <2> QED
    BY <2>1 DEF One
<1>5. ASSUME NEW s, Oldest(s), runq_head' = Plus(runq_head, Len(s)), runq_tail' = runq_tail,
             runq' = runq, puts' = puts
      PROVE  R' = R - One(g \in Range(s)) /\ One(g \in Range(s)) \in {0, 1}
  <2>1. Stored' = Stored \ Range(s)
    BY <1>5, ClaimStored
  <2>2. Range(s) \subseteq Stored
    BY <1>5, OldestFacts
  <2>3. g \in Stored' <=> g \in Stored /\ g \notin Range(s)
    BY <2>1
  <2> QED
    BY <2>2, <2>3 DEF One
<1>6. ASSUME NEW x \in Goroutine, runq_put(x)
      PROVE  out'[g] + R' + N' + Q' + K' + B' = 1
  <2>1. /\ pc = "idle" /\ pc' = "put" /\ out' = [out EXCEPT ![x] = @ - 1] /\ gp' = x
        /\ runnext' = runnext /\ glob' = glob /\ batch' = batch /\ runq_head' = runq_head
        /\ runq_tail' = runq_tail /\ puts' = puts /\ runq' = runq
    BY <1>6 DEF runq_put
  <2>2. out'[g] = out[g] - One(g = x)
    BY <1>3, <2>1 DEF One
  <2>3. N' = N /\ Q' = Q /\ K = 0 /\ K' = One(g = x) /\ B' = 0 /\ B = 0 /\ One(g = x) \in {0, 1}
    BY <2>1 DEF One, Putting
  <2>4. R' = R
    BY <1>4, <2>1
  <2> HIDE DEF R, N, Q, K, B
  <2> QED
    BY <1>1, <1>2, <2>2, <2>3, <2>4
<1>7. ASSUME NEW x \in Goroutine, runq_put_next(x)
      PROVE  out'[g] + R' + N' + Q' + K' + B' = 1
  <2>1. /\ pc = "idle" /\ pc' = (IF runnext = NoG THEN "idle" ELSE "put")
        /\ out' = [out EXCEPT ![x] = @ - 1] /\ gp' = runnext
        /\ runnext' = x /\ glob' = glob /\ batch' = batch /\ runq_head' = runq_head
        /\ runq_tail' = runq_tail /\ puts' = puts /\ runq' = runq
    BY <1>7 DEF runq_put_next
  <2>2. out'[g] = out[g] - One(g = x)
    BY <1>3, <2>1 DEF One
  <2>3. N' = One(g = x) /\ Q' = Q /\ K = 0 /\ B' = 0 /\ B = 0 /\ One(g = x) \in {0, 1}
    BY <2>1 DEF One, Putting
  <2>4. K' = N
    BY <1>3, <2>1 DEF One, Putting
  <2>5. R' = R
    BY <1>4, <2>1
  <2> HIDE DEF R, N, Q, K, B
  <2> QED
    BY <1>1, <1>2, <2>2, <2>3, <2>4, <2>5
<1>8. CASE PutLoad \/ PutStore \/ SlowLoad \/ SlowCopy
  <2>1. /\ out' = out /\ runnext' = runnext /\ glob' = glob /\ gp' = gp /\ runq_head' = runq_head
        /\ runq_tail' = runq_tail /\ puts' = puts
    BY <1>8 DEF PutLoad, PutStore, SlowLoad, SlowCopy
  <2>2. runq' = runq \/ PutStore
    BY <1>8 DEF PutLoad, SlowLoad, SlowCopy
  <2>3. /\ pc \in Putting /\ pc' \in Putting /\ pc # "slow_global"
        /\ pc' = "slow_global" => batch' = <<>>
    BY <1>8 DEF PutLoad, PutStore, SlowLoad, SlowCopy, Putting
  <2>4. g \notin Range(<<>>)
    BY <1>3, RangeFacts
  <2>5. N' = N /\ Q' = Q /\ K' = K /\ out'[g] = out[g]
    BY <2>1, <2>3 DEF One
  <2>6. B' = 0 /\ B = 0
    BY <2>3, <2>4 DEF One
  <2>7. R' = R
    BY <1>4, <2>1, <2>2
  <2> HIDE DEF R, N, Q, K, B
  <2> QED
    BY <1>1, <1>2, <2>5, <2>6, <2>7
<1>9. CASE PutPublish
  <2>1. /\ out' = out /\ runnext' = runnext /\ glob' = glob /\ pc = "put_publish" /\ pc' = "idle"
    BY <1>9 DEF PutPublish
  <2>2. N' = N /\ Q' = Q /\ K = One(gp = g) /\ K' = 0 /\ B = 0 /\ B' = 0 /\ out'[g] = out[g]
    BY <2>1 DEF One, Putting
  <2>3. g \in Stored' <=> g \in Stored \/ g = gp
    BY <1>9, PutStored
  <2>4. gp \notin Stored
    BY <1>9, PutStored
  <2>5. R' = R + One(gp = g)
    BY <2>3, <2>4 DEF One
  <2> HIDE DEF R, N, Q, K, B
  <2> QED
    BY <1>1, <1>2, <2>2, <2>5
<1>10. CASE SlowClaim
  <2>1. /\ out' = out /\ runnext' = runnext /\ glob' = glob /\ gp' = gp /\ batch' = batch
        /\ runq_tail' = runq_tail /\ puts' = puts /\ runq' = runq /\ pc = "slow_copy"
    BY <1>10 DEF SlowClaim
  <2>2. N' = N /\ Q' = Q /\ B = 0 /\ out'[g] = out[g]
    BY <2>1 DEF One
  <2>3. CASE runq_head = h
    <3>1. Oldest(batch) /\ runq_head' = Plus(runq_head, Len(batch)) /\ pc' = "slow_global"
      BY <1>10, <2>3, SlowBatch DEF SlowClaim
    <3>2. R' = R - One(g \in Range(batch)) /\ One(g \in Range(batch)) \in {0, 1}
      BY <1>5, <2>1, <3>1
    <3>3. K' = K /\ B' = One(g \in Range(batch))
      BY <2>1, <3>1 DEF One, Putting
    <3> HIDE DEF R, N, Q, K, B
    <3> QED
      BY <1>1, <1>2, <2>2, <3>2, <3>3
  <2>4. CASE runq_head # h
    <3>1. runq_head' = runq_head /\ pc' = "slow"
      BY <1>10, <2>4 DEF SlowClaim
    <3>2. R' = R
      BY <1>4, <2>1, <3>1
    <3>3. K' = K /\ B' = 0
      BY <2>1, <3>1 DEF One, Putting
    <3> HIDE DEF R, N, Q, K, B
    <3> QED
      BY <1>1, <1>2, <2>2, <3>2, <3>3
  <2> QED
    BY <2>3, <2>4
<1>11. CASE SlowGlobal
  <2> DEFINE u == <<gp>>
             v == glob \o batch
  <2>1. /\ out' = out /\ runnext' = runnext /\ glob' = v \o u /\ runq_head' = runq_head
        /\ runq_tail' = runq_tail /\ puts' = puts /\ runq' = runq /\ pc = "slow_global" /\ pc' = "idle"
        /\ gp \in Goroutine
    BY <1>11, HandFacts DEF SlowGlobal, Putting
  <2>2. N' = N /\ K' = 0 /\ B' = 0 /\ out'[g] = out[g] /\ K = One(gp = g) /\ B = One(g \in Range(batch))
    BY <2>1 DEF One, Putting
  <2>3. R' = R
    BY <1>4, <2>1
  <2>4. v \in Seq(Goroutine) /\ Range(v) = Range(glob) \cup Range(batch)
    BY <1>3, ConcatFacts
  <2>5. u \in Seq(Goroutine) /\ Range(u) = {gp}
    BY <2>1, UnitFacts
  <2> HIDE DEF u, v
  <2>6. Range(glob') = Range(glob) \cup Range(batch) \cup {gp}
    <3>1. Range(v \o u) = Range(v) \cup Range(u)
      BY <2>4, <2>5, ConcatFacts
    <3> QED
      BY <2>1, <2>4, <2>5, <3>1
  <2>7. /\ g \in Range(glob) => g \notin Range(batch) /\ g # gp
        /\ g \in Range(batch) => g # gp
    BY <2>1, OnePlace
  <2>8. Q' = Q + One(g \in Range(batch)) + One(gp = g)
    BY <2>6, <2>7 DEF One
  <2> HIDE DEF R, N, Q, K, B
  <2> QED
    BY <1>1, <1>2, <2>2, <2>3, <2>8
<1>12. CASE glob_runq_get
  <2>1. /\ glob # <<>> /\ glob' = Tail(glob) /\ HandOut(<<Head(glob)>>)
        /\ runnext' = runnext /\ runq_head' = runq_head /\ runq_tail' = runq_tail /\ puts' = puts
        /\ runq' = runq /\ pc' = pc /\ gp' = gp /\ batch' = batch
    BY <1>12 DEF glob_runq_get
  <2>2. PICK x \in Goroutine : x = Head(glob)
    BY <1>3, <2>1, HeadTailFacts
  <2>3. out'[g] = out[g] + One(g = x) /\ One(g = x) \in {0, 1}
    <3>1. HandOut(<<x>>)
      BY <2>1, <2>2
    <3>2. out'[g] = out[g] + One(g = x)
      BY <1>3, <3>1, HandOutOne
    <3> QED
      BY <3>2 DEF One
  <2>4. N' = N /\ K' = K /\ B' = B
    BY <2>1 DEF One
  <2>5. R' = R
    BY <1>4, <2>1
  <2>6. Range(glob) = Range(glob') \cup {x} /\ x \notin Range(glob')
    BY <1>3, <2>1, <2>2, HeadTailFacts DEF IInv, OnceInv
  <2>7. Q = Q' + One(g = x)
    BY <2>6 DEF One
  <2> HIDE DEF R, N, Q, K, B
  <2> QED
    BY <1>1, <1>2, <2>3, <2>4, <2>5, <2>7
<1>13. CASE GetNext \/ GetLoad \/ GetCopy
  <2>1. /\ out' = out /\ runnext' = runnext /\ glob' = glob /\ runq_head' = runq_head
        /\ runq_tail' = runq_tail /\ puts' = puts /\ runq' = runq
    BY <1>13 DEF GetNext, GetLoad, GetCopy
  <2>2. pc \notin Putting /\ pc' \notin Putting /\ pc # "slow_global" /\ pc' # "slow_global"
    BY <1>13 DEF GetNext, GetLoad, GetCopy, Putting
  <2>3. N' = N /\ Q' = Q /\ K' = K /\ out'[g] = out[g] /\ B' = B
    BY <2>1, <2>2 DEF One
  <2>4. R' = R
    BY <1>4, <2>1
  <2> HIDE DEF R, N, Q, K, B
  <2> QED
    BY <1>1, <1>2, <2>3, <2>4
<1>14. CASE GetNextTake
  <2>1. /\ glob' = glob /\ runq_head' = runq_head /\ gp \in Goroutine
        /\ runq_tail' = runq_tail /\ puts' = puts /\ runq' = runq
    BY <1>14, HandFacts DEF GetNextTake
  <2>2. pc \notin Putting /\ pc' \notin Putting /\ pc # "slow_global" /\ pc' # "slow_global"
    BY <1>14 DEF GetNextTake, Putting
  <2>3. Q' = Q /\ K' = K /\ B' = B
    BY <2>1, <2>2 DEF One
  <2>4. R' = R
    BY <1>4, <2>1
  <2>5. CASE runnext = gp
    <3>1. runnext' = NoG /\ HandOut(<<gp>>)
      BY <1>14, <2>5 DEF GetNextTake
    <3>2. out'[g] = out[g] + One(g = gp)
      BY <1>3, <2>1, <3>1, HandOutOne
    <3>3. N' = 0 /\ N = One(g = gp)
      BY <1>3, <2>5, <3>1 DEF One
    <3> HIDE DEF R, N, Q, K, B
    <3> QED
      BY <1>1, <1>2, <2>3, <2>4, <3>2, <3>3
  <2>6. CASE runnext # gp
    <3>1. N' = N /\ out'[g] = out[g]
      BY <1>14, <2>6 DEF GetNextTake
    <3> HIDE DEF R, N, Q, K, B
    <3> QED
      BY <1>1, <1>2, <2>3, <2>4, <3>1
  <2> QED
    BY <2>5, <2>6
<1>15. CASE GetClaim
  <2>1. runnext' = runnext /\ glob' = glob /\ runq_tail' = runq_tail /\ puts' = puts /\ runq' = runq
    BY <1>15 DEF GetClaim
  <2>2. pc \notin Putting /\ pc' \notin Putting /\ pc # "slow_global" /\ pc' # "slow_global"
    BY <1>15 DEF GetClaim, Putting
  <2>3. N' = N /\ Q' = Q /\ K' = K /\ B' = B
    BY <2>1, <2>2 DEF One
  <2>4. CASE runq_head = h
    <3> DEFINE s == <<gp>>
    <3>1. /\ gp \in Goroutine /\ Oldest(s) /\ runq_head' = Plus(runq_head, Len(s)) /\ HandOut(s)
      BY <1>15, <2>4, GetBatch
    <3>2. s \in Seq(Goroutine) /\ IsInjective(s)
      BY <3>1, UnitFacts
    <3> HIDE DEF s
    <3>3. R' = R - One(g \in Range(s)) /\ One(g \in Range(s)) \in {0, 1}
      BY <1>5, <2>1, <3>1
    <3>4. out'[g] = out[g] + One(g \in Range(s))
      BY <1>3, <3>1, <3>2, HandOutFacts
    <3> HIDE DEF R, N, Q, K, B
    <3> QED
      BY <1>1, <1>2, <2>3, <3>3, <3>4
  <2>5. CASE runq_head # h
    <3>1. runq_head' = runq_head /\ out' = out
      BY <1>15, <2>5 DEF GetClaim
    <3>2. R' = R
      BY <1>4, <2>1, <3>1
    <3> HIDE DEF R, N, Q, K, B
    <3> QED
      BY <1>1, <1>2, <2>3, <3>1, <3>2
  <2> QED
    BY <2>4, <2>5
<1>16. ASSUME NEW t \in Thief, StealHead(t) \/ StealTail(t) \/ StealCopy(t) \/ StealNext(t)
       PROVE  out'[g] + R' + N' + Q' + K' + B' = 1
  <2>1. /\ out' = out /\ runnext' = runnext /\ glob' = glob /\ runq_head' = runq_head
        /\ runq_tail' = runq_tail /\ puts' = puts /\ runq' = runq /\ pc' = pc /\ gp' = gp
        /\ batch' = batch
    BY <1>16 DEF StealHead, StealTail, StealCopy, StealNext
  <2>2. N' = N /\ Q' = Q /\ K' = K /\ out'[g] = out[g] /\ B' = B
    BY <2>1 DEF One
  <2>3. R' = R
    BY <1>4, <2>1
  <2> HIDE DEF R, N, Q, K, B
  <2> QED
    BY <1>1, <1>2, <2>2, <2>3
<1>17. ASSUME NEW t \in Thief, StealClaim(t)
       PROVE  out'[g] + R' + N' + Q' + K' + B' = 1
  <2>1. /\ runnext' = runnext /\ glob' = glob
        /\ runq_tail' = runq_tail /\ puts' = puts /\ runq' = runq /\ pc' = pc /\ gp' = gp
        /\ batch' = batch
    BY <1>17 DEF StealClaim
  <2>2. N' = N /\ Q' = Q /\ K' = K /\ B' = B
    BY <2>1 DEF One
  <2>3. CASE runq_head = th[t]
    <3>1. PICK s : /\ Oldest(s) /\ runq_head' = Plus(runq_head, Len(s)) /\ HandOut(s)
      BY <1>17, <2>3, StealBatch
    <3>2. s \in Seq(Goroutine) /\ IsInjective(s)
      BY <3>1, OldestFacts
    <3>3. R' = R - One(g \in Range(s)) /\ One(g \in Range(s)) \in {0, 1}
      BY <1>5, <2>1, <3>1
    <3>4. out'[g] = out[g] + One(g \in Range(s))
      BY <1>3, <3>1, <3>2, HandOutFacts
    <3> HIDE DEF R, N, Q, K, B
    <3> QED
      BY <1>1, <1>2, <2>2, <3>3, <3>4
  <2>4. CASE runq_head # th[t]
    <3>1. runq_head' = runq_head /\ out' = out
      BY <1>17, <2>4 DEF StealClaim
    <3>2. R' = R
      BY <1>4, <2>1, <3>1
    <3> HIDE DEF R, N, Q, K, B
    <3> QED
      BY <1>1, <1>2, <2>2, <3>1, <3>2
  <2> QED
    BY <2>3, <2>4
<1>18. ASSUME NEW t \in Thief, StealNextTake(t)
       PROVE  out'[g] + R' + N' + Q' + K' + B' = 1
  <2>1. /\ glob' = glob /\ runq_head' = runq_head
        /\ runq_tail' = runq_tail /\ puts' = puts /\ runq' = runq /\ pc' = pc /\ gp' = gp
        /\ batch' = batch
    BY <1>18 DEF StealNextTake
  <2>2. Q' = Q /\ K' = K /\ B' = B
    BY <2>1 DEF One
  <2>3. R' = R
    BY <1>4, <2>1
  <2>4. PICK x \in Goroutine : x = tnext[t]
    BY <1>18, HandFacts DEF StealNextTake
  <2>5. CASE runnext = x
    <3>1. runnext' = NoG /\ HandOut(<<x>>)
      BY <1>18, <2>4, <2>5 DEF StealNextTake
    <3>2. out'[g] = out[g] + One(g = x)
      BY <1>3, <3>1, HandOutOne
    <3>3. N' = 0 /\ N = One(g = x)
      BY <1>3, <2>5, <3>1 DEF One
    <3> HIDE DEF R, N, Q, K, B
    <3> QED
      BY <1>1, <1>2, <2>2, <2>3, <3>2, <3>3
  <2>6. CASE runnext # x
    <3>1. runnext' = runnext /\ out' = out
      BY <1>18, <2>4, <2>6 DEF StealNextTake
    <3>2. N' = N
      BY <3>1 DEF One
    <3> HIDE DEF R, N, Q, K, B
    <3> QED
      BY <1>1, <1>2, <2>2, <2>3, <3>1, <3>2
  <2> QED
    BY <2>5, <2>6
<1> HIDE DEF R, N, Q, K, B
<1> QED
  BY <1>6, <1>7, <1>8, <1>9, <1>10, <1>11, <1>12, <1>13, <1>14, <1>15, <1>16, <1>17, <1>18
     DEF Next, OwnerStep, runq_steal

-----------------------------------------------------------------------------
(* The theorems *)

(* The invariant holds at first. *)
LEMMA InitIInv ==
  ASSUME Init
  PROVE  IInv
<1>1. /\ runq_head = Start /\ runq_tail = Start /\ puts = 0 /\ pc = "idle" /\ batch = <<>>
      /\ runnext = NoG /\ glob = <<>> /\ gp = NoG /\ h = 0
      /\ runq = [i \in 0..(local_queue_size - 1) |-> NoG]
      /\ out = [g \in Goroutine |-> 1]
  BY DEF Init
<1>2. /\ Start \in 0..(W - 1) /\ W \in Nat \ {0} /\ MaxPuts \in 0..(W - 1)
      /\ local_queue_size \in Nat \ {0} /\ NoG \notin Goroutine
  BY ConstFacts
<1>3. TypeOK
  <2>1. /\ runq_head \in 0..(W - 1) /\ runq_tail \in 0..(W - 1) /\ puts \in 0..MaxPuts /\ h \in 0..(W - 1)
    BY <1>1, <1>2
  <2>2. /\ runq \in [0..(local_queue_size - 1) -> Goroutine \cup {NoG}] /\ out \in [Goroutine -> Nat]
        /\ runnext \in Goroutine \cup {NoG} /\ gp \in Goroutine \cup {NoG}
        /\ glob \in Seq(Goroutine) /\ batch \in Seq(Goroutine)
    BY <1>1
  <2>3. /\ tpc \in [Thief -> {"idle", "tail", "next", "next_take", "copy"}]
        /\ tnext \in [Thief -> Goroutine \cup {NoG}] /\ tbatch \in [Thief -> Seq(Goroutine)]
    BY DEF Init
  <2>4. th \in [Thief -> 0..(W - 1)] /\ tt \in [Thief -> 0..(W - 1)]
    BY <1>2 DEF Init
  <2> QED
    BY <1>1, <2>1, <2>2, <2>3, <2>4 DEF TypeOK
<1>4. Minus(runq_tail, runq_head) = 0 /\ End = Start /\ At(runq_head) = Start
  <2>1. PICK c \in 0..(W - 1) : c = Start
    BY <1>2
  <2>2. Minus(c, c) = IF c <= c THEN c - c ELSE c - c + W
    BY MinusFacts
  <2>3. Minus(runq_tail, runq_head) = 0
    BY <1>1, <2>1, <2>2
  <2>4. End = Start
    BY <1>1, <1>2 DEF End
  <2> QED
    BY <1>2, <2>3, <2>4 DEF At
<1>5. CounterInv
  <2>1. runq_tail = End % W
    <3> DEFINE q == 0
    <3>1. PICK c \in 0..(W - 1) : c = Start
      BY <1>2
    <3>2. q \in Int /\ c \in Int /\ c = W * q + c
      BY <1>2
    <3> HIDE DEF q
    <3>3. c % W = c
      BY <1>2, <3>2, ModUnique
    <3> QED
      BY <1>1, <1>4, <3>1, <3>3
  <2> QED
    BY <1>1, <1>2, <1>4, <2>1 DEF CounterInv, Past, NoDesync
<1>6. Start..(End - 1) = {} /\ At(runq_head)..(End - 1) = {}
  BY <1>2, <1>4
<1>7. CellInv /\ Stored = {}
  BY <1>6 DEF CellInv, Stored
<1>8. OwnerInv
  BY <1>1 DEF OwnerInv, Putting
<1>9. ThiefInv
  BY DEF Init, ThiefInv, ThiefOf
<1>10. <<>> \in Seq(Goroutine) /\ IsInjective(<<>>) /\ Range(<<>>) = {}
  <2>1. <<>> \in Seq(Goroutine)
    OBVIOUS
  <2> QED
    BY <2>1, RangeFacts
<1>11. OnceInv
  BY <1>1, <1>6, <1>10 DEF OnceInv
<1>12. PlaceInv
  <2>1. ASSUME NEW g \in Goroutine
        PROVE  Places(g) = 1
    <3>1. /\ out[g] = 1 /\ One(g \in Stored) = 0 /\ One(runnext = g) = 0 /\ One(g \in Range(glob)) = 0
          /\ One(pc \in Putting /\ gp = g) = 0 /\ One(pc = "slow_global" /\ g \in Range(batch)) = 0
      BY <1>1, <1>2, <1>7, <1>10 DEF One, Putting
    <3> QED
      BY <3>1 DEF Places
  <2> QED
    BY <2>1 DEF PlaceInv
<1> QED
  BY <1>3, <1>5, <1>7, <1>8, <1>9, <1>11, <1>12 DEF IInv

(* Every step keeps the invariant. *)
LEMMA NextIInv ==
  ASSUME IInv, [Next]_vars
  PROVE  IInv'
<1>1. CASE Next
  BY <1>1, TypeStep, CounterStep, CellStep, OwnerStepInv, ThiefStep, OnceStep, PlaceStep DEF IInv
<1>2. CASE UNCHANGED vars
  <2>1. /\ runq_head' = runq_head /\ runq_tail' = runq_tail /\ runq' = runq /\ runnext' = runnext
        /\ glob' = glob /\ out' = out /\ pc' = pc /\ gp' = gp /\ batch' = batch /\ h' = h /\ puts' = puts
        /\ tpc' = tpc /\ th' = th /\ tt' = tt /\ tnext' = tnext /\ tbatch' = tbatch
    BY <1>2 DEF vars, ringVars, ownerVars, thiefVars
  <2>2. TypeOK' = TypeOK /\ CounterInv' = CounterInv /\ CellInv' = CellInv
    BY <2>1 DEF TypeOK, CounterInv, CellInv, Past, At, End, Minus, NoDesync, Cell
  <2>3. OwnerInv' = OwnerInv /\ OnceInv' = OnceInv
    BY <2>1 DEF OwnerInv, OnceInv, Past, At, End, Minus, Cell, SlowCount, Putting
  <2>4. ThiefInv' = ThiefInv
    BY <2>1 DEF ThiefInv, ThiefOf, Past, At, End, Minus, Cell, StealCount
  <2>5. PlaceInv' = PlaceInv
    BY <2>1 DEF PlaceInv, Places, One, Stored, At, End, Minus, Cell, Putting
  <2> QED
    BY <2>2, <2>3, <2>4, <2>5 DEF IInv
<1> QED
  BY <1>1, <1>2

(* The inductive invariant holds in every state the queue can reach, for   *)
(* runq_put, runq_put_slow and runq_get of the owner racing with           *)
(* runq_steal of any number of thieves.                                    *)
THEOREM Invariance == Spec => []IInv
<1>1. Init => IInv
  BY InitIInv
<1>2. IInv /\ [Next]_vars => IInv'
  BY NextIInv
<1> QED
  BY <1>1, <1>2, PTL DEF Spec

(* The counters stay in 0..W - 1 while they wrap, and a slot that is copied *)
(* always holds a goroutine, also when the head it belongs to has moved     *)
(* (runq_steal copies before it claims).                                    *)
THEOREM RunqTypes == Spec => []TypeOK
<1>1. IInv => TypeOK
  BY DEF IInv
<1> QED
  BY <1>1, Invariance, PTL

(* The ring never holds more than local_queue_size goroutines: the panic    *)
(* of runq_put_slow on a desynchronised queue cannot happen.                *)
THEOREM RingNeverOverflows == Spec => []NoDesync
<1>1. IInv => NoDesync
  BY DEF IInv, CounterInv
<1> QED
  BY <1>1, Invariance, PTL

(* The window is what the slots from the head to the tail hold. *)
WindowIs ==
  /\ Window \in Seq(Goroutine) /\ Len(Window) = End - At(runq_head)
  /\ At(runq_head) \in Int /\ End \in Int
  /\ \A i \in 1..Len(Window) : Window[i] = Cell(At(runq_head) + i - 1)

(* It is so whenever the invariant holds. *)
LEMMA WindowFacts == IInv => Oldest(Window) /\ WindowIs
<1> SUFFICES ASSUME IInv PROVE Oldest(Window) /\ WindowIs
  OBVIOUS
<1> DEFINE d == Minus(runq_tail, runq_head)
<1>1. /\ d \in 0..local_queue_size /\ local_queue_size < W /\ local_queue_size \in Nat /\ W \in Nat
      /\ At(runq_head) \in Start..End /\ Start \in Nat /\ End \in Nat /\ At(runq_head) = End - d
  BY Positions
<1>2. PICK c \in 0..(W - 1) : c = runq_head /\ Past(c)
  BY Positions DEF IInv, CounterInv
<1>3. ASSUME NEW j \in 1..d
      PROVE  /\ runq[Slot(Plus(runq_head, j - 1))] = Cell(At(runq_head) + j - 1)
             /\ Cell(At(runq_head) + j - 1) \in Goroutine
  <2>1. PICK i \in 0..(W - 1) : i = j - 1
    BY <1>1
  <2>2. At(c) + i < End
    BY <1>1, <1>2, <2>1
  <2>3. runq[Slot(Plus(c, i))] = Cell(At(c) + i) /\ Cell(At(c) + i) \in Goroutine
    BY <1>2, <2>2, CopyFacts
  <2>4. At(runq_head) + j - 1 = At(c) + i
    BY <1>1, <1>2, <2>1
  <2> QED
    BY <1>2, <2>1, <2>3, <2>4
<1>4. Window = [j \in 1..d |-> Cell(At(runq_head) + j - 1)]
  BY <1>3 DEF Window
<1> HIDE DEF d
<1>5. Window \in Seq(Goroutine) /\ Len(Window) = d
  <2>1. d \in Nat
    BY <1>1
  <2>2. \A j \in 1..d : Cell(At(runq_head) + j - 1) \in Goroutine
    BY <1>3
  <2>3. Window \in [1..d -> Goroutine]
    BY <1>4, <2>2
  <2> QED
    BY <2>1, <2>3, SeqDef
<1>6. \A i \in 1..Len(Window) : Window[i] = Cell(At(runq_head) + i - 1)
  BY <1>4, <1>5
<1>7. Oldest(Window)
  BY <1>1, <1>5, <1>6 DEF Oldest, d
<1> QED
  BY <1>1, <1>5, <1>6, <1>7 DEF WindowIs

(* And after a step. *)
LEMMA WindowNext == IInv' => WindowIs'
<1>1. IInv => WindowIs
  BY WindowFacts
<1> QED
  BY <1>1, PTL

(* The window has every stored goroutine once. *)
LEMMA WindowCount ==
  ASSUME IInv, NEW g \in Goroutine
  PROVE  Occurrences(g, Window) = One(g \in Stored)
<1>1. Oldest(Window) /\ Len(Window) = End - At(runq_head) /\ At(runq_head) \in Int /\ End \in Int
  BY WindowFacts DEF WindowIs
<1>2. /\ Window \in Seq(Goroutine) /\ IsInjective(Window)
      /\ g \in Range(Window) <=> \E a \in At(runq_head)..(At(runq_head) + Len(Window) - 1) : Cell(a) = g
  BY <1>1, OldestFacts
<1>3. At(runq_head) + Len(Window) - 1 = End - 1
  BY <1>1
<1>4. g \in Range(Window) <=> g \in Stored
  BY <1>2, <1>3 DEF Stored
<1>5. Occurrences(g, Window) = One(g \in Range(Window))
  BY <1>2, OccursFacts
<1> QED
  BY <1>4, <1>5 DEF One

(* Every goroutine is in one place at any time: handed to one thread, in    *)
(* the ring, in runnext, in the global queue or in the owner's hand, while  *)
(* owner and thieves copy slots before they claim them and slots are reused *)
(* (runq_put, runq_put_slow, runq_get, runq_steal).                         *)
THEOREM NothingLost == Spec => []NothingLostOrDoubled
<1>1. ASSUME IInv, NEW g \in Goroutine
      PROVE  out[g] + Occurrences(g, Window) + Occurrences(g, <<runnext>>)
                    + Occurrences(g, glob) + Occurrences(g, InHand) = 1
  <2>1. /\ glob \in Seq(Goroutine) /\ IsInjective(glob) /\ batch \in Seq(Goroutine)
        /\ runnext \in Goroutine \cup {NoG} /\ Places(g) = 1 /\ out[g] \in Nat
        /\ pc = "slow_global" => IsInjective(batch)
        /\ pc \in Putting => gp \in Goroutine
    BY <1>1 DEF IInv, TypeOK, OnceInv, PlaceInv, OwnerInv
  <2>2. Occurrences(g, Window) = One(g \in Stored)
    BY <1>1, WindowCount
  <2>3. Occurrences(g, <<runnext>>) = One(runnext = g)
    <3> DEFINE u == <<runnext>>
               S == Goroutine \cup {NoG}
    <3>1. u \in Seq(S) /\ Range(u) = {runnext} /\ IsInjective(u)
      BY <2>1, UnitFacts
    <3> HIDE DEF u, S
    <3>2. Occurrences(g, u) = One(g \in Range(u))
      BY <3>1, OccursFacts
    <3> QED
      BY <3>1, <3>2 DEF One, u
  <2>4. Occurrences(g, glob) = One(g \in Range(glob))
    BY <2>1, OccursFacts
  <2>5. Occurrences(g, InHand)
          = One(pc \in Putting /\ gp = g) + One(pc = "slow_global" /\ g \in Range(batch))
    <3>1. CASE pc \notin Putting
      <4> DEFINE e == <<>>
      <4>1. InHand = e /\ e \in Seq(Goroutine) /\ IsInjective(e) /\ Range(e) = {}
        <5>1. InHand = <<>> \o <<>>
          BY <3>1 DEF InHand, Putting
        <5>2. <<>> \o <<>> = <<>> /\ <<>> \in Seq(Goroutine)
          OBVIOUS
        <5> QED
          BY <5>1, <5>2, RangeFacts
      <4> HIDE DEF e
      <4>2. Occurrences(g, e) = One(g \in Range(e))
        BY <4>1, OccursFacts
      <4> QED
        BY <3>1, <4>1, <4>2 DEF One, Putting
    <3>2. CASE pc \in Putting
      <4> DEFINE u == <<gp>>
      <4>1. u \in Seq(Goroutine) /\ Range(u) = {gp} /\ IsInjective(u) /\ u = <<gp>>
        BY <2>1, <3>2, UnitFacts
      <4>2. CASE pc # "slow_global"
        <5>1. InHand = u
          BY <3>2, <4>1, <4>2 DEF InHand, Putting
        <5> HIDE DEF u
        <5>2. Occurrences(g, u) = One(g \in Range(u))
          BY <4>1, OccursFacts
        <5> QED
          BY <3>2, <4>1, <4>2, <5>1, <5>2 DEF One
      <4>3. CASE pc = "slow_global"
        <5>1. InHand = u \o batch
          BY <4>3 DEF InHand
        <5> HIDE DEF u
        <5>2. Range(u) \cap Range(batch) = {}
          <6>1. gp \in Goroutine
            BY <2>1, <3>2
          <6>2. gp \notin Range(batch)
            BY <1>1, <4>3, <6>1, OnePlace
          <6> QED
            BY <4>1, <6>2
        <5> DEFINE v == u \o batch
        <5>3. v \in Seq(Goroutine) /\ IsInjective(v) /\ Range(v) = Range(u) \cup Range(batch)
          <6>1. u \in Seq(Goroutine) /\ IsInjective(u) /\ batch \in Seq(Goroutine) /\ IsInjective(batch)
            BY <2>1, <4>1, <4>3
          <6> QED
            BY <5>2, <6>1, ConcatFacts
        <5> HIDE DEF v
        <5>4. Occurrences(g, v) = One(g \in Range(v))
          BY <5>3, OccursFacts
        <5>5. InHand = v
          BY <5>1 DEF v
        <5> QED
          BY <3>2, <4>1, <4>3, <5>2, <5>3, <5>4, <5>5 DEF One
      <4> QED
        BY <4>2, <4>3
    <3> QED
      BY <3>1, <3>2
  <2>6. /\ One(g \in Stored) \in {0, 1} /\ One(runnext = g) \in {0, 1} /\ One(g \in Range(glob)) \in {0, 1}
        /\ One(pc \in Putting /\ gp = g) \in {0, 1}
        /\ One(pc = "slow_global" /\ g \in Range(batch)) \in {0, 1}
    BY DEF One
  <2> QED
    BY <2>1, <2>2, <2>3, <2>4, <2>5, <2>6 DEF Places
<1>2. IInv => NothingLostOrDoubled
  BY <1>1 DEF NothingLostOrDoubled
<1> QED
  BY <1>2, Invariance, PTL

(* A step that moves the head hands out what was claimed, or the owner     *)
(* keeps it in its batch.                                                  *)
LEMMA ClaimCases ==
  ASSUME IInv, Next, runq_head' # runq_head
  PROVE  \E s : /\ Oldest(s) /\ runq_head' = Plus(runq_head, Len(s)) /\ UNCHANGED <<runq_tail, runq, puts>>
                /\ \/ SlowClaim /\ batch = s
                   \/ \A g \in Goroutine : out'[g] - out[g] = Occurrences(g, s)
<1> USE DEF ringVars, ownerVars, thiefVars
<1>1. ASSUME NEW s \in Seq(Goroutine), HandOut(s)
      PROVE  \A g \in Goroutine : out'[g] - out[g] = Occurrences(g, s)
  <2>1. SUFFICES ASSUME NEW g \in Goroutine PROVE out'[g] - out[g] = Occurrences(g, s)
    OBVIOUS
  <2>2. out'[g] = out[g] + Occurrences(g, s) /\ out[g] \in Nat
    BY <1>1 DEF HandOut, IInv, TypeOK
  <2>3. Occurrences(g, s) \in Nat
    BY OccursFacts
  <2> QED
    BY <2>2, <2>3
<1>2. CASE SlowClaim
  <2>1. runq_head = h
    BY <1>2 DEF SlowClaim
  <2>2. Oldest(batch) /\ runq_head' = Plus(runq_head, Len(batch)) /\ UNCHANGED <<runq_tail, runq, puts>>
    BY <1>2, <2>1, SlowBatch
  <2> QED
    BY <1>2, <2>2
<1>3. CASE GetClaim
  <2>1. runq_head = h
    BY <1>3 DEF GetClaim
  <2>2. PICK s : /\ Oldest(s) /\ runq_head' = Plus(runq_head, Len(s)) /\ HandOut(s)
                 /\ UNCHANGED <<runq_tail, runq, puts>>
    BY <1>3, <2>1, GetBatch
  <2>3. s \in Seq(Goroutine)
    BY <2>2 DEF Oldest
  <2> QED
    BY <1>1, <2>2, <2>3
<1>4. ASSUME NEW t \in Thief, StealClaim(t)
      PROVE  \E s : /\ Oldest(s) /\ runq_head' = Plus(runq_head, Len(s)) /\ UNCHANGED <<runq_tail, runq, puts>>
                    /\ \A g \in Goroutine : out'[g] - out[g] = Occurrences(g, s)
  <2>1. runq_head = th[t]
    BY <1>4 DEF StealClaim
  <2>2. PICK s : /\ Oldest(s) /\ runq_head' = Plus(runq_head, Len(s)) /\ HandOut(s)
                 /\ UNCHANGED <<runq_tail, runq, puts>>
    BY <1>4, <2>1, StealBatch
  <2>3. s \in Seq(Goroutine)
    BY <2>2 DEF Oldest
  <2> QED
    BY <1>1, <2>2, <2>3
<1>5. SlowClaim \/ GetClaim \/ \E t \in Thief : StealClaim(t)
  BY DEF Next, OwnerStep, runq_put, runq_put_next, PutLoad, PutStore, PutPublish, SlowLoad,
     SlowCopy, SlowGlobal, GetNext, GetNextTake, GetLoad, GetCopy, glob_runq_get, runq_steal,
     StealHead, StealTail, StealCopy, StealNext, StealNextTake
<1> QED
  BY <1>2, <1>3, <1>4, <1>5

(* A step puts one goroutine at the end of the window, or takes some from  *)
(* its front.                                                              *)
LEMMA WindowStep ==
  ASSUME IInv, IInv', Next
  PROVE  \/ Window' = Append(Window, gp)
         \/ \E n \in 0..Len(Window) :
              /\ Window' = SubSeq(Window, n + 1, Len(Window))
              /\ At(runq_head)' = At(runq_head) + n
<1>1. PICK w \in Seq(Goroutine) : w = Window
  BY WindowFacts DEF WindowIs
<1>2. PICK v \in Seq(Goroutine) : v = Window'
  BY WindowNext DEF WindowIs
<1>3. PICK p \in Int : p = At(runq_head)
  BY Positions
<1>4. PICK e \in Nat : e = End /\ p <= e
  BY <1>3, Positions
<1>5. PICK q \in p..e : q = At(runq_head)'
  BY <1>3, <1>4, RingStep
<1>6. PICK f \in {e, e + 1} : f = End' /\ (f # e => PutPublish)
  BY <1>4, RingStep
<1>7. /\ Len(w) = e - p /\ \A i \in 1..Len(w) : w[i] = Cell(p + i - 1)
  BY <1>1, <1>3, <1>4, WindowFacts DEF WindowIs
<1>8. /\ Len(v) = f - q /\ \A i \in 1..Len(v) : v[i] = Cell(q + i - 1)'
  <2>1. /\ Len(Window') = End' - At(runq_head)'
        /\ \A i \in 1..Len(Window') : Window'[i] = Cell(At(runq_head) + i - 1)'
    BY WindowNext DEF WindowIs
  <2>2. \A i : Cell(At(runq_head) + i - 1)' = Cell(q + i - 1)'
    BY <1>5 DEF Cell
  <2> QED
    BY <1>2, <1>5, <1>6, <2>1, <2>2
<1>9. \A a \in p..(e - 1) : Cell(a)' = Cell(a)
  BY <1>3, <1>4, RingStep
<1>10. CASE f = e
  <2> DEFINE n == q - p
             u == SubSeq(w, n + 1, Len(w))
  <2>1. n \in 0..Len(w) /\ n + 1 \in 1..(Len(w) + 1) /\ Len(w) \in Nat /\ Len(w) = e - p /\ q = p + n
    BY <1>7
  <2>2. /\ u \in Seq(Goroutine) /\ Len(u) = Len(w) - n
        /\ \A i \in 1..Len(u) : u[i] = w[n + i]
    <3> HIDE DEF n
    <3>1. \A i \in (n + 1)..Len(w) : w[i] \in Goroutine
      BY <2>1
    <3> QED
      BY <2>1, <3>1
  <2>3. Len(v) = Len(u)
    BY <1>8, <1>10, <2>1, <2>2
  <2>4. ASSUME NEW i \in 1..Len(v)
        PROVE  v[i] = u[i]
    <3>1. PICK a \in p..(e - 1) : a = q + i - 1
      BY <1>8, <1>10
    <3>2. Cell(q + i - 1)' = Cell(a)'
      BY <3>1 DEF Cell
    <3>3. n + i \in 1..Len(w) /\ p + (n + i) - 1 = a
      BY <1>8, <1>10, <2>1, <3>1
    <3>4. w[n + i] = Cell(a)
      BY <1>7, <3>3
    <3>5. u[i] = w[n + i]
      BY <2>2, <2>3
    <3> QED
      BY <1>8, <1>9, <3>1, <3>2, <3>4, <3>5
  <2> HIDE DEF u
  <2>5. v = u
    BY <2>2, <2>3, <2>4, SeqEqual
  <2> QED
    BY <1>1, <1>2, <1>3, <1>5, <2>1, <2>5 DEF u
<1>11. CASE f = e + 1
  <2>1. PutPublish
    BY <1>6, <1>11
  <2>2. At(runq_head)' = At(runq_head) /\ gp \in Goroutine /\ Cell(End) = gp /\ runq' = runq
    BY <2>1, PublishRing, PutStored DEF PutPublish
  <2>3. q = p /\ Cell(e) = gp /\ \A a : Cell(a)' = Cell(a)
    BY <1>3, <1>4, <1>5, <2>2 DEF Cell
  <2> DEFINE u == Append(w, gp)
  <2>4. /\ u \in Seq(Goroutine) /\ Len(u) = Len(w) + 1 /\ Len(w) \in Nat
        /\ \A i \in 1..Len(w) : u[i] = w[i]
        /\ u[Len(w) + 1] = gp
    BY <2>2
  <2>5. Len(v) = Len(u)
    BY <1>7, <1>8, <1>11, <2>3, <2>4
  <2> HIDE DEF u
  <2>6. ASSUME NEW i \in 1..Len(v)
        PROVE  v[i] = u[i]
    <3>1. v[i] = Cell(p + i - 1)
      <4>1. Cell(q + i - 1)' = Cell(p + i - 1)
        BY <2>3
      <4> QED
        BY <1>8, <4>1
    <3>2. CASE i \in 1..Len(w)
      BY <1>7, <2>4, <3>1, <3>2
    <3>3. CASE i = Len(w) + 1
      <4>1. p + i - 1 = e
        BY <1>7, <3>3
      <4> QED
        BY <2>3, <2>4, <3>1, <3>3, <4>1
    <3> QED
      BY <2>4, <2>5, <3>2, <3>3
  <2>7. v = u
    BY <2>4, <2>5, <2>6, SeqEqual
  <2> QED
    BY <1>1, <1>2, <2>7 DEF u
<1> QED
  BY <1>10, <1>11

(* Only what is oldest leaves the ring, in order, and it goes to the thread *)
(* that claimed it or to the owner's batch for the global queue: no claim   *)
(* of a stale copy succeeds (the compare-and-swap of runq_get,              *)
(* runq_put_slow and runq_steal).                                           *)
THEOREM OldestFirst == Spec => OldestLeavesFirst
<1>1. ASSUME IInv, IInv', Next
      PROVE  \/ Window' = Append(Window, gp)
             \/ \E n \in 0..Len(Window) :
                  /\ Window' = SubSeq(Window, n + 1, Len(Window))
                  /\ n > 0 => \/ SlowClaim /\ batch = SubSeq(Window, 1, n)
                              \/ \A g \in Goroutine :
                                   out'[g] - out[g] = Occurrences(g, SubSeq(Window, 1, n))
  <2>1. CASE Window' = Append(Window, gp)
    BY <2>1
  <2>2. ASSUME NEW n \in 0..Len(Window), Window' = SubSeq(Window, n + 1, Len(Window)),
               At(runq_head)' = At(runq_head) + n, n > 0
        PROVE  \/ SlowClaim /\ batch = SubSeq(Window, 1, n)
               \/ \A g \in Goroutine :
                    out'[g] - out[g] = Occurrences(g, SubSeq(Window, 1, n))
    <3>1. PICK w \in Seq(Goroutine) : w = Window
      BY <1>1, WindowFacts DEF WindowIs
    <3>2. PICK p \in Int : p = At(runq_head)
      BY <1>1, Positions
    <3>3. n \in Nat /\ Len(w) \in Nat /\ n \in 0..Len(w)
      BY <2>2, <3>1
    <3>4. runq_head' # runq_head
      <4>1. CASE End' = End
        <5>1. ~PutPublish
          <6>1. PutPublish => End' = End + 1
            BY <1>1, PublishRing
          <6>2. End \in Nat
            BY <1>1, Positions
          <6> QED
            BY <4>1, <6>1, <6>2
        <5>2. runq_tail' = runq_tail
          BY <1>1, <5>1, RingCases DEF PutStore
        <5>3. runq_head' = runq_head => At(runq_head)' = At(runq_head)
          BY <4>1, <5>2 DEF At
        <5> QED
          BY <2>2, <3>2, <3>3, <5>3
      <4>2. CASE End' # End
        <5>1. PutPublish
          BY <1>1, <4>2, RingStep
        <5>2. At(runq_head)' = At(runq_head)
          BY <1>1, <5>1, PublishRing
        <5> QED
          BY <2>2, <3>2, <3>3, <5>2
      <4> QED
        BY <4>1, <4>2
    <3>5. PICK s : /\ Oldest(s) /\ runq_head' = Plus(runq_head, Len(s)) /\ UNCHANGED <<runq_tail, runq, puts>>
                   /\ \/ SlowClaim /\ batch = s
                      \/ \A g \in Goroutine : out'[g] - out[g] = Occurrences(g, s)
      BY <1>1, <3>4, ClaimCases
    <3>6. s \in Seq(Goroutine) /\ Len(s) \in Nat /\ \A i \in 1..Len(s) : s[i] = Cell(p + i - 1)
      BY <3>2, <3>5 DEF Oldest
    <3>7. Len(s) = n
      <4>1. PICK k \in 0..Minus(runq_tail, runq_head) : k = Len(s)
        BY <1>1, <3>5, <3>6, Positions DEF Oldest
      <4>2. At(runq_head)' = At(runq_head) + k
        BY <1>1, <3>5, <4>1, ClaimRing
      <4>3. k \in Nat /\ p + n = p + k
        BY <2>2, <3>2, <3>6, <4>1, <4>2
      <4> QED
        BY <3>2, <3>3, <4>1, <4>3
    <3> DEFINE u == SubSeq(w, 1, n)
    <3>8. u \in Seq(Goroutine) /\ Len(u) = n /\ \A i \in 1..n : u[i] = w[i]
      BY <3>3
    <3>9. \A i \in 1..Len(w) : w[i] = Cell(p + i - 1)
      BY <1>1, <3>1, <3>2, WindowFacts DEF WindowIs
    <3> HIDE DEF u
    <3>10. ASSUME NEW i \in 1..Len(s)
           PROVE  s[i] = u[i]
      <4>1. i \in 1..n /\ i \in 1..Len(w)
        BY <3>3, <3>7
      <4>2. u[i] = w[i]
        BY <3>8, <4>1
      <4>3. w[i] = Cell(p + i - 1)
        BY <3>9, <4>1
      <4> QED
        BY <3>6, <4>2, <4>3
    <3>11. s = u
      BY <3>6, <3>7, <3>8, <3>10, SeqEqual
    <3> QED
      BY <3>1, <3>5, <3>11 DEF u
  <2> QED
    BY <1>1, <2>1, <2>2, WindowStep
<1>2. IInv /\ IInv' /\ [Next]_vars =>
        [\/ Window' = Append(Window, gp)
         \/ \E n \in 0..Len(Window) :
              /\ Window' = SubSeq(Window, n + 1, Len(Window))
              /\ n > 0 => \/ SlowClaim /\ batch = SubSeq(Window, 1, n)
                          \/ \A g \in Goroutine :
                               out'[g] - out[g] = Occurrences(g, SubSeq(Window, 1, n))]_vars
  BY <1>1
<1> QED
  BY <1>2, Invariance, PTL DEF Spec, OldestLeavesFirst
=============================================================================

--------------------------- MODULE GoChan_proofs ---------------------------
(***************************************************************************)
(* Proofs about the goroutine channel, for any number of goroutines, any   *)
(* buffer size and any number of calls, and that it implements FifoChan.   *)
(***************************************************************************)
EXTENDS GoChan, TLAPS, SequenceTheorems

-----------------------------------------------------------------------------
(* Wait lists *)

(* No goroutine occurs twice. *)
Injective(s) == \A i, j \in 1..Len(s) : s[i] = s[j] => i = j

(* Who waits waits on a list that is not empty. *)
LEMMA QueuedNonempty ==
  ASSUME NEW S, NEW s \in Seq(S), NEW g, Queued(g, s)
  PROVE  s # <<>> /\ g \in S
BY DEF Queued

(* The first waiter waits. *)
LEMMA HeadQueued ==
  ASSUME NEW S, NEW s \in Seq(S), s # <<>>
  PROVE  Queued(Head(s), s) /\ Head(s) \in S
BY DEF Queued

(* enqueue: the new waiter is the only one added. *)
LEMMA AppendQueued ==
  ASSUME NEW S, NEW s \in Seq(S), NEW x \in S
  PROVE  /\ Append(s, x) \in Seq(S)
         /\ Append(s, x) # <<>>
         /\ \A g : Queued(g, Append(s, x)) <=> Queued(g, s) \/ g = x
         /\ Injective(s) /\ ~Queued(x, s) => Injective(Append(s, x))
<1>1. /\ Append(s, x) \in Seq(S)
      /\ Len(Append(s, x)) = Len(s) + 1
      /\ \A i \in 1..Len(s) : Append(s, x)[i] = s[i]
      /\ Append(s, x)[Len(s) + 1] = x
      /\ Len(s) \in Nat
  OBVIOUS
<1>2. Append(s, x) # <<>>
  BY <1>1
<1>3. \A g : Queued(g, Append(s, x)) <=> Queued(g, s) \/ g = x
  BY <1>1 DEF Queued
<1>4. Injective(s) /\ ~Queued(x, s) => Injective(Append(s, x))
  BY <1>1 DEF Queued, Injective
<1> QED
  BY <1>1, <1>2, <1>3, <1>4

(* dequeue: the first waiter is the only one removed. *)
LEMMA TailQueued ==
  ASSUME NEW S, NEW s \in Seq(S), s # <<>>, Injective(s)
  PROVE  /\ Tail(s) \in Seq(S)
         /\ \A g : Queued(g, Tail(s)) <=> Queued(g, s) /\ g # Head(s)
         /\ Injective(Tail(s))
<1>1. /\ Tail(s) \in Seq(S)
      /\ Len(s) \in Nat \ {0}
      /\ Len(Tail(s)) = Len(s) - 1
      /\ \A i \in 1..Len(Tail(s)) : Tail(s)[i] = s[i + 1]
      /\ Head(s) = s[1]
  OBVIOUS
<1>2. ASSUME NEW g, Queued(g, Tail(s)) PROVE Queued(g, s) /\ g # Head(s)
  BY <1>1, <1>2 DEF Queued, Injective
<1>3. ASSUME NEW g, Queued(g, s), g # Head(s) PROVE Queued(g, Tail(s))
  <2>1. PICK i \in 1..Len(s) : s[i] = g
    BY <1>3 DEF Queued
  <2>2. i - 1 \in 1..Len(Tail(s)) /\ Tail(s)[i - 1] = g
    BY <1>1, <1>3, <2>1
  <2> QED
    BY <2>2 DEF Queued
<1>4. Injective(Tail(s))
  BY <1>1 DEF Injective
<1> QED
  BY <1>1, <1>2, <1>3, <1>4

-----------------------------------------------------------------------------
(* Types *)

(* The value of a new call. *)
LEMMA NewValueType ==
  ASSUME TypeOK, NEW g \in Goroutine, calls[g] < MaxCalls
  PROVE  NewValue(g) \in Value /\ calls[g] + 1 \in 0..MaxCalls
BY ChanAssumption DEF TypeOK, NewValue, Value

(* goready keeps the types of what it changes. *)
LEMMA GoreadyType ==
  ASSUME TypeOK, NEW gp, goready(gp)
  PROVE  /\ status' \in [Goroutine -> {"running", "waiting", "runnable"}]
         /\ main_park' \in Nat
<1>1. [status EXCEPT ![gp] = "runnable"] \in [Goroutine -> {"running", "waiting", "runnable"}]
  BY DEF TypeOK
<1>2. main_park \in Nat /\ status \in [Goroutine -> {"running", "waiting", "runnable"}]
  BY DEF TypeOK
<1> QED
  BY <1>1, <1>2 DEF goready

(* The wait lists after a dequeue or an enqueue. *)
LEMMA QueueTypes ==
  ASSUME TypeOK
  PROVE  /\ recvq # <<>> => Tail(recvq) \in Seq(Goroutine) /\ Head(recvq) \in Goroutine
         /\ sendq # <<>> => Tail(sendq) \in Seq(Goroutine) /\ Head(sendq) \in Goroutine
         /\ \A g \in Goroutine : /\ Append(recvq, g) \in Seq(Goroutine)
                                 /\ Append(sendq, g) \in Seq(Goroutine)
<1>0. recvq \in Seq(Goroutine) /\ sendq \in Seq(Goroutine)
  BY DEF TypeOK
<1>1. \A s \in Seq(Goroutine) : s # <<>> => Tail(s) \in Seq(Goroutine) /\ Head(s) \in Goroutine
  OBVIOUS
<1>2. \A s \in Seq(Goroutine) : \A g \in Goroutine : Append(s, g) \in Seq(Goroutine)
  OBVIOUS
<1> QED
  BY <1>0, <1>1, <1>2

(* Every step of the channel keeps the types. *)
LEMMA TypeOKStep ==
  ASSUME TypeOK, RingConsistent, NEW g \in Goroutine,
         chan_send(g) \/ chan_recv(g) \/ chan_close(g) \/ Continue(g)
  PROVE  TypeOK'
<1> USE ChanAssumption
<1>1. CASE SendOnClosed(g)
  BY <1>1, NewValueType DEF SendOnClosed, Enter, TypeOK, chanVars, goVars
<1>2. CASE SendToReceiver(g)
  <2>1. /\ recvq' \in Seq(Goroutine)
        /\ peer' \in [Goroutine -> Goroutine \cup {NoG}]
    BY <1>2, QueueTypes DEF SendToReceiver, TypeOK
  <2>2. src' \in [Goroutine -> Value \cup {Zero}] /\ calls' \in [Goroutine -> 0..MaxCalls]
    BY <1>2, NewValueType DEF SendToReceiver, Enter, TypeOK
  <2>3. /\ success' \in [Goroutine -> BOOLEAN]
        /\ pc' = [pc EXCEPT ![g] = "send_direct"]
        /\ UNCHANGED <<mu, qcount, buf, sendx, recvx, closed, sendq, goVars, dst>>
    BY <1>2 DEF SendToReceiver, TypeOK
  <2> QED
    BY <2>1, <2>2, <2>3 DEF TypeOK, goVars
<1>3. CASE SendBuffered(g)
  <2>1. NewValue(g) \in Value /\ calls' \in [Goroutine -> 0..MaxCalls]
    BY <1>3, NewValueType DEF SendBuffered, Enter, TypeOK
  <2>2. /\ buf' \in [Slots -> Value \cup {Zero}]
        /\ success' \in [Goroutine -> BOOLEAN]
    BY <1>3, <2>1 DEF SendBuffered, TypeOK
  <2>3. qcount' \in 0..dataqsiz /\ sendx' \in Nat
    BY <1>3 DEF SendBuffered, TypeOK, NextIndex
  <2>4. UNCHANGED <<mu, recvx, closed, recvq, sendq, goVars, pc, peer, src, dst>>
    BY <1>3 DEF SendBuffered
  <2> QED
    BY <2>1, <2>2, <2>3, <2>4 DEF TypeOK, goVars
<1>4. CASE SendGivesUp(g)
  BY <1>4, NewValueType DEF SendGivesUp, SendFull, Enter, TypeOK, chanVars, goVars
<1>5. CASE SendParks(g)
  <2>1. sendq' \in Seq(Goroutine)
    BY <1>5, QueueTypes DEF SendParks
  <2>2. src' \in [Goroutine -> Value \cup {Zero}] /\ calls' \in [Goroutine -> 0..MaxCalls]
    BY <1>5, NewValueType DEF SendParks, SendFull, Enter, TypeOK
  <2>3. /\ success' \in [Goroutine -> BOOLEAN]
        /\ mu' = g
        /\ pc' = [pc EXCEPT ![g] = "park_send"]
        /\ UNCHANGED <<qcount, buf, sendx, recvx, closed, recvq, goVars, peer, dst>>
    BY <1>5 DEF SendParks, SendFull, TypeOK
  <2> QED
    BY <2>1, <2>2, <2>3 DEF TypeOK, goVars, Parks
<1>6. CASE RecvFromSender(g)
  <2>1. /\ sendq' \in Seq(Goroutine)
        /\ calls' \in [Goroutine -> 0..MaxCalls]
    BY <1>6, QueueTypes, NewValueType DEF RecvFromSender, Enter, TypeOK
  <2>2. /\ status' \in [Goroutine -> {"running", "waiting", "runnable"}]
        /\ main_park' \in Nat
    BY <1>6, GoreadyType DEF RecvFromSender
  <2>3. /\ success' \in [Goroutine -> BOOLEAN]
        /\ UNCHANGED <<mu, qcount, closed, recvq, pc, peer, src>>
    BY <1>6, QueueTypes DEF RecvFromSender, TypeOK
  <2>4. /\ buf' \in [Slots -> Value \cup {Zero}]
        /\ dst' \in [Goroutine -> Value \cup {Zero}]
        /\ sendx' \in Nat /\ recvx' \in Nat
    <3>1. src[Head(sendq)] \in Value \cup {Zero}
      BY <1>6, QueueTypes DEF RecvFromSender, TypeOK
    <3>2. CASE dataqsiz = 0
      BY <1>6, <3>1, <3>2 DEF RecvFromSender, TypeOK
    <3>3. CASE dataqsiz # 0
      <4>1. recvx \in Slots /\ buf[recvx] \in Value \cup {Zero}
        BY <3>3 DEF RingConsistent, TypeOK
      <4>2. /\ dst' = [dst EXCEPT ![g] = buf[recvx]]
            /\ buf' = [buf EXCEPT ![recvx] = src[Head(sendq)]]
            /\ recvx' = NextIndex(recvx)
            /\ sendx' = recvx'
        BY <1>6, <3>3 DEF RecvFromSender
      <4> QED
        BY <3>1, <4>1, <4>2 DEF TypeOK, NextIndex
    <3> QED
      BY <3>2, <3>3
  <2> QED
    BY <2>1, <2>2, <2>3, <2>4 DEF TypeOK
<1>7. CASE RecvBuffered(g)
  BY <1>7, NewValueType DEF RecvBuffered, Enter, TypeOK, RingConsistent, NextIndex, goVars
<1>8. CASE RecvOnClosed(g)
  BY <1>8, NewValueType DEF RecvOnClosed, RecvEmpty, Enter, TypeOK, chanVars, goVars
<1>9. CASE RecvGivesUp(g)
  BY <1>9, NewValueType DEF RecvGivesUp, RecvEmpty, Enter, TypeOK, chanVars, goVars
<1>10. CASE RecvParks(g)
  BY <1>10, NewValueType, QueueTypes DEF RecvParks, RecvEmpty, Enter, TypeOK, goVars, Parks
<1>11. CASE CloseOnClosed(g)
  BY <1>11, NewValueType DEF CloseOnClosed, Enter, TypeOK, chanVars, goVars
<1>12. CASE CloseBegins(g)
  BY <1>12, NewValueType DEF CloseBegins, Enter, TypeOK, goVars
<1>13. CASE SendDirect(g)
  BY <1>13, GoreadyType DEF SendDirect, TypeOK, chanVars
<1>14. CASE CloseReadiesReceiver(g)
  BY <1>14, GoreadyType, QueueTypes DEF CloseReadiesReceiver, TypeOK
<1>15. CASE CloseReadiesSender(g)
  BY <1>15, GoreadyType, QueueTypes DEF CloseReadiesSender, TypeOK
<1>16. CASE CloseEnds(g)
  BY <1>16 DEF CloseEnds, TypeOK, goVars
<1>17. CASE SchedUnlock(g)
  BY <1>17 DEF SchedUnlock, TypeOK, Parks, Waits
<1>18. CASE Resume(g)
  BY <1>18 DEF Resume, TypeOK, chanVars
<1> QED
  BY <1>1, <1>2, <1>3, <1>4, <1>5, <1>6, <1>7, <1>8, <1>9, <1>10, <1>11, <1>12, <1>13, <1>14, <1>15, <1>16, <1>17, <1>18 DEF chan_send, chan_recv, chan_close, Continue, OwnStep

-----------------------------------------------------------------------------
(* The inductive invariant *)

(* Who holds mu is parking or closing, and only one is. *)
LockInv == \A g \in Goroutine : mu = g <=> pc[g] \in Parks \cup {"closing"}

(* Who is on a wait list, once, is parking or parked in that operation. *)
QueueInv ==
  /\ Injective(recvq) /\ Injective(sendq)
  /\ \A g \in Goroutine :
       /\ Queued(g, recvq) => pc[g] \in {"park_recv", "wait_recv"}
       /\ Queued(g, sendq) => pc[g] \in {"park_send", "wait_send"}
       /\ pc[g] = "park_recv" => Queued(g, recvq)
       /\ pc[g] = "park_send" => Queued(g, sendq)

(* A closed channel has waiters only while the close is going on. *)
CloseInv ==
  closed /\ (recvq # <<>> \/ sendq # <<>>) => \E g \in Goroutine : pc[g] = "closing"

StatusInv ==
  \A g \in Goroutine : /\ pc[g] \notin Waits => status[g] = "running"
                       /\ pc[g] \in Waits /\ g = main_g => status[g] = "waiting"

(* A wakeup stored for the main goroutine is its only one. *)
MainInv ==
  main_park = 1 => /\ main_g \in Goroutine
                   /\ pc[main_g] \in Waits
                   /\ ~Queued(main_g, recvq) /\ ~Queued(main_g, sendq)
                   /\ \A s \in Goroutine : pc[s] = "send_direct" => peer[s] # main_g

PeerInv == \A s \in Goroutine : pc[s] = "send_direct" => peer[s] \in Goroutine

WakeInv == LockInv /\ QueueInv /\ StatusInv /\ MainInv /\ PeerInv /\ NoDroppedWakeup

IInv == TypeOK /\ RingConsistent /\ NobodyWaitsInVain /\ CloseInv /\ WakeInv

(* A channel just made satisfies the inductive invariant. *)
LEMMA InitIInv == Init => IInv
<1> SUFFICES ASSUME Init PROVE IInv
  OBVIOUS
<1>0. \A g : ~Queued(g, <<>>)
  <2>1. Len(<<>>) = 0
    OBVIOUS
  <2> QED
    BY ONLY <2>1 DEF Queued
<1> USE ChanAssumption DEF Init
<1>1. TypeOK
  <2>1. recvq \in Seq(Goroutine) /\ sendq \in Seq(Goroutine)
    OBVIOUS
  <2>2. /\ status \in [Goroutine -> {"running", "waiting", "runnable"}]
        /\ pc \in [Goroutine -> Waits \cup Parks \cup {"out", "send_direct", "closing", "panicked"}]
    OBVIOUS
  <2>3. mu \in Goroutine \cup {NoG} /\ closed \in BOOLEAN
    BY Zenon
  <2>6. qcount \in 0..dataqsiz /\ sendx \in Nat /\ recvx \in Nat /\ main_park \in Nat
    OBVIOUS
  <2>4. /\ buf \in [Slots -> Value \cup {Zero}]
        /\ src \in [Goroutine -> Value \cup {Zero}]
        /\ dst \in [Goroutine -> Value \cup {Zero}]
    OBVIOUS
  <2>5. /\ peer \in [Goroutine -> Goroutine \cup {NoG}]
        /\ success \in [Goroutine -> BOOLEAN]
        /\ calls \in [Goroutine -> 0..MaxCalls]
    OBVIOUS
  <2> QED
    BY ONLY <2>1, <2>2, <2>3, <2>4, <2>5, <2>6 DEF TypeOK
<1>2. RingConsistent
  BY DEF RingConsistent, Slots
<1>3. NobodyWaitsInVain /\ CloseInv
  BY DEF NobodyWaitsInVain, CloseInv
<1>4. LockInv /\ StatusInv
  BY DEF LockInv, StatusInv, Parks, Waits
<1>5. QueueInv
  BY <1>0 DEF QueueInv, Injective
<1>6. MainInv /\ PeerInv /\ NoDroppedWakeup
  BY <1>0 DEF MainInv, PeerInv, NoDroppedWakeup
<1> QED
  BY <1>1, <1>2, <1>3, <1>4, <1>5, <1>6 DEF IInv, WakeInv

-----------------------------------------------------------------------------
(* The ring and the waiting conditions *)

(* Every step keeps the two indices of the ring apart by qcount. *)
LEMMA RingStep ==
  ASSUME TypeOK, RingConsistent, NobodyWaitsInVain, NEW g \in Goroutine,
         chan_send(g) \/ chan_recv(g) \/ chan_close(g) \/ Continue(g)
  PROVE  RingConsistent'
<1> USE ChanAssumption
<1>1. CASE SendBuffered(g)
  <2>1. /\ sendx' = IF sendx + 1 = dataqsiz THEN 0 ELSE sendx + 1
        /\ qcount' = qcount + 1
        /\ recvx' = recvx
        /\ qcount < dataqsiz
    BY <1>1 DEF SendBuffered, NextIndex
  <2>2. qcount \in 0..dataqsiz /\ sendx \in Nat /\ recvx \in Nat
    BY DEF TypeOK
  <2>3. dataqsiz > 0 =>
          /\ sendx < dataqsiz /\ recvx < dataqsiz
          /\ sendx = recvx + qcount \/ sendx = recvx + qcount - dataqsiz
    BY <2>2 DEF RingConsistent, Slots
  <2>4. dataqsiz > 0 =>
          /\ sendx' \in Nat /\ recvx' \in Nat
          /\ sendx' < dataqsiz /\ recvx' < dataqsiz
          /\ sendx' = recvx' + qcount' \/ sendx' = recvx' + qcount' - dataqsiz
    BY <2>1, <2>2, <2>3
  <2> QED
    BY <2>4 DEF RingConsistent, Slots
<1>2. CASE RecvBuffered(g)
  <2>1. /\ recvx' = IF recvx + 1 = dataqsiz THEN 0 ELSE recvx + 1
        /\ qcount' = qcount - 1
        /\ sendx' = sendx
        /\ qcount > 0
    BY <1>2 DEF RecvBuffered, NextIndex
  <2>2. qcount \in 0..dataqsiz /\ sendx \in Nat /\ recvx \in Nat
    BY DEF TypeOK
  <2>3. dataqsiz > 0 =>
          /\ sendx < dataqsiz /\ recvx < dataqsiz
          /\ sendx = recvx + qcount \/ sendx = recvx + qcount - dataqsiz
    BY <2>2 DEF RingConsistent, Slots
  <2>4. dataqsiz > 0 =>
          /\ sendx' \in Nat /\ recvx' \in Nat
          /\ sendx' < dataqsiz /\ recvx' < dataqsiz
          /\ sendx' = recvx' + qcount' \/ sendx' = recvx' + qcount' - dataqsiz
    BY <2>1, <2>2, <2>3
  <2> QED
    BY <2>4 DEF RingConsistent, Slots
<1>3. CASE RecvFromSender(g)
  <2>1. qcount = dataqsiz /\ qcount' = qcount
    BY <1>3 DEF RecvFromSender, NobodyWaitsInVain
  <2>2. dataqsiz > 0 => recvx' = NextIndex(recvx) /\ sendx' = recvx'
    BY <1>3 DEF RecvFromSender
  <2> QED
    BY <2>1, <2>2 DEF RingConsistent, NextIndex, TypeOK, Slots
<1>4. CASE UNCHANGED <<qcount, sendx, recvx>>
  BY <1>4 DEF RingConsistent
<1> QED
  BY <1>1, <1>2, <1>3, <1>4
  DEF chan_send, SendOnClosed, SendToReceiver, SendGivesUp, SendParks,
      chan_recv, RecvOnClosed, RecvGivesUp, RecvParks,
      chan_close, CloseOnClosed, CloseBegins,
      Continue, OwnStep, SendDirect, CloseReadiesReceiver, CloseReadiesSender, CloseEnds,
      SchedUnlock, Resume, chanVars

(* Nobody waits who could be served; a close leaves nobody behind. *)
LEMMA WaitingStep ==
  ASSUME IInv, NEW g \in Goroutine,
         chan_send(g) \/ chan_recv(g) \/ chan_close(g) \/ Continue(g)
  PROVE  CloseInv' /\ NobodyWaitsInVain'
<1> USE ChanAssumption
<1>0. TypeOK /\ NobodyWaitsInVain /\ CloseInv /\ LockInv /\ QueueInv
  BY DEF IInv, WakeInv
<1>t. /\ recvq \in Seq(Goroutine) /\ sendq \in Seq(Goroutine)
      /\ pc \in [Goroutine -> Waits \cup Parks \cup {"out", "send_direct", "closing", "panicked"}]
  BY <1>0 DEF TypeOK
(* With waiters on a closed channel, mu is held by the goroutine that closes. *)
<1>c. ASSUME closed, recvq # <<>> \/ sendq # <<>>
      PROVE  \E k \in Goroutine : pc[k] = "closing" /\ mu = k
  BY <1>0, <1>c DEF CloseInv, LockInv
<1>n. closed /\ mu = NoG => recvq = <<>> /\ sendq = <<>>
  BY <1>0 DEF NobodyWaitsInVain
(* The part about the buffer. *)
<1>w. /\ sendq' # <<>> => qcount' = dataqsiz /\ recvq' = <<>>
      /\ recvq' # <<>> => qcount' = 0
  <2>1. CASE SendBuffered(g) \/ RecvBuffered(g)
    BY <1>0, <2>1 DEF SendBuffered, RecvBuffered, NobodyWaitsInVain, TypeOK
  <2>2. CASE SendParks(g) \/ RecvParks(g)
    BY <1>0, <2>2 DEF SendParks, SendFull, RecvParks, RecvEmpty, NobodyWaitsInVain
  <2>3. CASE /\ qcount' = qcount
             /\ recvq # <<>> => recvq' = recvq \/ recvq' = Tail(recvq)
             /\ recvq = <<>> => recvq' = <<>>
             /\ sendq # <<>> => sendq' = sendq \/ sendq' = Tail(sendq)
             /\ sendq = <<>> => sendq' = <<>>
    BY <1>0, <2>3 DEF NobodyWaitsInVain
  <2> QED
    BY <2>1, <2>2, <2>3
    DEF chan_send, SendOnClosed, SendToReceiver, SendGivesUp, SendFull,
        chan_recv, RecvFromSender, RecvOnClosed, RecvGivesUp, RecvEmpty,
        chan_close, CloseOnClosed, CloseBegins,
        Continue, OwnStep, SendDirect, CloseReadiesReceiver, CloseReadiesSender, CloseEnds,
        SchedUnlock, Resume, chanVars
<1>1. CASE ~closed'
  BY <1>w, <1>1 DEF CloseInv, NobodyWaitsInVain
<1>2. CASE CloseBegins(g)
  <2>1. mu' = g /\ pc'[g] = "closing"
    BY <1>2, <1>t DEF CloseBegins
  <2> QED
    BY <1>w, <2>1 DEF CloseInv, NobodyWaitsInVain
<1>3. CASE closed /\ recvq = <<>> /\ sendq = <<>>
  <2>1. recvq' = <<>> /\ sendq' = <<>>
    BY <1>3
    DEF chan_send, SendOnClosed, SendToReceiver, SendBuffered, SendGivesUp, SendParks, SendFull,
        chan_recv, RecvFromSender, RecvBuffered, RecvOnClosed, RecvGivesUp, RecvParks,
        chan_close, CloseOnClosed, CloseBegins,
        Continue, OwnStep, SendDirect, CloseReadiesReceiver, CloseReadiesSender, CloseEnds,
        SchedUnlock, Resume, chanVars
  <2> QED
    BY <1>w, <2>1 DEF CloseInv, NobodyWaitsInVain
<1>4. CASE closed /\ (recvq # <<>> \/ sendq # <<>>)
  <2>1. PICK k \in Goroutine : pc[k] = "closing" /\ mu = k
    BY <1>c, <1>4
  <2>2. SendDirect(g) \/ CloseReadiesReceiver(g) \/ CloseReadiesSender(g) \/ Resume(g)
    <3>1. ~Enter(g)
      BY <2>1 DEF Enter
    <3>2. ~CloseEnds(g)
      BY <1>4 DEF CloseEnds
    <3>3. ~SchedUnlock(g)
      BY <1>0, <2>1 DEF SchedUnlock, LockInv, Parks
    <3> QED
      BY <3>1, <3>2, <3>3
      DEF chan_send, SendOnClosed, SendToReceiver, SendBuffered, SendGivesUp, SendParks, SendFull,
          chan_recv, RecvFromSender, RecvBuffered, RecvOnClosed, RecvGivesUp, RecvParks, RecvEmpty,
          chan_close, CloseOnClosed, CloseBegins, Continue, OwnStep
  <2>3. pc'[k] = "closing" /\ mu' = k
    BY <1>t, <2>1, <2>2
    DEF SendDirect, CloseReadiesReceiver, CloseReadiesSender, Resume, Waits, chanVars
  <2> QED
    BY <1>w, <2>3 DEF CloseInv, NobodyWaitsInVain
<1> QED
  <2>1. ~closed => ~closed' \/ CloseBegins(g)
    BY DEF chan_send, SendOnClosed, SendToReceiver, SendBuffered, SendGivesUp, SendParks,
           chan_recv, RecvFromSender, RecvBuffered, RecvOnClosed, RecvGivesUp, RecvParks,
           chan_close, CloseOnClosed,
           Continue, OwnStep, SendDirect, CloseReadiesReceiver, CloseReadiesSender, CloseEnds,
           SchedUnlock, Resume, chanVars
  <2> QED
    BY <1>1, <1>2, <1>3, <1>4, <2>1

-----------------------------------------------------------------------------
(* Parking and waking *)

(* What the proofs below use of the types. *)
LEMMA WakeTypes ==
  ASSUME TypeOK
  PROVE  /\ recvq \in Seq(Goroutine) /\ sendq \in Seq(Goroutine)
         /\ pc \in [Goroutine -> Waits \cup Parks \cup {"out", "send_direct", "closing", "panicked"}]
         /\ status \in [Goroutine -> {"running", "waiting", "runnable"}]
         /\ peer \in [Goroutine -> Goroutine \cup {NoG}]
         /\ NoG \notin Goroutine
BY ChanAssumption DEF TypeOK

(* Steps that touch neither lock, wait lists, statuses nor the semaphore. *)
LEMMA WakeQuiet ==
  ASSUME TypeOK, WakeInv, NEW g \in Goroutine,
         UNCHANGED <<mu, recvq, sendq, status, main_park, peer>>,
         \/ pc' = pc
         \/ pc[g] = "out" /\ pc' = [pc EXCEPT ![g] = "panicked"]
  PROVE  WakeInv'
<1>1. CASE pc' = pc
  BY <1>1 DEF WakeInv, LockInv, QueueInv, StatusInv, MainInv, PeerInv, NoDroppedWakeup
<1>2. CASE pc[g] = "out" /\ pc' = [pc EXCEPT ![g] = "panicked"]
  <2>1. \A k \in Goroutine : \/ pc'[k] = pc[k]
                             \/ k = g /\ pc[k] = "out" /\ pc'[k] = "panicked"
    BY <1>2, WakeTypes
  <2>2. LockInv' /\ QueueInv' /\ StatusInv'
    BY <2>1 DEF WakeInv, LockInv, QueueInv, StatusInv, Waits, Parks
  <2>3. MainInv' /\ PeerInv'
    BY <2>1 DEF WakeInv, MainInv, PeerInv, Waits
  <2>4. NoDroppedWakeup'
    <3>1. ASSUME NEW k \in Goroutine, Queued(k, recvq') \/ Queued(k, sendq')
          PROVE  IF mu' = k THEN pc'[k] \in Parks ELSE pc'[k] \in Waits /\ status'[k] = "waiting"
      BY <2>1, <3>1 DEF WakeInv, NoDroppedWakeup, Waits, Parks
    <3>2. ASSUME NEW s \in Goroutine, pc'[s] = "send_direct"
          PROVE  /\ pc'[peer'[s]] = "wait_recv"
                 /\ status'[peer'[s]] = "waiting"
                 /\ ~Queued(peer'[s], recvq')
                 /\ \A t \in Goroutine \ {s} : pc'[t] = "send_direct" => peer'[t] # peer'[s]
      <4>1. pc[s] = "send_direct" /\ peer[s] \in Goroutine
        BY <2>1, <3>2 DEF WakeInv, PeerInv
      <4> QED
        BY <2>1, <4>1 DEF WakeInv, NoDroppedWakeup
    <3> QED
      BY <3>1, <3>2 DEF WakeInv, NoDroppedWakeup
  <2> QED
    BY <2>2, <2>3, <2>4 DEF WakeInv
<1> QED
  BY <1>1, <1>2

(* A direct send takes the first receiver, which has parked. *)
LEMMA WakeSendToReceiver ==
  ASSUME TypeOK, WakeInv, NEW g \in Goroutine, SendToReceiver(g)
  PROVE  WakeInv'
<1> DEFINE r == Head(recvq)
<1>0. /\ mu = NoG /\ mu' = NoG /\ pc[g] = "out"
      /\ recvq # <<>> /\ recvq' = Tail(recvq) /\ sendq' = sendq
      /\ status' = status /\ main_park' = main_park
      /\ peer' = [peer EXCEPT ![g] = r]
      /\ pc' = [pc EXCEPT ![g] = "send_direct"]
  BY DEF SendToReceiver, Enter, goVars
<1>1. /\ r \in Goroutine /\ Queued(r, recvq)
      /\ Injective(recvq')
      /\ \A k : Queued(k, recvq') <=> Queued(k, recvq) /\ k # r
  BY <1>0, HeadQueued, TailQueued, WakeTypes DEF WakeInv, QueueInv
<1>2. /\ pc[r] = "wait_recv" /\ status[r] = "waiting" /\ r # g
      /\ \A s \in Goroutine : pc[s] = "send_direct" => peer[s] # r
      /\ main_park = 1 => r # main_g
  <2>1. pc[r] \in {"park_recv", "wait_recv"} /\ pc[r] \in Waits /\ status[r] = "waiting"
    BY <1>0, <1>1, WakeTypes DEF WakeInv, NoDroppedWakeup, QueueInv
  <2>2. \A s \in Goroutine : pc[s] = "send_direct" => ~Queued(peer[s], recvq)
    BY DEF WakeInv, NoDroppedWakeup
  <2> QED
    BY <1>0, <1>1, <2>1, <2>2 DEF Waits, WakeInv, MainInv
<1>3. /\ \A k \in Goroutine : pc'[k] = IF k = g THEN "send_direct" ELSE pc[k]
      /\ \A k \in Goroutine : peer'[k] = IF k = g THEN r ELSE peer[k]
  BY <1>0, WakeTypes
<1> HIDE DEF r
<1>4. LockInv' /\ StatusInv'
  BY <1>0, <1>3 DEF WakeInv, LockInv, StatusInv, Waits, Parks
<1>5. QueueInv'
  <2>1. Injective(recvq') /\ Injective(sendq')
    BY <1>0, <1>1 DEF WakeInv, QueueInv
  <2>2. ASSUME NEW k \in Goroutine
        PROVE  /\ Queued(k, recvq') => pc'[k] \in {"park_recv", "wait_recv"}
               /\ Queued(k, sendq') => pc'[k] \in {"park_send", "wait_send"}
               /\ pc'[k] = "park_recv" => Queued(k, recvq')
               /\ pc'[k] = "park_send" => Queued(k, sendq')
    BY <1>0, <1>1, <1>2, <1>3 DEF WakeInv, QueueInv
  <2> QED
    BY <2>1, <2>2 DEF QueueInv
<1>6. MainInv'
  BY <1>0, <1>1, <1>2, <1>3 DEF WakeInv, MainInv, Waits
<1>8. PeerInv'
  BY <1>1, <1>3 DEF WakeInv, PeerInv
<1>7. NoDroppedWakeup'
  <2>1. \A k \in Goroutine :
          Queued(k, recvq') \/ Queued(k, sendq') =>
            IF mu' = k THEN pc'[k] \in Parks ELSE pc'[k] \in Waits /\ status'[k] = "waiting"
    BY <1>0, <1>1, <1>3, WakeTypes DEF WakeInv, NoDroppedWakeup, QueueInv
  <2>2. ASSUME NEW s \in Goroutine, pc'[s] = "send_direct"
        PROVE  /\ pc'[peer'[s]] = "wait_recv"
               /\ status'[peer'[s]] = "waiting"
               /\ ~Queued(peer'[s], recvq')
               /\ \A t \in Goroutine \ {s} : pc'[t] = "send_direct" => peer'[t] # peer'[s]
    <3>1. CASE s = g
      BY <1>0, <1>1, <1>2, <1>3, <3>1
    <3>2. CASE s # g
      <4>1. /\ pc[s] = "send_direct" /\ peer'[s] = peer[s]
            /\ pc[peer[s]] = "wait_recv" /\ status[peer[s]] = "waiting"
            /\ ~Queued(peer[s], recvq) /\ peer[s] # r
            /\ \A t \in Goroutine \ {s} : pc[t] = "send_direct" => peer[t] # peer[s]
        BY <1>2, <1>3, <2>2, <3>2 DEF WakeInv, NoDroppedWakeup
      <4>2. peer[s] \in Goroutine
        BY <4>1 DEF WakeInv, PeerInv
      <4> QED
        BY <1>0, <1>1, <1>3, <3>2, <4>1, <4>2
    <3> QED
      BY <3>1, <3>2
  <2>3. main_park' \in {0, 1}
    BY <1>0 DEF WakeInv, NoDroppedWakeup
  <2> QED
    BY <2>1, <2>2, <2>3 DEF NoDroppedWakeup
<1> QED
  BY <1>4, <1>5, <1>6, <1>7, <1>8 DEF WakeInv

(* Taking the lock for a close, and releasing it. *)
LEMMA WakeClosing ==
  ASSUME TypeOK, WakeInv, NEW g \in Goroutine,
         UNCHANGED <<recvq, sendq, status, main_park, peer>>,
         \/ mu = NoG /\ mu' = g /\ pc[g] = "out" /\ pc' = [pc EXCEPT ![g] = "closing"]
         \/ mu' = NoG /\ pc[g] = "closing" /\ pc' = [pc EXCEPT ![g] = "out"]
  PROVE  WakeInv'
<1>1. \A k \in Goroutine :
        /\ k # g => pc'[k] = pc[k]
        /\ pc[g] \in {"out", "closing"} /\ pc'[g] \in {"out", "closing"}
        /\ mu' = g <=> pc'[g] = "closing"
  BY WakeTypes
<1>2. \A k \in Goroutine \ {g} : mu # k /\ mu' # k
  BY WakeTypes DEF WakeInv, LockInv
<1>3. LockInv' /\ QueueInv' /\ StatusInv'
  BY <1>1, <1>2 DEF WakeInv, LockInv, QueueInv, StatusInv, Waits, Parks
<1>4. MainInv' /\ PeerInv'
  BY <1>1 DEF WakeInv, MainInv, PeerInv, Waits
<1>5. NoDroppedWakeup'
  <2>1. ASSUME NEW k \in Goroutine, Queued(k, recvq') \/ Queued(k, sendq')
        PROVE  IF mu' = k THEN pc'[k] \in Parks ELSE pc'[k] \in Waits /\ status'[k] = "waiting"
    <3>1. pc[k] \in Waits \cup Parks /\ k # g
      BY <1>1, <2>1 DEF WakeInv, NoDroppedWakeup, Waits, Parks
    <3> QED
      BY <1>1, <1>2, <2>1, <3>1 DEF WakeInv, NoDroppedWakeup
  <2>2. ASSUME NEW s \in Goroutine, pc'[s] = "send_direct"
        PROVE  /\ pc'[peer'[s]] = "wait_recv"
               /\ status'[peer'[s]] = "waiting"
               /\ ~Queued(peer'[s], recvq')
               /\ \A t \in Goroutine \ {s} : pc'[t] = "send_direct" => peer'[t] # peer'[s]
    <3>1. pc[s] = "send_direct" /\ peer[s] \in Goroutine
      BY <1>1, <2>2 DEF WakeInv, PeerInv
    <3> QED
      BY <1>1, <3>1 DEF WakeInv, NoDroppedWakeup
  <2> QED
    BY <2>1, <2>2 DEF WakeInv, NoDroppedWakeup
<1> QED
  BY <1>3, <1>4, <1>5 DEF WakeInv

(* A goroutine enqueues itself and keeps the lock. *)
LEMMA WakeParks ==
  ASSUME TypeOK, WakeInv, NEW g \in Goroutine,
         pc[g] = "out", mu = NoG, mu' = g,
         UNCHANGED <<status, main_park, peer>>,
         \/ /\ sendq' = Append(sendq, g) /\ recvq' = recvq
            /\ pc' = [pc EXCEPT ![g] = "park_send"]
         \/ /\ recvq' = Append(recvq, g) /\ sendq' = sendq
            /\ pc' = [pc EXCEPT ![g] = "park_recv"]
  PROVE  WakeInv'
<1>1. /\ \A k \in Goroutine \ {g} : pc'[k] = pc[k]
      /\ pc'[g] \in Parks
  BY WakeTypes DEF Parks
<1>2. ~Queued(g, recvq) /\ ~Queued(g, sendq)
  BY DEF WakeInv, QueueInv
<1>3. /\ Injective(recvq') /\ Injective(sendq')
      /\ \A k \in Goroutine \ {g} : /\ Queued(k, recvq') <=> Queued(k, recvq)
                                    /\ Queued(k, sendq') <=> Queued(k, sendq)
      /\ Queued(g, recvq') <=> pc'[g] = "park_recv"
      /\ Queued(g, sendq') <=> pc'[g] = "park_send"
  <2>0. /\ Injective(recvq) /\ Injective(sendq)
        /\ recvq \in Seq(Goroutine) /\ sendq \in Seq(Goroutine)
    BY WakeTypes DEF WakeInv, QueueInv
  <2>1. CASE sendq' = Append(sendq, g) /\ recvq' = recvq /\ pc' = [pc EXCEPT ![g] = "park_send"]
    <3>1. Injective(sendq') /\ \A k : Queued(k, sendq') <=> Queued(k, sendq) \/ k = g
      BY <1>2, <2>0, <2>1, AppendQueued
    <3>2. pc'[g] = "park_send"
      BY <2>1, WakeTypes
    <3> QED
      BY <1>2, <2>0, <2>1, <3>1, <3>2
  <2>2. CASE recvq' = Append(recvq, g) /\ sendq' = sendq /\ pc' = [pc EXCEPT ![g] = "park_recv"]
    <3>1. Injective(recvq') /\ \A k : Queued(k, recvq') <=> Queued(k, recvq) \/ k = g
      BY <1>2, <2>0, <2>2, AppendQueued
    <3>2. pc'[g] = "park_recv"
      BY <2>2, WakeTypes
    <3> QED
      BY <1>2, <2>0, <2>2, <3>1, <3>2
  <2> QED
    BY <2>1, <2>2
<1>4. \A k \in Goroutine : mu' = k <=> k = g
  OBVIOUS
<1>5. LockInv' /\ StatusInv'
  BY <1>1, <1>4, WakeTypes DEF WakeInv, LockInv, StatusInv, Waits, Parks
<1>6. QueueInv'
  BY <1>1, <1>3 DEF WakeInv, QueueInv, Parks
<1>7. MainInv' /\ PeerInv'
  BY <1>1, <1>3 DEF WakeInv, MainInv, PeerInv, Waits, Parks
<1>8. NoDroppedWakeup'
  <2>1. ASSUME NEW k \in Goroutine, Queued(k, recvq') \/ Queued(k, sendq')
        PROVE  IF mu' = k THEN pc'[k] \in Parks ELSE pc'[k] \in Waits /\ status'[k] = "waiting"
    BY <1>1, <1>3, <2>1, WakeTypes DEF WakeInv, NoDroppedWakeup
  <2>2. ASSUME NEW s \in Goroutine, pc'[s] = "send_direct"
        PROVE  /\ pc'[peer'[s]] = "wait_recv"
               /\ status'[peer'[s]] = "waiting"
               /\ ~Queued(peer'[s], recvq')
               /\ \A t \in Goroutine \ {s} : pc'[t] = "send_direct" => peer'[t] # peer'[s]
    <3>1. s # g /\ pc[s] = "send_direct" /\ peer[s] \in Goroutine
      BY <1>1, <2>2 DEF WakeInv, PeerInv, Parks
    <3>2. /\ pc[peer[s]] = "wait_recv" /\ status[peer[s]] = "waiting"
          /\ ~Queued(peer[s], recvq)
          /\ \A t \in Goroutine \ {s} : pc[t] = "send_direct" => peer[t] # peer[s]
      BY <3>1 DEF WakeInv, NoDroppedWakeup
    <3>3. peer[s] # g
      BY <3>2
    <3> QED
      BY <1>1, <1>3, <3>1, <3>2, <3>3 DEF Parks
  <2> QED
    BY <2>1, <2>2 DEF WakeInv, NoDroppedWakeup
<1> QED
  BY <1>5, <1>6, <1>7, <1>8 DEF WakeInv

(* x, off the wait lists and on nobody's way, is readied. *)
LEMMA WakeReadies ==
  ASSUME TypeOK, WakeInv, NEW x \in Goroutine, goready(x),
         pc[x] \in Waits, status[x] = "waiting", main_park = 1 => x # main_g,
         mu' = mu,
         Injective(recvq'), Injective(sendq'),
         \A k \in Goroutine : /\ Queued(k, recvq') <=> Queued(k, recvq) /\ k # x
                              /\ Queued(k, sendq') <=> Queued(k, sendq) /\ k # x,
         \A k \in Goroutine : \/ pc'[k] = pc[k]
                              \/ pc[k] = "send_direct" /\ pc'[k] = "out",
         \A k \in Goroutine : pc'[k] = "send_direct" => peer'[k] = peer[k] /\ peer[k] # x
  PROVE  WakeInv'
<1>1. /\ \A k \in Goroutine \ {x} : status'[k] = status[k]
      /\ status'[x] = IF x = main_g THEN "waiting" ELSE "runnable"
      /\ main_park' = IF x = main_g THEN main_park + 1 ELSE main_park
  BY WakeTypes DEF goready
<1>2. LockInv' /\ PeerInv'
  BY DEF WakeInv, LockInv, PeerInv, Parks
<1>3. QueueInv'
  <2>1. pc[x] \notin Parks
    BY DEF Waits, Parks
  <2> QED
    BY <2>1 DEF WakeInv, QueueInv, Waits, Parks
<1>4. StatusInv'
  BY <1>1 DEF WakeInv, StatusInv, Waits
<1>5. main_park' \in {0, 1}
  BY <1>1 DEF WakeInv, NoDroppedWakeup
<1>6. MainInv'
  <2>1. CASE x = main_g
    BY <2>1 DEF MainInv, Waits
  <2>2. CASE x # main_g
    BY <1>1, <2>2 DEF WakeInv, MainInv, Waits
  <2> QED
    BY <2>1, <2>2
<1>7. NoDroppedWakeup'
  <2>1. ASSUME NEW k \in Goroutine, Queued(k, recvq') \/ Queued(k, sendq')
        PROVE  IF mu' = k THEN pc'[k] \in Parks ELSE pc'[k] \in Waits /\ status'[k] = "waiting"
    <3>1. k # x /\ (Queued(k, recvq) \/ Queued(k, sendq))
      BY <2>1
    <3>2. IF mu = k THEN pc[k] \in Parks ELSE pc[k] \in Waits /\ status[k] = "waiting"
      BY <3>1 DEF WakeInv, NoDroppedWakeup
    <3>3. pc'[k] = pc[k]
      BY <3>2 DEF Parks, Waits
    <3> QED
      BY <1>1, <3>1, <3>2, <3>3
  <2>2. ASSUME NEW s \in Goroutine, pc'[s] = "send_direct"
        PROVE  /\ pc'[peer'[s]] = "wait_recv"
               /\ status'[peer'[s]] = "waiting"
               /\ ~Queued(peer'[s], recvq')
               /\ \A t \in Goroutine \ {s} : pc'[t] = "send_direct" => peer'[t] # peer'[s]
    <3>1. /\ pc[s] = "send_direct" /\ peer'[s] = peer[s] /\ peer[s] # x
          /\ peer[s] \in Goroutine
      BY <2>2 DEF WakeInv, PeerInv
    <3>2. /\ pc[peer[s]] = "wait_recv" /\ status[peer[s]] = "waiting"
          /\ ~Queued(peer[s], recvq)
          /\ \A t \in Goroutine \ {s} : pc[t] = "send_direct" => peer[t] # peer[s]
      BY <3>1 DEF WakeInv, NoDroppedWakeup
    <3> QED
      BY <1>1, <3>1, <3>2
  <2> QED
    BY <1>5, <2>1, <2>2 DEF NoDroppedWakeup
<1> QED
  BY <1>2, <1>3, <1>4, <1>6, <1>7 DEF WakeInv

(* The scheduler has saved the context; only now the lock is released. *)
LEMMA WakeSchedUnlock ==
  ASSUME TypeOK, WakeInv, NEW g \in Goroutine, SchedUnlock(g)
  PROVE  WakeInv'
<1>0. /\ pc[g] \in Parks /\ mu = g /\ mu' = NoG
      /\ UNCHANGED <<recvq, sendq, main_park, peer>>
  BY DEF SchedUnlock, WakeInv, LockInv
<1>1. /\ \A k \in Goroutine \ {g} : pc'[k] = pc[k] /\ status'[k] = status[k]
      /\ \/ pc[g] = "park_send" /\ pc'[g] = "wait_send"
         \/ pc[g] = "park_recv" /\ pc'[g] = "wait_recv"
      /\ status'[g] = "waiting"
  BY WakeTypes DEF SchedUnlock, Parks
<1>2. LockInv' /\ StatusInv' /\ PeerInv'
  BY <1>0, <1>1, WakeTypes DEF WakeInv, LockInv, StatusInv, PeerInv, Waits, Parks
<1>3. QueueInv'
  BY <1>0, <1>1 DEF WakeInv, QueueInv
<1>4. MainInv'
  BY <1>0, <1>1 DEF WakeInv, MainInv, Waits, Parks
<1>5. NoDroppedWakeup'
  <2>1. ASSUME NEW k \in Goroutine, Queued(k, recvq') \/ Queued(k, sendq')
        PROVE  IF mu' = k THEN pc'[k] \in Parks ELSE pc'[k] \in Waits /\ status'[k] = "waiting"
    <3>1. CASE k = g
      BY <1>0, <1>1, <3>1, WakeTypes DEF Waits
    <3>2. CASE k # g
      BY <1>0, <1>1, <2>1, <3>2, WakeTypes DEF WakeInv, NoDroppedWakeup
    <3> QED
      BY <3>1, <3>2
  <2>2. ASSUME NEW s \in Goroutine, pc'[s] = "send_direct"
        PROVE  /\ pc'[peer'[s]] = "wait_recv"
               /\ status'[peer'[s]] = "waiting"
               /\ ~Queued(peer'[s], recvq')
               /\ \A t \in Goroutine \ {s} : pc'[t] = "send_direct" => peer'[t] # peer'[s]
    <3>1. pc[s] = "send_direct" /\ peer[s] \in Goroutine
      BY <1>1, <2>2 DEF WakeInv, PeerInv
    <3>2. /\ pc[peer[s]] = "wait_recv" /\ status[peer[s]] = "waiting"
          /\ ~Queued(peer[s], recvq)
          /\ \A t \in Goroutine \ {s} : pc[t] = "send_direct" => peer[t] # peer[s]
      BY <3>1 DEF WakeInv, NoDroppedWakeup
    <3>3. peer[s] # g
      BY <1>1, <3>2
    <3> QED
      BY <1>0, <1>1, <3>1, <3>2, <3>3
  <2> QED
    BY <1>0, <2>1, <2>2 DEF WakeInv, NoDroppedWakeup
<1> QED
  BY <1>2, <1>3, <1>4, <1>5 DEF WakeInv

(* A goroutine goes on only after it was readied: it waits nowhere. *)
LEMMA WakeResume ==
  ASSUME TypeOK, WakeInv, NEW g \in Goroutine, Resume(g)
  PROVE  WakeInv'
<1>0. /\ pc[g] \in Waits
      /\ UNCHANGED <<mu, recvq, sendq, peer>>
  BY DEF Resume, chanVars
<1>1. /\ \A k \in Goroutine \ {g} : pc'[k] = pc[k] /\ status'[k] = status[k]
      /\ pc'[g] \in {"out", "panicked"}
      /\ status'[g] = "running"
  BY WakeTypes DEF Resume
<1>2. IF g = main_g THEN main_park = 1 /\ main_park' = 0
                    ELSE status[g] = "runnable" /\ main_park' = main_park
  BY DEF Resume, WakeInv, NoDroppedWakeup
<1>3. /\ ~Queued(g, recvq) /\ ~Queued(g, sendq)
      /\ \A s \in Goroutine : pc[s] = "send_direct" => peer[s] # g
  <2>1. CASE g = main_g
    BY <1>2, <2>1 DEF WakeInv, MainInv
  <2>2. CASE g # main_g
    <3>1. status[g] # "waiting" /\ pc[g] \notin Parks
      BY <1>0, <1>2, <2>2 DEF Waits, Parks
    <3> QED
      BY <3>1 DEF WakeInv, NoDroppedWakeup
  <2> QED
    BY <2>1, <2>2
<1>4. LockInv' /\ StatusInv' /\ PeerInv'
  BY <1>0, <1>1 DEF WakeInv, LockInv, StatusInv, PeerInv, Waits, Parks
<1>5. QueueInv'
  BY <1>0, <1>1, <1>3 DEF WakeInv, QueueInv, Waits
<1>6. MainInv'
  BY <1>0, <1>1, <1>2 DEF WakeInv, MainInv
<1>7. NoDroppedWakeup'
  <2>1. ASSUME NEW k \in Goroutine, Queued(k, recvq') \/ Queued(k, sendq')
        PROVE  IF mu' = k THEN pc'[k] \in Parks ELSE pc'[k] \in Waits /\ status'[k] = "waiting"
    BY <1>0, <1>1, <1>3, <2>1 DEF WakeInv, NoDroppedWakeup
  <2>2. ASSUME NEW s \in Goroutine, pc'[s] = "send_direct"
        PROVE  /\ pc'[peer'[s]] = "wait_recv"
               /\ status'[peer'[s]] = "waiting"
               /\ ~Queued(peer'[s], recvq')
               /\ \A t \in Goroutine \ {s} : pc'[t] = "send_direct" => peer'[t] # peer'[s]
    <3>1. pc[s] = "send_direct" /\ peer[s] \in Goroutine /\ peer[s] # g
      BY <1>1, <1>3, <2>2 DEF WakeInv, PeerInv
    <3>2. /\ pc[peer[s]] = "wait_recv" /\ status[peer[s]] = "waiting"
          /\ ~Queued(peer[s], recvq)
          /\ \A t \in Goroutine \ {s} : pc[t] = "send_direct" => peer[t] # peer[s]
      BY <3>1 DEF WakeInv, NoDroppedWakeup
    <3> QED
      BY <1>0, <1>1, <3>1, <3>2
  <2>3. main_park' \in {0, 1}
    BY <1>2 DEF WakeInv, NoDroppedWakeup
  <2> QED
    BY <2>1, <2>2, <2>3 DEF NoDroppedWakeup
<1> QED
  BY <1>4, <1>5, <1>6, <1>7 DEF WakeInv

(* The four operations that end in goready. *)
LEMMA WakeGoready ==
  ASSUME TypeOK, WakeInv, NEW g \in Goroutine,
         \/ SendDirect(g) \/ RecvFromSender(g)
         \/ CloseReadiesReceiver(g) \/ CloseReadiesSender(g)
  PROVE  WakeInv'
<1>1. CASE SendDirect(g)
  <2> DEFINE x == peer[g]
  <2>0. /\ pc[g] = "send_direct" /\ x \in Goroutine /\ goready(x)
        /\ UNCHANGED <<mu, recvq, sendq>>
        /\ peer' = [peer EXCEPT ![g] = NoG]
        /\ pc' = [pc EXCEPT ![g] = "out"]
    BY <1>1 DEF SendDirect, chanVars, WakeInv, PeerInv
  <2>1. /\ pc[x] = "wait_recv" /\ status[x] = "waiting" /\ ~Queued(x, recvq)
        /\ \A t \in Goroutine \ {g} : pc[t] = "send_direct" => peer[t] # x
        /\ ~Queued(x, sendq)
        /\ main_park = 1 => x # main_g
    BY <2>0 DEF WakeInv, NoDroppedWakeup, QueueInv, MainInv
  <2>2. /\ \A k \in Goroutine : pc'[k] = IF k = g THEN "out" ELSE pc[k]
        /\ \A k \in Goroutine \ {g} : peer'[k] = peer[k]
    BY <2>0, WakeTypes
  <2>3. Injective(recvq') /\ Injective(sendq')
    BY <2>0 DEF WakeInv, QueueInv
  <2> HIDE DEF x
  <2>4. \A k \in Goroutine : /\ Queued(k, recvq') <=> Queued(k, recvq) /\ k # x
                             /\ Queued(k, sendq') <=> Queued(k, sendq) /\ k # x
    BY <2>0, <2>1
  <2>5. /\ \A k \in Goroutine : \/ pc'[k] = pc[k]
                                \/ pc[k] = "send_direct" /\ pc'[k] = "out"
        /\ \A k \in Goroutine : pc'[k] = "send_direct" => peer'[k] = peer[k] /\ peer[k] # x
    BY <2>0, <2>1, <2>2
  <2>6. pc[x] \in Waits
    BY <2>1 DEF Waits
  <2> QED
    BY <2>0, <2>1, <2>3, <2>4, <2>5, <2>6, WakeReadies
<1>2. ASSUME recvq # <<>>, recvq' = Tail(recvq), sendq' = sendq, goready(Head(recvq)),
             UNCHANGED <<mu, pc, peer>>, mu # Head(recvq)
      PROVE  WakeInv'
  <2> DEFINE x == Head(recvq)
  <2>1. /\ x \in Goroutine /\ Queued(x, recvq) /\ Injective(recvq')
        /\ \A k : Queued(k, recvq') <=> Queued(k, recvq) /\ k # x
    BY <1>2, HeadQueued, TailQueued, WakeTypes DEF WakeInv, QueueInv
  <2>2. /\ pc[x] \in Waits /\ status[x] = "waiting" /\ ~Queued(x, sendq)
        /\ \A t \in Goroutine : pc[t] = "send_direct" => peer[t] # x
        /\ main_park = 1 => x # main_g
    BY <1>2, <2>1 DEF WakeInv, NoDroppedWakeup, QueueInv, MainInv
  <2>3. Injective(sendq')
    BY <1>2 DEF WakeInv, QueueInv
  <2>4. \A k \in Goroutine : Queued(k, sendq') <=> Queued(k, sendq) /\ k # x
    BY <1>2, <2>2
  <2> HIDE DEF x
  <2> QED
    BY <1>2, <2>1, <2>2, <2>3, <2>4, WakeReadies DEF x
<1>3. ASSUME sendq # <<>>, sendq' = Tail(sendq), recvq' = recvq, goready(Head(sendq)),
             UNCHANGED <<mu, pc, peer>>, mu # Head(sendq)
      PROVE  WakeInv'
  <2> DEFINE x == Head(sendq)
  <2>1. /\ x \in Goroutine /\ Queued(x, sendq) /\ Injective(sendq')
        /\ \A k : Queued(k, sendq') <=> Queued(k, sendq) /\ k # x
    BY <1>3, HeadQueued, TailQueued, WakeTypes DEF WakeInv, QueueInv
  <2>2. /\ pc[x] \in Waits /\ status[x] = "waiting" /\ ~Queued(x, recvq)
        /\ main_park = 1 => x # main_g
    BY <1>3, <2>1 DEF WakeInv, NoDroppedWakeup, QueueInv, MainInv
  <2>3. \A t \in Goroutine : pc[t] = "send_direct" => peer[t] # x
    BY <2>1 DEF WakeInv, NoDroppedWakeup, QueueInv
  <2>4. Injective(recvq')
    BY <1>3 DEF WakeInv, QueueInv
  <2>5. \A k \in Goroutine : Queued(k, recvq') <=> Queued(k, recvq) /\ k # x
    BY <1>3, <2>2
  <2> HIDE DEF x
  <2> QED
    BY <1>3, <2>1, <2>2, <2>3, <2>4, <2>5, WakeReadies DEF x
(* The lock is not held by the goroutine to be readied. *)
<1>4. CASE RecvFromSender(g)
  <2>1. mu = NoG /\ sendq # <<>>
    BY <1>4 DEF RecvFromSender, Enter
  <2>2. mu # Head(sendq)
    BY <2>1, HeadQueued, WakeTypes
  <2> QED
    BY <1>3, <1>4, <2>2 DEF RecvFromSender
<1>5. CASE CloseReadiesReceiver(g)
  <2>1. /\ recvq # <<>> /\ recvq' = Tail(recvq) /\ sendq' = sendq /\ goready(Head(recvq))
        /\ UNCHANGED <<mu, pc, peer>>
        /\ pc[g] = "closing" /\ mu = g
    BY <1>5 DEF CloseReadiesReceiver, WakeInv, LockInv
  <2>2. mu # Head(recvq)
    BY <2>1, HeadQueued, WakeTypes DEF WakeInv, QueueInv
  <2> QED
    BY <1>2, <2>1, <2>2
<1>6. CASE CloseReadiesSender(g)
  <2>1. /\ sendq # <<>> /\ sendq' = Tail(sendq) /\ recvq' = recvq /\ goready(Head(sendq))
        /\ UNCHANGED <<mu, pc, peer>>
        /\ pc[g] = "closing" /\ mu = g
    BY <1>6 DEF CloseReadiesSender, WakeInv, LockInv
  <2>2. mu # Head(sendq)
    BY <2>1, HeadQueued, WakeTypes DEF WakeInv, QueueInv
  <2> QED
    BY <1>3, <2>1, <2>2
<1> QED
  BY <1>1, <1>4, <1>5, <1>6

(* Every step keeps the parking handshake consistent. *)
LEMMA WakeStep ==
  ASSUME TypeOK, WakeInv, NEW g \in Goroutine,
         chan_send(g) \/ chan_recv(g) \/ chan_close(g) \/ Continue(g)
  PROVE  WakeInv'
<1>1. CASE \/ SendOnClosed(g) \/ SendBuffered(g) \/ SendGivesUp(g)
           \/ RecvBuffered(g) \/ RecvOnClosed(g) \/ RecvGivesUp(g) \/ CloseOnClosed(g)
  <2>1. /\ UNCHANGED <<mu, recvq, sendq, status, main_park, peer>>
        /\ \/ pc' = pc
           \/ pc[g] = "out" /\ pc' = [pc EXCEPT ![g] = "panicked"]
    BY <1>1
    DEF SendOnClosed, SendBuffered, SendGivesUp, RecvBuffered, RecvOnClosed, RecvGivesUp,
        CloseOnClosed, Enter, chanVars, goVars
  <2> QED
    BY <2>1, WakeQuiet
<1>2. CASE SendToReceiver(g)
  BY <1>2, WakeSendToReceiver
<1>3. CASE SendParks(g) \/ RecvParks(g)
  BY <1>3, WakeParks DEF SendParks, SendFull, RecvParks, RecvEmpty, Enter, goVars
<1>4. CASE CloseBegins(g) \/ CloseEnds(g)
  BY <1>4, WakeClosing DEF CloseBegins, CloseEnds, Enter, goVars
<1>5. CASE \/ SendDirect(g) \/ RecvFromSender(g)
           \/ CloseReadiesReceiver(g) \/ CloseReadiesSender(g)
  BY <1>5, WakeGoready
<1>6. CASE SchedUnlock(g)
  BY <1>6, WakeSchedUnlock
<1>7. CASE Resume(g)
  BY <1>7, WakeResume
<1> QED
  BY <1>1, <1>2, <1>3, <1>4, <1>5, <1>6, <1>7 DEF chan_send, chan_recv, chan_close, Continue, OwnStep

-----------------------------------------------------------------------------
(* The theorems *)

(* The invariant of the channel is inductive. *)
THEOREM Invariance == Spec => []IInv
<1>1. ASSUME IInv, [Next]_vars PROVE IInv'
  <2>1. CASE Next
    <3>1. PICK g \in Goroutine : chan_send(g) \/ chan_recv(g) \/ chan_close(g) \/ Continue(g)
      BY <2>1 DEF Next
    <3>2. TypeOK /\ RingConsistent /\ NobodyWaitsInVain /\ WakeInv
      BY <1>1 DEF IInv
    <3>3. TypeOK'
      BY <3>1, <3>2, TypeOKStep
    <3>4. RingConsistent'
      BY <3>1, <3>2, RingStep
    <3>5. CloseInv' /\ NobodyWaitsInVain'
      BY <1>1, <3>1, WaitingStep
    <3>6. WakeInv'
      BY <3>1, <3>2, WakeStep
    <3> QED
      BY <3>3, <3>4, <3>5, <3>6 DEF IInv
  <2>2. CASE UNCHANGED vars
    BY <1>1, <2>2
    DEF IInv, TypeOK, RingConsistent, NobodyWaitsInVain, CloseInv, WakeInv, LockInv, QueueInv,
        StatusInv, MainInv, PeerInv, NoDroppedWakeup, vars, chanVars, goVars, callVars
  <2> QED
    BY <1>1, <2>1, <2>2
<1> QED
  BY InitIInv, <1>1, PTL DEF Spec

(* The types of the channel's state. *)
THEOREM ChanTypes == Spec => []TypeOK
<1>1. IInv => TypeOK
  BY DEF IInv
<1> QED
  BY Invariance, <1>1, PTL

(* The ring indices of a buffered channel always agree with its count. *)
THEOREM RingIsConsistent == Spec => []RingConsistent
<1>1. IInv => RingConsistent
  BY DEF IInv
<1> QED
  BY Invariance, <1>1, PTL

(* Nobody waits who could be served, and a close leaves nobody waiting. *)
THEOREM WaitersAreServed == Spec => []NobodyWaitsInVain
<1>1. IInv => NobodyWaitsInVain
  BY DEF IInv
<1> QED
  BY Invariance, <1>1, PTL

(* goready never finds a goroutine that has not completed its park, so its *)
(* silent return (park.v:70) loses no wakeup.                              *)
THEOREM WakeupsAreKept == Spec => []NoDroppedWakeup
<1>1. IInv => NoDroppedWakeup
  BY DEF IInv, WakeInv
<1> QED
  BY Invariance, <1>1, PTL

-----------------------------------------------------------------------------
(* GoChan implements FifoChan, for any number of goroutines, any buffer size and any      *)
(* number of calls: the initial state maps to an initial state, and every step of a        *)
(* goroutine or of the scheduler maps to one step of the abstract channel or to none.      *)
(*                                                                                         *)
(* The mapping needs two facts more: only a channel that is closed is being closed, and    *)
(* who waits has not been told of success.                                                 *)
WaiterInv ==
  /\ \A g \in Goroutine : pc[g] = "closing" => closed
  /\ \A g \in Goroutine : Queued(g, recvq) \/ Queued(g, sendq) => ~success[g]

-----------------------------------------------------------------------------
(* What a goroutine outside of the channel code, and one on a wait list, is not. *)

(* A goroutine outside the channel is on no wait list and nobody hands it a value. *)
LEMMA OutFacts ==
  ASSUME IInv, NEW g \in Goroutine, pc[g] = "out"
  PROVE  /\ ~Queued(g, recvq) /\ ~Queued(g, sendq)
         /\ \A s \in Goroutine : pc[s] = "send_direct" => peer[s] # g
BY DEF IInv, WakeInv, QueueInv, NoDroppedWakeup

(* What chan_send dequeues: one receiver, on no other list, owed nothing yet. *)
LEMMA ReceiverFacts ==
  ASSUME IInv, recvq # <<>>
  PROVE  /\ Head(recvq) \in Goroutine /\ Queued(Head(recvq), recvq)
         /\ \A g \in Goroutine : Queued(g, Tail(recvq)) <=> Queued(g, recvq) /\ g # Head(recvq)
         /\ \A s \in Goroutine : pc[s] = "send_direct" => peer[s] # Head(recvq)
         /\ ~Queued(Head(recvq), sendq)
<1>1. recvq \in Seq(Goroutine) /\ Injective(recvq)
  BY DEF IInv, TypeOK, WakeInv, QueueInv
<1>2. /\ Head(recvq) \in Goroutine /\ Queued(Head(recvq), recvq)
      /\ \A g : Queued(g, Tail(recvq)) <=> Queued(g, recvq) /\ g # Head(recvq)
  BY <1>1, HeadQueued, TailQueued
<1> QED
  BY <1>2 DEF IInv, WakeInv, NoDroppedWakeup, QueueInv

(* What chan_recv dequeues: one sender, on no other list. *)
LEMMA SenderFacts ==
  ASSUME IInv, sendq # <<>>
  PROVE  /\ Head(sendq) \in Goroutine /\ Queued(Head(sendq), sendq)
         /\ \A g \in Goroutine : Queued(g, Tail(sendq)) <=> Queued(g, sendq) /\ g # Head(sendq)
         /\ \A s \in Goroutine : pc[s] = "send_direct" => peer[s] # Head(sendq)
         /\ ~Queued(Head(sendq), recvq)
<1>1. sendq \in Seq(Goroutine) /\ Injective(sendq)
  BY DEF IInv, TypeOK, WakeInv, QueueInv
<1>2. /\ Head(sendq) \in Goroutine /\ Queued(Head(sendq), sendq)
      /\ \A g : Queued(g, Tail(sendq)) <=> Queued(g, sendq) /\ g # Head(sendq)
  BY <1>1, HeadQueued, TailQueued
<1> QED
  BY <1>2 DEF IInv, WakeInv, NoDroppedWakeup, QueueInv

(* Every step keeps it that way. *)
LEMMA WaiterStep ==
  ASSUME IInv, WaiterInv, NEW g \in Goroutine,
         chan_send(g) \/ chan_recv(g) \/ chan_close(g) \/ Continue(g)
  PROVE  WaiterInv'
<1>t. /\ pc \in [Goroutine -> Waits \cup Parks \cup {"out", "send_direct", "closing", "panicked"}]
      /\ success \in [Goroutine -> BOOLEAN]
      /\ recvq \in Seq(Goroutine) /\ sendq \in Seq(Goroutine)
  BY DEF IInv, TypeOK
(* Nobody starts to wait, and only x, who does not wait any more, is told. *)
<1>a. ASSUME NEW x \in Goroutine, NEW b \in BOOLEAN,
             success' = success \/ success' = [success EXCEPT ![x] = b],
             ~Queued(x, recvq') /\ ~Queued(x, sendq'),
             \A k \in Goroutine : /\ Queued(k, recvq') => Queued(k, recvq)
                                  /\ Queued(k, sendq') => Queued(k, sendq)
      PROVE  \A k \in Goroutine : Queued(k, recvq') \/ Queued(k, sendq') => ~success'[k]
  BY <1>t, <1>a DEF WaiterInv
<1>b. \A k \in Goroutine : pc'[k] = "closing" => closed'
  <2>1. CASE CloseBegins(g)
    BY <2>1, <1>t DEF CloseBegins
  <2>2. CASE ~CloseBegins(g)
    <3>1. closed' = closed /\ \A k \in Goroutine : pc'[k] = "closing" => pc[k] = "closing"
      BY <2>2, <1>t
      DEF chan_send, SendOnClosed, SendToReceiver, SendBuffered, SendGivesUp, SendFull, SendParks,
          chan_recv, RecvFromSender, RecvBuffered, RecvOnClosed, RecvGivesUp, RecvParks,
          chan_close, CloseOnClosed, Continue, OwnStep, SendDirect, CloseReadiesReceiver,
          CloseReadiesSender, CloseEnds, SchedUnlock, Resume, chanVars
    <3> QED
      BY <3>1 DEF WaiterInv
  <2> QED
    BY <2>1, <2>2
<1>c. \A k \in Goroutine : Queued(k, recvq') \/ Queued(k, sendq') => ~success'[k]
  <2>1. CASE \/ SendOnClosed(g) \/ SendBuffered(g) \/ SendGivesUp(g)
             \/ RecvBuffered(g) \/ RecvOnClosed(g) \/ RecvGivesUp(g)
             \/ CloseOnClosed(g) \/ CloseBegins(g)
    <3>1. /\ pc[g] = "out" /\ UNCHANGED <<recvq, sendq>>
          /\ success' = success \/ \E b \in BOOLEAN : success' = [success EXCEPT ![g] = b]
      BY <2>1
      DEF SendOnClosed, SendBuffered, SendGivesUp, SendFull, RecvBuffered, RecvOnClosed,
          RecvGivesUp, RecvEmpty, CloseOnClosed, CloseBegins, Enter, chanVars
    <3> QED
      BY <1>a, <3>1, OutFacts
  <2>2. CASE SendToReceiver(g)
    <3>1. /\ pc[g] = "out" /\ recvq # <<>> /\ recvq' = Tail(recvq) /\ sendq' = sendq
          /\ success' = [success EXCEPT ![g] = TRUE]
      BY <2>2 DEF SendToReceiver, Enter
    <3> QED
      BY <1>a, <3>1, OutFacts, ReceiverFacts
  <2>3. CASE SendParks(g)
    <3>1. /\ pc[g] = "out" /\ sendq' = Append(sendq, g) /\ recvq' = recvq
          /\ success' = [success EXCEPT ![g] = FALSE]
      BY <2>3 DEF SendParks, SendFull, Enter
    <3>2. \A k : Queued(k, sendq') <=> Queued(k, sendq) \/ k = g
      BY <1>t, <3>1, AppendQueued
    <3> QED
      BY <1>t, <3>1, <3>2 DEF WaiterInv
  <2>4. CASE RecvParks(g)
    <3>1. /\ pc[g] = "out" /\ recvq' = Append(recvq, g) /\ sendq' = sendq
          /\ success' = [success EXCEPT ![g] = FALSE]
      BY <2>4 DEF RecvParks, RecvEmpty, Enter
    <3>2. \A k : Queued(k, recvq') <=> Queued(k, recvq) \/ k = g
      BY <1>t, <3>1, AppendQueued
    <3> QED
      BY <1>t, <3>1, <3>2 DEF WaiterInv
  <2>5. CASE RecvFromSender(g)
    <3>1. /\ pc[g] = "out" /\ sendq # <<>> /\ sendq' = Tail(sendq) /\ recvq' = recvq
          /\ success' = [success EXCEPT ![g] = TRUE, ![Head(sendq)] = TRUE]
      BY <2>5 DEF RecvFromSender, Enter
    <3>2. \A k \in Goroutine : success'[k] => success[k] \/ k = g \/ k = Head(sendq)
      BY <1>t, <3>1
    <3>3. \A k \in Goroutine : Queued(k, sendq') <=> Queued(k, sendq) /\ k # Head(sendq)
      BY <3>1, SenderFacts
    <3> QED
      BY <3>1, <3>2, <3>3, OutFacts, SenderFacts DEF WaiterInv
  <2>6. CASE SendDirect(g)
    <3>1. /\ peer[g] \in Goroutine /\ UNCHANGED <<recvq, sendq>>
          /\ success' = [success EXCEPT ![peer[g]] = TRUE]
          /\ ~Queued(peer[g], recvq) /\ ~Queued(peer[g], sendq)
      BY <2>6 DEF SendDirect, chanVars, IInv, WakeInv, PeerInv, NoDroppedWakeup, QueueInv
    <3> QED
      BY <1>a, <3>1
  <2>7. CASE CloseReadiesReceiver(g)
    <3>1. /\ recvq # <<>> /\ recvq' = Tail(recvq) /\ sendq' = sendq
          /\ success' = [success EXCEPT ![Head(recvq)] = FALSE]
      BY <2>7 DEF CloseReadiesReceiver
    <3> QED
      BY <1>a, <3>1, ReceiverFacts
  <2>8. CASE CloseReadiesSender(g)
    <3>1. /\ sendq # <<>> /\ sendq' = Tail(sendq) /\ recvq' = recvq
          /\ success' = [success EXCEPT ![Head(sendq)] = FALSE]
      BY <2>8 DEF CloseReadiesSender
    <3> QED
      BY <1>a, <3>1, SenderFacts
  <2>9. CASE CloseEnds(g) \/ SchedUnlock(g) \/ Resume(g)
    <3>1. UNCHANGED <<recvq, sendq, success>>
      BY <2>9 DEF CloseEnds, SchedUnlock, Resume, chanVars
    <3> QED
      BY <3>1 DEF WaiterInv
  <2> QED
    BY <2>1, <2>2, <2>3, <2>4, <2>5, <2>6, <2>7, <2>8, <2>9
    DEF chan_send, chan_recv, chan_close, Continue, OwnStep
<1> QED
  BY <1>b, <1>c DEF WaiterInv

-----------------------------------------------------------------------------
(* The ring and the offers as sequences *)

Item == Value \cup {Zero}

(* The i-th oldest value is in the i-th slot from recvx on; the slots are distinct. *)
LEMMA SlotFacts ==
  ASSUME TypeOK, RingConsistent, dataqsiz > 0
  PROVE  /\ qcount \in Nat /\ qcount <= dataqsiz /\ recvx \in Slots /\ sendx \in Slots
         /\ dataqsiz \in Nat
         /\ \A i \in 1..dataqsiz : SlotOf(i) \in Slots /\ buf[SlotOf(i)] \in Item
         /\ \A i, j \in 1..dataqsiz : SlotOf(i) = SlotOf(j) => i = j
         /\ SlotOf(1) = recvx
         /\ qcount < dataqsiz => SlotOf(qcount + 1) = sendx
<1>1. /\ qcount \in Nat /\ qcount <= dataqsiz /\ dataqsiz \in Nat
      /\ recvx \in Nat /\ recvx < dataqsiz /\ recvx \in Slots
      /\ sendx \in Nat /\ sendx < dataqsiz /\ sendx \in Slots
      /\ sendx = recvx + qcount \/ sendx = recvx + qcount - dataqsiz
  BY ChanAssumption DEF TypeOK, RingConsistent, Slots
<1>2. \A i \in 1..dataqsiz : SlotOf(i) \in Slots
  BY <1>1 DEF SlotOf, Slots
<1>3. \A i \in 1..dataqsiz : buf[SlotOf(i)] \in Item
  BY <1>2 DEF TypeOK, Item
<1>4. \A i, j \in 1..dataqsiz : SlotOf(i) = SlotOf(j) => i = j
  BY <1>1 DEF SlotOf
<1>5. SlotOf(1) = recvx /\ (qcount < dataqsiz => SlotOf(qcount + 1) = sendx)
  BY <1>1 DEF SlotOf
<1> QED
  BY <1>1, <1>2, <1>3, <1>4, <1>5

(* When recvx moves on, what was second oldest is the oldest; the slot that was the *)
(* first becomes the last.                                                          *)
LEMMA NextSlotFacts ==
  ASSUME TypeOK, RingConsistent, dataqsiz > 0, recvx' = NextIndex(recvx)
  PROVE  /\ \A i \in 1..(dataqsiz - 1) : SlotOf(i)' = SlotOf(i + 1)
         /\ SlotOf(dataqsiz)' = recvx
<1>1. dataqsiz \in Nat /\ recvx \in Nat /\ recvx < dataqsiz
  BY ChanAssumption DEF TypeOK, RingConsistent, Slots
<1> QED
  BY <1>1 DEF SlotOf, NextIndex

(* The ring read from recvx on is a sequence of qcount values. *)
LEMMA ContentsFacts ==
  ASSUME TypeOK, RingConsistent
  PROVE  /\ Contents \in Seq(Item) /\ Len(Contents) = qcount /\ qcount \in Nat
         /\ \A i \in 1..qcount : Contents[i] = buf[SlotOf(i)]
<1>1. qcount \in Nat /\ \A i \in 1..qcount : buf[SlotOf(i)] \in Item
  <2>1. CASE dataqsiz > 0
    BY <2>1, SlotFacts
  <2>2. CASE ~(dataqsiz > 0)
    BY <2>2, ChanAssumption DEF TypeOK
  <2> QED
    BY <2>1, <2>2
<1> QED
  BY <1>1 DEF Contents

(* The values of the blocked senders, one for each, in the order of sendq. *)
LEMMA OfferedFacts ==
  ASSUME TypeOK
  PROVE  /\ Offered \in Seq(Item) /\ Len(Offered) = Len(sendq) /\ Len(sendq) \in Nat
         /\ \A i \in 1..Len(sendq) : Offered[i] = src[sendq[i]]
         /\ sendq = <<>> => Offered = <<>>
<1>1. Len(sendq) \in Nat /\ \A i \in 1..Len(sendq) : src[sendq[i]] \in Item
  BY DEF TypeOK, Item
<1> QED
  BY <1>1 DEF Offered

(* chan_send into a free slot. *)
LEMMA ContentsPush ==
  ASSUME TypeOK, RingConsistent, TypeOK', RingConsistent', NEW v \in Value, qcount < dataqsiz,
         buf' = [buf EXCEPT ![sendx] = v], qcount' = qcount + 1, recvx' = recvx
  PROVE  Contents' = Append(Contents, v)
<1>0. dataqsiz > 0 /\ qcount \in Nat /\ dataqsiz \in Nat
  BY ChanAssumption DEF TypeOK
<1>1. /\ Contents \in Seq(Item) /\ Len(Contents) = qcount
      /\ \A i \in 1..qcount : Contents[i] = buf[SlotOf(i)]
  BY ContentsFacts
<1>2. /\ Contents' \in Seq(Item) /\ Len(Contents') = qcount + 1
      /\ \A i \in 1..(qcount + 1) : Contents'[i] = buf'[SlotOf(i)]
  <2>1. /\ qcount' \in Nat /\ \A i \in 1..qcount' : buf'[SlotOf(i)'] \in Item
    <3>1. \A i \in 1..dataqsiz : SlotOf(i) \in Slots /\ SlotOf(i)' = SlotOf(i)
      BY <1>0, SlotFacts DEF SlotOf
    <3>2. \A i \in 1..dataqsiz : buf'[SlotOf(i)] \in Item
      BY <3>1 DEF TypeOK, Item
    <3> QED
      BY <1>0, <3>1, <3>2
  <2>2. \A i \in 1..qcount' : SlotOf(i)' = SlotOf(i)
    BY DEF SlotOf
  <2> QED
    BY <2>1, <2>2 DEF Contents
<1>3. /\ \A i \in 1..qcount : buf'[SlotOf(i)] = buf[SlotOf(i)]
      /\ buf'[SlotOf(qcount + 1)] = v
  <2>1. /\ SlotOf(qcount + 1) = sendx /\ sendx \in Slots
        /\ \A i \in 1..qcount : SlotOf(i) \in Slots /\ SlotOf(i) # sendx
    <3>1. qcount + 1 \in 1..dataqsiz /\ \A i \in 1..qcount : i \in 1..dataqsiz /\ i # qcount + 1
      BY <1>0
    <3> QED
      BY <1>0, <3>1, SlotFacts
  <2> QED
    BY <2>1 DEF TypeOK
<1> DEFINE t == Append(Contents, v)
<1>4. /\ t \in Seq(Item) /\ Len(t) = qcount + 1 /\ t[qcount + 1] = v
      /\ \A i \in 1..qcount : t[i] = Contents[i]
  BY <1>1 DEF Item
<1> HIDE DEF t
<1>5. \A i \in 1..(qcount + 1) : Contents'[i] = t[i]
  BY <1>0, <1>1, <1>2, <1>3, <1>4
<1>6. Contents' = t
  BY <1>2, <1>4, <1>5, SeqEqual
<1> QED
  BY <1>6 DEF t

(* chan_recv from the ring. *)
LEMMA ContentsPop ==
  ASSUME TypeOK, RingConsistent, TypeOK', RingConsistent', qcount > 0,
         buf' = buf, qcount' = qcount - 1, recvx' = NextIndex(recvx)
  PROVE  Contents # <<>> /\ Head(Contents) = buf[recvx] /\ Contents' = Tail(Contents)
<1>0. /\ dataqsiz > 0 /\ qcount \in Nat /\ dataqsiz \in Nat /\ qcount <= dataqsiz
      /\ qcount - 1 \in Nat
  BY ChanAssumption DEF TypeOK
<1>1. /\ Contents \in Seq(Item) /\ Len(Contents) = qcount
      /\ \A i \in 1..qcount : Contents[i] = buf[SlotOf(i)]
  BY ContentsFacts
<1>2. \A i \in 1..(qcount - 1) : i + 1 \in 1..qcount /\ SlotOf(i)' = SlotOf(i + 1)
  <2>1. \A i \in 1..(qcount - 1) : i \in 1..(dataqsiz - 1) /\ i + 1 \in 1..qcount
    BY <1>0
  <2> QED
    BY <1>0, <2>1, NextSlotFacts
<1>3. /\ Contents' \in Seq(Item) /\ Len(Contents') = qcount - 1
      /\ \A i \in 1..(qcount - 1) : Contents'[i] = Contents[i + 1]
  <2>1. \A i \in 1..(qcount - 1) : buf'[SlotOf(i)'] = Contents[i + 1] /\ Contents[i + 1] \in Item
    BY <1>1, <1>2
  <2>2. Contents' = [i \in 1..(qcount - 1) |-> buf'[SlotOf(i)']]
    BY DEF Contents
  <2> QED
    BY <1>0, <2>1, <2>2, SMTT(30)
<1> DEFINE t == Tail(Contents)
<1>4. /\ Contents # <<>> /\ Head(Contents) = Contents[1]
      /\ t \in Seq(Item) /\ Len(t) = qcount - 1
      /\ \A i \in 1..(qcount - 1) : t[i] = Contents[i + 1]
  BY <1>0, <1>1
<1> HIDE DEF t
<1>5. Contents' = t
  BY <1>3, <1>4, SeqEqual
<1>6. Contents[1] = buf[recvx]
  BY <1>0, <1>1, SlotFacts
<1> QED
  BY <1>4, <1>5, <1>6 DEF t

(* recv_direct on a full ring: the sender's value takes the slot of the oldest. *)
LEMMA ContentsRotate ==
  ASSUME TypeOK, RingConsistent, NEW v \in Item, dataqsiz > 0, qcount = dataqsiz,
         buf' = [buf EXCEPT ![recvx] = v], qcount' = qcount, recvx' = NextIndex(recvx)
  PROVE  /\ Contents # <<>> /\ Head(Contents) = buf[recvx]
         /\ Contents' = Append(Tail(Contents), v)
<1>0. qcount \in Nat \ {0} /\ dataqsiz \in Nat
  BY ChanAssumption DEF TypeOK
<1>1. /\ Contents \in Seq(Item) /\ Len(Contents) = qcount
      /\ \A i \in 1..qcount : Contents[i] = buf[SlotOf(i)]
  BY ContentsFacts
<1>2. /\ recvx \in Slots /\ SlotOf(1) = recvx
      /\ \A i \in 1..qcount : SlotOf(i) \in Slots /\ (i # 1 => SlotOf(i) # recvx)
  <2>1. 1 \in 1..dataqsiz
    BY <1>0
  <2> QED
    BY <1>0, <2>1, SlotFacts
<1>3. /\ \A i \in 1..(qcount - 1) : i + 1 \in 1..qcount /\ i + 1 # 1 /\ SlotOf(i)' = SlotOf(i + 1)
      /\ SlotOf(qcount)' = recvx
  <2>1. \A i \in 1..(qcount - 1) : i + 1 \in 1..qcount /\ i + 1 # 1
    BY <1>0
  <2> QED
    BY <1>0, <2>1, NextSlotFacts
<1>4. /\ \A i \in 1..(qcount - 1) : buf'[SlotOf(i)'] = Contents[i + 1] /\ Contents[i + 1] \in Item
      /\ buf'[SlotOf(qcount)'] = v
  <2>1. buf'[recvx] = v /\ \A j \in Slots : j # recvx => buf'[j] = buf[j]
    BY <1>2 DEF TypeOK
  <2> QED
    BY <1>1, <1>2, <1>3, <2>1
<1>5. /\ Contents' \in Seq(Item) /\ Len(Contents') = qcount /\ Contents'[qcount] = v
      /\ \A i \in 1..(qcount - 1) : Contents'[i] = Contents[i + 1]
  <2>1. \A i \in 1..qcount : i = qcount \/ i \in 1..(qcount - 1)
    BY <1>0
  <2>2. \A i \in 1..qcount : buf'[SlotOf(i)'] \in Item
    BY <1>4, <2>1
  <2>3. Contents' = [i \in 1..qcount |-> buf'[SlotOf(i)']]
    BY DEF Contents
  <2>4. qcount \in 1..qcount /\ \A i \in 1..(qcount - 1) : i \in 1..qcount
    BY <1>0
  <2> QED
    BY <1>0, <1>4, <2>2, <2>3, <2>4
<1> DEFINE t == Tail(Contents)
           u == Append(t, v)
<1>6. /\ Contents # <<>> /\ Head(Contents) = Contents[1]
      /\ t \in Seq(Item) /\ Len(t) = qcount - 1
      /\ \A i \in 1..(qcount - 1) : t[i] = Contents[i + 1]
  BY <1>0, <1>1
<1> HIDE DEF t
<1>7. /\ u \in Seq(Item) /\ Len(u) = qcount /\ u[qcount] = v
      /\ \A i \in 1..(qcount - 1) : u[i] = t[i]
  BY <1>0, <1>6
<1> HIDE DEF u
<1>8. \A i \in 1..qcount : Contents'[i] = u[i]
  <2>1. \A i \in 1..qcount : i = qcount \/ i \in 1..(qcount - 1)
    BY <1>0
  <2> QED
    BY <1>5, <1>6, <1>7, <2>1
<1>9. Contents' = u
  BY <1>5, <1>7, <1>8, SeqEqual
<1>10. Contents[1] = buf[recvx]
  BY <1>0, <1>1, <1>2
<1> QED
  BY <1>6, <1>9, <1>10 DEF t, u

-----------------------------------------------------------------------------
(* Values on their way *)

(* A receiver has one direct send on its way to it at most. *)
LEMMA SenderIs ==
  ASSUME IInv, NEW k, NEW s \in Goroutine, pc[s] = "send_direct", peer[s] = k
  PROVE  InFlight(k) /\ Sender(k) = s
<1>1. InFlight(k)
  BY DEF InFlight
<1>2. \A t \in Goroutine : pc[t] = "send_direct" /\ peer[t] = k => t = s
  BY DEF IInv, WakeInv, NoDroppedWakeup
<1>3. Sender(k) \in Goroutine /\ pc[Sender(k)] = "send_direct" /\ peer[Sender(k)] = k
  BY DEF Sender
<1> QED
  BY <1>1, <1>2, <1>3

(* The same after the step. *)
LEMMA SenderIsNext ==
  ASSUME IInv', NEW k, NEW s \in Goroutine, pc'[s] = "send_direct", peer'[s] = k
  PROVE  InFlight(k)' /\ Sender(k)' = s
<1>1. InFlight(k)'
  BY DEF InFlight
<1>2. \A t \in Goroutine : pc'[t] = "send_direct" /\ peer'[t] = k => t = s
  BY DEF IInv, WakeInv, NoDroppedWakeup
<1>3. Sender(k)' \in Goroutine /\ pc'[Sender(k)'] = "send_direct" /\ peer'[Sender(k)'] = k
  BY DEF Sender
<1> QED
  BY <1>1, <1>2, <1>3

(* What is on its way to k is on its way to it still. *)
LEMMA FlightSame ==
  ASSUME IInv, IInv', NEW k \in Goroutine,
         \A s \in Goroutine :
           /\ pc'[s] = "send_direct" /\ peer'[s] = k <=> pc[s] = "send_direct" /\ peer[s] = k
           /\ pc[s] = "send_direct" => src'[s] = src[s]
  PROVE  /\ InFlight(k)' <=> InFlight(k)
         /\ InFlight(k) => src'[Sender(k)'] = src[Sender(k)]
<1>1. InFlight(k)' <=> InFlight(k)
  BY DEF InFlight
<1>2. ASSUME InFlight(k) PROVE src'[Sender(k)'] = src[Sender(k)]
  <2>1. PICK s \in Goroutine : pc[s] = "send_direct" /\ peer[s] = k
    BY <1>2 DEF InFlight
  <2>2. Sender(k) = s
    BY <2>1, SenderIs
  <2>3. pc'[s] = "send_direct" /\ peer'[s] = k
    BY <2>1
  <2>4. Sender(k)' = s
    BY <2>3, SenderIsNext
  <2> QED
    BY <2>1, <2>2, <2>4
<1> QED
  BY <1>1, <1>2

(* The steps that neither begin nor end a direct send. *)
Quiet ==
  \A s \in Goroutine : /\ pc'[s] = "send_direct" <=> pc[s] = "send_direct"
                       /\ pc[s] = "send_direct" => peer'[s] = peer[s] /\ src'[s] = src[s]

(* A quiet step neither begins nor ends a copy in flight. *)
LEMMA FlightQuiet ==
  ASSUME IInv, IInv', Quiet
  PROVE  \A k \in Goroutine : /\ InFlight(k)' <=> InFlight(k)
                              /\ InFlight(k) => src'[Sender(k)'] = src[Sender(k)]
BY FlightSame DEF Quiet

(* What g is given by such a step, in the terms of the abstract channel. *)
LEMMA GivenQuiet ==
  ASSUME IInv, IInv', NEW g \in Goroutine, NEW v \in Item, Quiet,
         \A k \in Goroutine \ {g} : /\ dst'[k] = dst[k]
                                    /\ closed' /\ Queued(k, recvq') <=> closed /\ Queued(k, recvq),
         ~InFlight(g), ~(closed' /\ Queued(g, recvq')), dst'[g] = v
  PROVE  Given' = [Given EXCEPT ![g] = v]
<1>1. \A k \in Goroutine : /\ InFlight(k)' <=> InFlight(k)
                           /\ InFlight(k) => src'[Sender(k)'] = src[Sender(k)]
  BY FlightQuiet
<1>2. Given' = [k \in Goroutine |-> IF InFlight(k)' THEN src'[Sender(k)']
                                    ELSE IF closed' /\ Queued(k, recvq') THEN Zero ELSE dst'[k]]
  BY DEF Given
<1>3. Given = [k \in Goroutine |-> IF InFlight(k) THEN src[Sender(k)]
                                   ELSE IF closed /\ Queued(k, recvq) THEN Zero ELSE dst[k]]
  BY DEF Given
<1> QED
  BY <1>1, <1>2, <1>3

(* What g is told by such a step. *)
LEMMA TransferredQuiet ==
  ASSUME IInv, IInv', NEW g \in Goroutine, NEW b \in BOOLEAN, Quiet,
         success' = [success EXCEPT ![g] = b], ~InFlight(g)
  PROVE  Transferred' = [Transferred EXCEPT ![g] = b]
<1>1. \A k \in Goroutine : InFlight(k)' <=> InFlight(k)
  BY FlightQuiet
<1>2. \A k \in Goroutine : success'[k] = IF k = g THEN b ELSE success[k]
  BY DEF IInv, TypeOK
<1>3. Transferred' = [k \in Goroutine |-> InFlight(k)' \/ success'[k]]
  BY DEF Transferred
<1>4. Transferred = [k \in Goroutine |-> InFlight(k) \/ success[k]]
  BY DEF Transferred
<1>5. [Transferred EXCEPT ![g] = b]
        = [k \in Goroutine |-> IF k = g THEN b ELSE InFlight(k) \/ success[k]]
  BY <1>4
<1>6. \A k \in Goroutine : (InFlight(k)' \/ success'[k])
                             = IF k = g THEN b ELSE InFlight(k) \/ success[k]
  BY <1>1, <1>2
<1> QED
  BY <1>3, <1>5, <1>6

(* A step that no caller of the abstract channel can see. *)
LEMMA MailSame ==
  ASSUME IInv, IInv', Quiet,
         \A k \in Goroutine :
           /\ success'[k] = success[k]
           /\ InFlight(k) \/ (IF closed' /\ Queued(k, recvq') THEN Zero ELSE dst'[k])
                               = (IF closed /\ Queued(k, recvq) THEN Zero ELSE dst[k])
  PROVE  Given' = Given /\ Transferred' = Transferred
<1>1. \A k \in Goroutine : /\ InFlight(k)' <=> InFlight(k)
                           /\ InFlight(k) => src'[Sender(k)'] = src[Sender(k)]
  BY FlightQuiet
<1>2. Given' = [k \in Goroutine |-> IF InFlight(k)' THEN src'[Sender(k)']
                                    ELSE IF closed' /\ Queued(k, recvq') THEN Zero ELSE dst'[k]]
  BY DEF Given
<1>3. Given = [k \in Goroutine |-> IF InFlight(k) THEN src[Sender(k)]
                                   ELSE IF closed /\ Queued(k, recvq) THEN Zero ELSE dst[k]]
  BY DEF Given
<1>4. Given' = Given
  BY <1>1, <1>2, <1>3
<1>5. Transferred' = [k \in Goroutine |-> InFlight(k)' \/ success'[k]]
  BY DEF Transferred
<1>6. Transferred = [k \in Goroutine |-> InFlight(k) \/ success[k]]
  BY DEF Transferred
<1>7. \A k \in Goroutine : (InFlight(k)' \/ success'[k]) = (InFlight(k) \/ success[k])
  BY <1>1
<1>8. Transferred' = Transferred
  BY <1>5, <1>6, <1>7
<1> QED
  BY <1>4, <1>8

-----------------------------------------------------------------------------
(* The queue of the abstract channel *)

(* While the channel is open: the ring, then what the blocked senders offer. *)
LEMMA AcceptedFacts ==
  ASSUME IInv, ~closed
  PROVE  /\ Accepted = Contents \o Offered
         /\ Contents \in Seq(Item) /\ Offered \in Seq(Item)
         /\ Len(Contents) = qcount /\ Len(Offered) = Len(sendq)
         /\ qcount \in Nat /\ Len(sendq) \in Nat /\ Len(Accepted) = qcount + Len(sendq)
         /\ sendq = <<>> => Accepted = Contents
         /\ BlockedSenders = sendq /\ BlockedReceivers = recvq
<1>1. Accepted = Contents \o Offered /\ BlockedSenders = sendq /\ BlockedReceivers = recvq
  BY DEF Accepted, BlockedSenders, BlockedReceivers
<1>2. /\ Contents \in Seq(Item) /\ Len(Contents) = qcount /\ qcount \in Nat
  BY ContentsFacts DEF IInv
<1>3. /\ Offered \in Seq(Item) /\ Len(Offered) = Len(sendq) /\ Len(sendq) \in Nat
      /\ sendq = <<>> => Offered = <<>>
  BY OfferedFacts DEF IInv
<1> DEFINE a == Contents
           b == Offered
<1> HIDE DEF a, b
<1>4. Len(a \o b) = Len(a) + Len(b) /\ a \o <<>> = a
  <2>1. a \in Seq(Item) /\ b \in Seq(Item)
    BY <1>2, <1>3 DEF a, b
  <2> QED
    BY <2>1
<1> QED
  BY <1>1, <1>2, <1>3, <1>4 DEF a, b

(* Once closed, only the ring is left to be received. *)
LEMMA ClosedFacts ==
  ASSUME IInv, closed
  PROVE  /\ Accepted = Contents /\ BlockedSenders = <<>> /\ BlockedReceivers = <<>>
         /\ Contents \in Seq(Item) /\ Len(Contents) = qcount /\ qcount \in Nat
BY ContentsFacts DEF IInv, Accepted, BlockedSenders, BlockedReceivers

(* The ring and the wait lists are as before. *)
LEMMA QueueSame ==
  ASSUME UNCHANGED <<qcount, buf, recvx, closed>>,
         closed \/ (sendq' = sendq /\ recvq' = recvq
                    /\ \A i \in 1..Len(sendq) : src'[sendq[i]] = src[sendq[i]])
  PROVE  UNCHANGED <<Accepted, BlockedSenders, BlockedReceivers, closed>>
<1>1. Contents' = Contents
  BY DEF Contents, SlotOf
<1>2. ~closed => Offered' = Offered
  BY DEF Offered
<1> QED
  BY <1>1, <1>2 DEF Accepted, BlockedSenders, BlockedReceivers

-----------------------------------------------------------------------------
(* Every step of the channel is a step of the abstract one, or none *)

(* Who enters the channel code is on no list and nobody is on the way to it. *)
LEMMA EnterFacts ==
  ASSUME IInv, NEW g \in Goroutine, Enter(g)
  PROVE  /\ pc[g] = "out" /\ ~InFlight(g) /\ ~Queued(g, recvq) /\ ~Queued(g, sendq)
         /\ closed => sendq = <<>> /\ recvq = <<>>
         /\ NewValue(g) \in Value /\ NewValue(g) \in Item
         /\ pc \in [Goroutine -> Waits \cup Parks \cup {"out", "send_direct", "closing", "panicked"}]
<1>1. pc[g] = "out" /\ mu = NoG /\ calls[g] < MaxCalls
  BY DEF Enter
<1>2. NewValue(g) \in Value
  BY <1>1, NewValueType DEF IInv
<1>3. closed => sendq = <<>> /\ recvq = <<>>
  BY <1>1 DEF IInv, NobodyWaitsInVain
<1> QED
  BY <1>1, <1>2, <1>3, OutFacts DEF InFlight, Item, IInv, TypeOK

(* chan_send on a closed channel panics in both. *)
LEMMA RefinesSendOnClosed ==
  ASSUME IInv, IInv', NEW g \in Goroutine, SendOnClosed(g)
  PROVE  Abstract!SendOnClosed(g)
<1>1. /\ Enter(g) /\ closed /\ pc' = [pc EXCEPT ![g] = "panicked"]
      /\ success' = [success EXCEPT ![g] = FALSE]
      /\ UNCHANGED <<qcount, buf, recvx, closed, sendq, recvq, src, dst, peer>>
  BY DEF SendOnClosed, chanVars
<1>2. Quiet
  BY <1>1, EnterFacts DEF Quiet
<1>3. Transferred' = [Transferred EXCEPT ![g] = FALSE]
  BY <1>1, <1>2, EnterFacts, TransferredQuiet
<1>4. UNCHANGED <<Accepted, BlockedSenders, BlockedReceivers, closed>>
  BY <1>1, QueueSame
<1>5. Given' = Given
  BY <1>1, <1>2, FlightQuiet DEF Given
<1> QED
  BY <1>1, <1>3, <1>4, <1>5 DEF Abstract!SendOnClosed

(* A send that dequeues a receiver is a transfer, before the late copy is made. *)
LEMMA RefinesSendToReceiver ==
  ASSUME IInv, IInv', NEW g \in Goroutine, SendToReceiver(g)
  PROVE  Abstract!SendToReceiver(g, NewValue(g))
<1> DEFINE v == NewValue(g)
<1>0. PICK x \in Goroutine : x = Head(recvq)
  BY ReceiverFacts DEF SendToReceiver
<1>1. /\ Enter(g) /\ ~closed /\ recvq # <<>> /\ recvq' = Tail(recvq)
      /\ peer' = [peer EXCEPT ![g] = x] /\ src' = [src EXCEPT ![g] = v]
      /\ success' = [success EXCEPT ![g] = TRUE] /\ pc' = [pc EXCEPT ![g] = "send_direct"]
      /\ UNCHANGED <<qcount, buf, recvx, closed, sendq, dst>>
  BY <1>0 DEF SendToReceiver
<1>2. /\ \A s \in Goroutine : pc[s] = "send_direct" => peer[s] # x
      /\ sendq = <<>> /\ pc[g] = "out" /\ ~InFlight(g)
  BY <1>0, <1>1, ReceiverFacts, EnterFacts DEF IInv, NobodyWaitsInVain
<1>3. /\ \A s \in Goroutine : pc'[s] = IF s = g THEN "send_direct" ELSE pc[s]
      /\ \A s \in Goroutine : peer'[s] = IF s = g THEN x ELSE peer[s]
      /\ \A s \in Goroutine : src'[s] = IF s = g THEN v ELSE src[s]
      /\ \A s \in Goroutine : success'[s] = IF s = g THEN TRUE ELSE success[s]
  BY <1>1 DEF IInv, TypeOK
<1> HIDE DEF v
<1>4. InFlight(x)' /\ Sender(x)' = g
  BY <1>3, SenderIsNext
<1>5. ASSUME NEW k \in Goroutine, k # x
      PROVE  /\ InFlight(k)' <=> InFlight(k)
             /\ InFlight(k) => src'[Sender(k)'] = src[Sender(k)]
  <2>1. \A s \in Goroutine :
           /\ pc'[s] = "send_direct" /\ peer'[s] = k <=> pc[s] = "send_direct" /\ peer[s] = k
           /\ pc[s] = "send_direct" => src'[s] = src[s]
    BY <1>2, <1>3, <1>5
  <2> QED
    BY <2>1, FlightSame
<1>6. Given' = [Given EXCEPT ![x] = v]
  <2>1. Given' = [k \in Goroutine |-> IF InFlight(k)' THEN src'[Sender(k)'] ELSE dst[k]]
    BY <1>1 DEF Given
  <2>2. Given = [k \in Goroutine |-> IF InFlight(k) THEN src[Sender(k)] ELSE dst[k]]
    BY <1>1 DEF Given
  <2> QED
    BY <1>2, <1>3, <1>4, <1>5, <2>1, <2>2
<1>7. Transferred' = [Transferred EXCEPT ![x] = TRUE, ![g] = TRUE]
  <2>1. Transferred' = [k \in Goroutine |-> InFlight(k)' \/ success'[k]]
    BY DEF Transferred
  <2>2. Transferred = [k \in Goroutine |-> InFlight(k) \/ success[k]]
    BY DEF Transferred
  <2>3. [Transferred EXCEPT ![x] = TRUE, ![g] = TRUE]
          = [k \in Goroutine |-> IF k \in {x, g} THEN TRUE ELSE InFlight(k) \/ success[k]]
    BY <1>2, <2>2
  <2>4. \A k \in Goroutine : (InFlight(k)' \/ success'[k])
                               = IF k \in {x, g} THEN TRUE ELSE InFlight(k) \/ success[k]
    BY <1>3, <1>4, <1>5
  <2> QED
    BY <2>1, <2>3, <2>4
<1>8. /\ BlockedReceivers = recvq /\ BlockedReceivers' = Tail(recvq)
      /\ UNCHANGED <<BlockedSenders, closed>>
  BY <1>1 DEF BlockedReceivers, BlockedSenders
<1>9. Accepted' = Accepted
  <2>1. Contents' = Contents
    BY <1>1 DEF Contents, SlotOf
  <2>2. Offered' = Offered
    BY <1>1, <1>2, OfferedFacts DEF IInv, Offered
  <2> QED
    BY <1>1, <2>1, <2>2 DEF Accepted
<1> QED
  BY <1>0, <1>1, <1>6, <1>7, <1>8, <1>9 DEF Abstract!SendToReceiver, v

(* A send into the ring appends to the accepted values: nobody is blocked before it. *)
LEMMA RefinesSendBuffered ==
  ASSUME IInv, IInv', NEW g \in Goroutine, SendBuffered(g)
  PROVE  Abstract!SendBuffered(g, NewValue(g))
<1> DEFINE v == NewValue(g)
<1>1. /\ Enter(g) /\ ~closed /\ recvq = <<>> /\ qcount < dataqsiz
      /\ buf' = [buf EXCEPT ![sendx] = v] /\ qcount' = qcount + 1
      /\ success' = [success EXCEPT ![g] = TRUE]
      /\ UNCHANGED <<recvx, closed, sendq, recvq, src, dst, peer, pc>>
  BY DEF SendBuffered
<1>2. sendq = <<>>
  BY <1>1, ChanAssumption DEF IInv, NobodyWaitsInVain, TypeOK
<1>3. v \in Value /\ ~InFlight(g)
  BY <1>1, EnterFacts
<1> HIDE DEF v
<1>4. Contents' = Append(Contents, v)
  BY <1>1, <1>3, ContentsPush DEF IInv
<1>5. Accepted = Contents /\ Len(Accepted) < dataqsiz
  BY <1>1, <1>2, AcceptedFacts
<1>6. Accepted' = Contents'
  <2>1. Accepted' = Contents' \o Offered'
    BY <1>1 DEF Accepted
  <2>2. Offered' = <<>>
    BY <1>1, <1>2 DEF Offered
  <2>3. Contents' \in Seq(Item)
    BY <1>3, <1>4, <1>1, AcceptedFacts DEF Item
  <2> QED
    BY <2>1, <2>2, <2>3
<1>7. Quiet
  BY <1>1 DEF Quiet
<1>8. Transferred' = [Transferred EXCEPT ![g] = TRUE]
  BY <1>1, <1>3, <1>7, TransferredQuiet
<1>9. Given' = Given
  BY <1>1, <1>7, FlightQuiet DEF Given
<1>10. BlockedReceivers = <<>> /\ UNCHANGED <<BlockedSenders, BlockedReceivers, closed>>
  BY <1>1 DEF BlockedReceivers, BlockedSenders
<1> QED
  BY <1>1, <1>4, <1>5, <1>6, <1>8, <1>9, <1>10 DEF Abstract!SendBuffered, v

(* A failed try_send leaves the abstract channel alone. *)
LEMMA RefinesSendGivesUp ==
  ASSUME IInv, IInv', NEW g \in Goroutine, SendGivesUp(g)
  PROVE  Abstract!SendGivesUp(g)
<1>1. /\ Enter(g) /\ ~closed /\ recvq = <<>> /\ qcount = dataqsiz
      /\ success' = [success EXCEPT ![g] = FALSE]
      /\ UNCHANGED <<qcount, buf, recvx, closed, sendq, recvq, src, dst, peer, pc>>
  BY DEF SendGivesUp, SendFull, chanVars
<1>2. Quiet
  BY <1>1 DEF Quiet
<1>3. Transferred' = [Transferred EXCEPT ![g] = FALSE]
  BY <1>1, <1>2, EnterFacts, TransferredQuiet
<1>4. UNCHANGED <<Accepted, BlockedSenders, BlockedReceivers, closed>>
  BY <1>1, QueueSame
<1>5. Given' = Given
  BY <1>1, <1>2, FlightQuiet DEF Given
<1>6. BlockedReceivers = <<>> /\ Len(Accepted) >= dataqsiz
  BY <1>1, AcceptedFacts
<1> QED
  BY <1>1, <1>3, <1>4, <1>5, <1>6 DEF Abstract!SendGivesUp

(* A send that parks has offered its value, last in line. *)
LEMMA RefinesSendParks ==
  ASSUME IInv, IInv', NEW g \in Goroutine, SendParks(g)
  PROVE  Abstract!SendBlocks(g, NewValue(g))
<1> DEFINE v == NewValue(g)
<1>1. /\ Enter(g) /\ ~closed /\ recvq = <<>> /\ qcount = dataqsiz
      /\ success' = [success EXCEPT ![g] = FALSE]
      /\ sendq' = Append(sendq, g) /\ src' = [src EXCEPT ![g] = v]
      /\ pc' = [pc EXCEPT ![g] = "park_send"]
      /\ UNCHANGED <<qcount, buf, recvx, closed, recvq, dst, peer>>
  BY DEF SendParks, SendFull
<1>2. v \in Item /\ ~InFlight(g) /\ ~Queued(g, sendq) /\ pc[g] = "out" /\ sendq \in Seq(Goroutine)
  BY <1>1, EnterFacts DEF IInv, TypeOK
<1>3. \A s \in Goroutine : /\ src'[s] = IF s = g THEN v ELSE src[s]
                           /\ pc'[s] = IF s = g THEN "park_send" ELSE pc[s]
  BY <1>1 DEF IInv, TypeOK
<1> HIDE DEF v
<1>4. Quiet
  BY <1>1, <1>2, <1>3 DEF Quiet
<1>5. Transferred' = [Transferred EXCEPT ![g] = FALSE]
  BY <1>1, <1>2, <1>4, TransferredQuiet
<1>6. Given' = Given
  BY <1>1, <1>4, FlightQuiet DEF Given
<1>7. Offered' = Append(Offered, v)
  <2> DEFINE n == Len(sendq)
             t == Append(Offered, v)
  <2>1. /\ n \in Nat /\ Len(sendq') = n + 1 /\ sendq'[n + 1] = g
        /\ \A i \in 1..n : sendq'[i] = sendq[i] /\ sendq[i] \in Goroutine /\ sendq[i] # g
    BY <1>1, <1>2 DEF Queued
  <2>2. /\ Offered \in Seq(Item) /\ Len(Offered) = n
        /\ \A i \in 1..n : Offered[i] = src[sendq[i]]
    BY OfferedFacts DEF IInv
  <2>3. t \in Seq(Item) /\ Len(t) = n + 1 /\ t[n + 1] = v /\ \A i \in 1..n : t[i] = Offered[i]
    BY <1>2, <2>2
  <2>4. Offered' = [i \in 1..(n + 1) |-> src'[sendq'[i]]]
    BY <2>1 DEF Offered
  <2> HIDE DEF n, t
  <2>5. \A i \in 1..(n + 1) : src'[sendq'[i]] = t[i] /\ t[i] \in Item
    <3>1. ASSUME NEW i \in 1..(n + 1) PROVE src'[sendq'[i]] = t[i]
      <4>1. CASE i = n + 1
        BY <1>3, <2>1, <2>3, <4>1
      <4>2. CASE i \in 1..n
        BY <1>3, <2>1, <2>2, <2>3, <4>2
      <4> QED
        BY <2>1, <4>1, <4>2
    <3>2. \A i \in 1..(n + 1) : t[i] \in Item
      BY <2>1, <2>3
    <3> QED
      BY <3>1, <3>2
  <2>6. Offered' \in Seq(Item) /\ Len(Offered') = n + 1 /\ \A i \in 1..(n + 1) : Offered'[i] = t[i]
    BY <2>1, <2>4, <2>5
  <2>7. Offered' = t
    BY <2>3, <2>6, SeqEqual
  <2> QED
    BY <2>7 DEF t
<1>8. Accepted' = Append(Accepted, v)
  <2> DEFINE a == Contents
             b == Offered
  <2>1. a \in Seq(Item) /\ b \in Seq(Item) /\ Accepted = a \o b
    BY <1>1, AcceptedFacts
  <2>2. Contents' = a
    BY <1>1 DEF Contents, SlotOf
  <2>3. Accepted' = a \o Append(b, v)
    BY <1>1, <1>7, <2>2 DEF Accepted
  <2> HIDE DEF a, b
  <2>4. a \o Append(b, v) = Append(a \o b, v)
    BY <1>2, <2>1
  <2> QED
    BY <2>1, <2>3, <2>4
<1>9. /\ BlockedReceivers = <<>> /\ Len(Accepted) >= dataqsiz
      /\ BlockedSenders' = Append(BlockedSenders, g) /\ UNCHANGED <<BlockedReceivers, closed>>
  <2>1. BlockedReceivers = <<>> /\ Len(Accepted) >= dataqsiz
    BY <1>1, AcceptedFacts
  <2> QED
    BY <1>1, <2>1 DEF BlockedReceivers, BlockedSenders
<1> QED
  BY <1>1, <1>5, <1>6, <1>8, <1>9 DEF Abstract!SendBlocks, v

(* The copy of a direct send: the receiver had the value already. *)
LEMMA RefinesSendDirect ==
  ASSUME IInv, IInv', NEW g \in Goroutine, SendDirect(g)
  PROVE  UNCHANGED Abstract!fvars
<1>0. PICK x \in Goroutine : x = peer[g]
  BY DEF SendDirect, IInv, WakeInv, PeerInv
<1>1. /\ pc[g] = "send_direct" /\ dst' = [dst EXCEPT ![x] = src[g]]
      /\ success' = [success EXCEPT ![x] = TRUE]
      /\ peer' = [peer EXCEPT ![g] = NoG] /\ pc' = [pc EXCEPT ![g] = "out"]
      /\ UNCHANGED <<qcount, buf, recvx, closed, sendq, recvq, src>>
  BY <1>0 DEF SendDirect, chanVars
<1>2. /\ ~Queued(x, recvq)
      /\ \A s \in Goroutine \ {g} : pc[s] = "send_direct" => peer[s] # x
  BY <1>0, <1>1 DEF IInv, WakeInv, PeerInv, NoDroppedWakeup
<1>3. /\ \A s \in Goroutine : pc'[s] = IF s = g THEN "out" ELSE pc[s]
      /\ \A s \in Goroutine : s # g => peer'[s] = peer[s]
      /\ \A s \in Goroutine : dst'[s] = IF s = x THEN src[g] ELSE dst[s]
      /\ \A s \in Goroutine : success'[s] = IF s = x THEN TRUE ELSE success[s]
  BY <1>1 DEF IInv, TypeOK
<1>4. InFlight(x) /\ Sender(x) = g
  BY <1>0, <1>1, SenderIs
<1>5. ~InFlight(x)'
  BY <1>2, <1>3 DEF InFlight
<1>6. ASSUME NEW k \in Goroutine, k # x
      PROVE  /\ InFlight(k)' <=> InFlight(k)
             /\ InFlight(k) => src'[Sender(k)'] = src[Sender(k)]
  <2>1. \A s \in Goroutine :
           /\ pc'[s] = "send_direct" /\ peer'[s] = k <=> pc[s] = "send_direct" /\ peer[s] = k
           /\ pc[s] = "send_direct" => src'[s] = src[s]
    BY <1>0, <1>1, <1>3, <1>6
  <2> QED
    BY <2>1, FlightSame
<1>7. Given' = Given
  <2>1. Given' = [k \in Goroutine |-> IF InFlight(k)' THEN src'[Sender(k)']
                                      ELSE IF closed /\ Queued(k, recvq) THEN Zero ELSE dst'[k]]
    BY <1>1 DEF Given
  <2>2. Given = [k \in Goroutine |-> IF InFlight(k) THEN src[Sender(k)]
                                     ELSE IF closed /\ Queued(k, recvq) THEN Zero ELSE dst[k]]
    BY DEF Given
  <2> QED
    BY <1>2, <1>3, <1>4, <1>5, <1>6, <2>1, <2>2
<1>8. Transferred' = Transferred
  <2>1. Transferred' = [k \in Goroutine |-> InFlight(k)' \/ success'[k]]
    BY DEF Transferred
  <2>2. Transferred = [k \in Goroutine |-> InFlight(k) \/ success[k]]
    BY DEF Transferred
  <2>3. \A k \in Goroutine : (InFlight(k)' \/ success'[k]) = (InFlight(k) \/ success[k])
    BY <1>3, <1>4, <1>5, <1>6
  <2> QED
    BY <2>1, <2>2, <2>3
<1>9. UNCHANGED <<Accepted, BlockedSenders, BlockedReceivers, closed>>
  BY <1>1, QueueSame
<1> QED
  BY <1>7, <1>8, <1>9 DEF Abstract!fvars

(* recv_direct: the oldest value, and the oldest offer moves up. *)
LEMMA RefinesRecvFromSender ==
  ASSUME IInv, IInv', NEW g \in Goroutine, RecvFromSender(g)
  PROVE  Abstract!RecvValue(g)
<1>0. PICK x \in Goroutine : x = Head(sendq)
  BY SenderFacts DEF RecvFromSender
<1>1. /\ Enter(g) /\ sendq # <<>> /\ sendq' = Tail(sendq)
      /\ success' = [success EXCEPT ![g] = TRUE, ![x] = TRUE]
      /\ UNCHANGED <<qcount, closed, recvq, pc, peer, src>>
  BY <1>0 DEF RecvFromSender
<1>2. /\ IF dataqsiz = 0
         THEN dst' = [dst EXCEPT ![g] = src[x]] /\ buf' = buf /\ recvx' = recvx
         ELSE /\ dst' = [dst EXCEPT ![g] = buf[recvx]]
              /\ buf' = [buf EXCEPT ![recvx] = src[x]] /\ recvx' = NextIndex(recvx)
  BY <1>0 DEF RecvFromSender
<1>3. /\ ~closed /\ ~InFlight(g) /\ ~Queued(g, recvq) /\ qcount = dataqsiz
      /\ sendq \in Seq(Goroutine) /\ src[x] \in Item /\ dst \in [Goroutine -> Item]
  BY <1>1, EnterFacts DEF IInv, NobodyWaitsInVain, TypeOK, Item
<1>4. Quiet
  BY <1>1 DEF Quiet
<1> DEFINE a == Contents
           b == Offered
<1>5. /\ a \in Seq(Item) /\ b \in Seq(Item) /\ Accepted = a \o b
      /\ Len(a) = qcount /\ Len(b) = Len(sendq)
  BY <1>3, AcceptedFacts
<1>6. b # <<>> /\ Head(b) = src[x] /\ Offered' = Tail(b)
  <2> DEFINE n == Len(sendq)
  <2>1. /\ n \in Nat \ {0} /\ sendq[1] = x /\ Len(sendq') = n - 1
        /\ \A i \in 1..(n - 1) : sendq'[i] = sendq[i + 1]
    BY <1>0, <1>1, <1>3
  <2>2. Len(b) = n /\ \A i \in 1..n : b[i] = src[sendq[i]]
    BY OfferedFacts DEF IInv
  <2> HIDE DEF b
  <2>3. /\ b # <<>> /\ Head(b) = b[1] /\ Tail(b) \in Seq(Item) /\ Len(Tail(b)) = n - 1
        /\ \A i \in 1..(n - 1) : Tail(b)[i] = b[i + 1]
    BY <1>5, <2>1, <2>2
  <2>4. Offered' = [i \in 1..(n - 1) |-> src[sendq'[i]]]
    BY <1>1, <2>1 DEF Offered
  <2> HIDE DEF n
  <2>5. 1 \in 1..n /\ n - 1 \in Nat /\ \A i \in 1..(n - 1) : i + 1 \in 1..n
    BY <2>1
  <2>6. \A i \in 1..(n - 1) : src[sendq'[i]] = Tail(b)[i] /\ Tail(b)[i] \in Item
    <3>1. \A i \in 1..(n - 1) : src[sendq'[i]] = Tail(b)[i]
      BY <2>1, <2>2, <2>3, <2>5
    <3>2. \A i \in 1..(n - 1) : Tail(b)[i] \in Item
      BY <2>3
    <3> QED
      BY <3>1, <3>2
  <2> DEFINE m == n - 1
             t == Tail(b)
  <2>7. /\ m \in Nat /\ Offered' = [i \in 1..m |-> src[sendq'[i]]]
        /\ t \in Seq(Item) /\ Len(t) = m
        /\ \A i \in 1..m : src[sendq'[i]] = t[i] /\ t[i] \in Item
    BY <2>3, <2>4, <2>5, <2>6
  <2> HIDE DEF m, t
  <2>8. Offered' \in Seq(Item) /\ Len(Offered') = m /\ \A i \in 1..m : Offered'[i] = t[i]
    BY <2>7
  <2>9. Offered' = t
    BY <2>7, <2>8, SeqEqual
  <2> QED
    BY <2>1, <2>2, <2>3, <2>5, <2>9 DEF t
<1>7. Accepted' = Contents' \o Offered'
  BY <1>1, <1>3 DEF Accepted
<1>8. /\ a \o b # <<>> /\ Accepted' = Tail(a \o b) /\ dst' = [dst EXCEPT ![g] = Head(a \o b)]
      /\ Head(a \o b) \in Item
  <2>1. CASE dataqsiz = 0
    <3>1. Contents' = a
      BY <1>1, <1>2, <2>1 DEF Contents, SlotOf
    <3>2. a = <<>>
      BY <1>3, <1>5, <2>1
    <3> HIDE DEF a, b
    <3>3. a \o b = b /\ a \o Tail(b) = Tail(b)
      BY <1>5, <1>6, <3>2
    <3> QED
      BY <1>2, <1>3, <1>6, <1>7, <2>1, <3>1, <3>3
  <2>2. CASE dataqsiz # 0
    <3>1. /\ a # <<>> /\ Head(a) = buf[recvx] /\ Contents' = Append(Tail(a), src[x])
      BY <1>1, <1>2, <1>3, <2>2, ContentsRotate, ChanAssumption DEF IInv
    <3> HIDE DEF a, b
    <3>2. /\ a \o b # <<>> /\ Head(a \o b) = Head(a) /\ Head(a) \in Item
          /\ Tail(a \o b) = Tail(a) \o b
      BY <1>5, <3>1
    <3>3. Append(Tail(a), Head(b)) \o Tail(b) = Tail(a) \o b
      <4> DEFINE c == Tail(a)
      <4>1. c \in Seq(Item)
        BY <1>5, <3>1
      <4> HIDE DEF c
      <4>2. /\ <<Head(b)>> \in Seq(Item) /\ Tail(b) \in Seq(Item) /\ <<Head(b)>> \o Tail(b) = b
            /\ Append(c, Head(b)) = c \o <<Head(b)>>
        BY <1>5, <1>6, <4>1
      <4>3. Append(c, Head(b)) \o Tail(b) = c \o b
        BY <4>1, <4>2, ConcatAssociative
      <4> QED
        BY <4>3 DEF c
    <3> QED
      BY <1>2, <1>6, <1>7, <2>2, <3>1, <3>2, <3>3
  <2> QED
    BY <2>1, <2>2
<1> DEFINE v == Head(a \o b)
<1> HIDE DEF a, b
<1>9. Given' = [Given EXCEPT ![g] = v]
  <2>1. dst'[g] = v /\ \A k \in Goroutine \ {g} : dst'[k] = dst[k]
    BY <1>3, <1>8
  <2> HIDE DEF v
  <2>2. v \in Item
    BY <1>8 DEF v
  <2> QED
    BY <1>1, <1>3, <1>4, <2>1, <2>2, GivenQuiet
<1>10. Transferred' = [Transferred EXCEPT ![g] = TRUE, ![x] = TRUE]
  <2>0. \A k \in Goroutine : InFlight(k)' <=> InFlight(k)
    BY <1>4, FlightQuiet
  <2>1. Transferred' = [k \in Goroutine |-> InFlight(k)' \/ success'[k]]
    BY DEF Transferred
  <2>2. Transferred = [k \in Goroutine |-> InFlight(k) \/ success[k]]
    BY DEF Transferred
  <2>3. [Transferred EXCEPT ![g] = TRUE, ![x] = TRUE]
          = [k \in Goroutine |-> IF k \in {x, g} THEN TRUE ELSE InFlight(k) \/ success[k]]
    BY <2>2
  <2>4. \A k \in Goroutine : success'[k] = IF k \in {x, g} THEN TRUE ELSE success[k]
    BY <1>1 DEF IInv, TypeOK
  <2>5. \A k \in Goroutine : (InFlight(k)' \/ success'[k])
                               = IF k \in {x, g} THEN TRUE ELSE InFlight(k) \/ success[k]
    BY <2>0, <2>4
  <2> QED
    BY <2>1, <2>3, <2>5
<1>11. /\ BlockedSenders = sendq /\ BlockedSenders' = Tail(sendq)
       /\ UNCHANGED <<BlockedReceivers, closed>>
  BY <1>1, <1>3 DEF BlockedSenders, BlockedReceivers
<1> QED
  BY <1>0, <1>1, <1>5, <1>8, <1>9, <1>10, <1>11 DEF Abstract!RecvValue, v

(* A receive from the ring takes the oldest accepted value. *)
LEMMA RefinesRecvBuffered ==
  ASSUME IInv, IInv', NEW g \in Goroutine, RecvBuffered(g)
  PROVE  Abstract!RecvValue(g)
<1>1. /\ Enter(g) /\ sendq = <<>> /\ qcount > 0
      /\ dst' = [dst EXCEPT ![g] = buf[recvx]] /\ recvx' = NextIndex(recvx)
      /\ qcount' = qcount - 1 /\ success' = [success EXCEPT ![g] = TRUE]
      /\ UNCHANGED <<buf, closed, recvq, sendq, pc, peer, src>>
  BY DEF RecvBuffered
<1>2. ~InFlight(g) /\ ~Queued(g, recvq) /\ dst \in [Goroutine -> Item]
  BY <1>1, EnterFacts DEF IInv, TypeOK, Item
<1>3. Quiet
  BY <1>1 DEF Quiet
<1>4. Contents # <<>> /\ Head(Contents) = buf[recvx] /\ Contents' = Tail(Contents)
  BY <1>1, ContentsPop DEF IInv
<1>5. Contents \in Seq(Item) /\ Accepted = Contents
  BY <1>1, AcceptedFacts, ClosedFacts
<1>6. Accepted' = Contents'
  <2>1. Tail(Contents) \in Seq(Item)
    BY <1>4, <1>5
  <2>2. Offered' = <<>>
    BY <1>1 DEF Offered
  <2> QED
    BY <1>4, <2>1, <2>2 DEF Accepted
<1>7. Given' = [Given EXCEPT ![g] = Head(Contents)]
  <2> DEFINE v == Head(Contents)
  <2>1. v \in Item
    BY <1>4, <1>5
  <2>2. dst'[g] = v /\ \A k \in Goroutine \ {g} : dst'[k] = dst[k]
    BY <1>1, <1>2, <1>4
  <2> HIDE DEF v
  <2>3. Given' = [Given EXCEPT ![g] = v]
    BY <1>1, <1>2, <1>3, <2>1, <2>2, GivenQuiet
  <2> QED
    BY <2>3 DEF v
<1>8. Transferred' = [Transferred EXCEPT ![g] = TRUE]
  BY <1>1, <1>2, <1>3, TransferredQuiet
<1>9. BlockedSenders = <<>> /\ UNCHANGED <<BlockedSenders, BlockedReceivers, closed>>
  BY <1>1 DEF BlockedSenders, BlockedReceivers
<1> QED
  BY <1>4, <1>5, <1>6, <1>7, <1>8, <1>9 DEF Abstract!RecvValue

(* The receives that find no value: closed, try_recv, or parked. *)
LEMMA RefinesRecvEmpty ==
  ASSUME IInv, IInv', NEW g \in Goroutine
  PROVE  /\ RecvOnClosed(g) => Abstract!RecvClosed(g)
         /\ RecvGivesUp(g) => Abstract!RecvGivesUp(g)
         /\ RecvParks(g) => Abstract!RecvBlocks(g)
<1> SUFFICES ASSUME RecvOnClosed(g) \/ RecvGivesUp(g) \/ RecvParks(g)
             PROVE  /\ RecvOnClosed(g) => Abstract!RecvClosed(g)
                    /\ RecvGivesUp(g) => Abstract!RecvGivesUp(g)
                    /\ RecvParks(g) => Abstract!RecvBlocks(g)
  OBVIOUS
<1>1. /\ Enter(g) /\ sendq = <<>> /\ qcount = 0 /\ success' = [success EXCEPT ![g] = FALSE]
      /\ UNCHANGED <<qcount, buf, recvx, closed, sendq, src, peer>>
      /\ pc' = pc \/ pc' = [pc EXCEPT ![g] = "park_recv"]
  BY DEF RecvOnClosed, RecvGivesUp, RecvParks, RecvEmpty, chanVars
<1>2. /\ ~InFlight(g) /\ ~Queued(g, recvq) /\ pc[g] = "out"
      /\ closed => recvq = <<>>
      /\ recvq \in Seq(Goroutine) /\ dst \in [Goroutine -> Item]
  BY <1>1, EnterFacts DEF IInv, TypeOK, Item
<1>3. Quiet
  BY <1>1, <1>2, EnterFacts DEF Quiet
<1>4. Transferred' = [Transferred EXCEPT ![g] = FALSE]
  BY <1>1, <1>2, <1>3, TransferredQuiet
<1>5. Accepted = <<>>
  BY <1>1, AcceptedFacts, ClosedFacts
<1>6. Accepted' = Accepted /\ BlockedSenders' = BlockedSenders
  <2>1. Contents' = Contents /\ Offered' = Offered
    BY <1>1 DEF Contents, Offered, SlotOf
  <2> QED
    BY <1>1, <2>1 DEF Accepted, BlockedSenders
<1>7. RecvOnClosed(g) => Abstract!RecvClosed(g)
  <2> HAVE RecvOnClosed(g)
  <2>1. closed /\ dst' = [dst EXCEPT ![g] = Zero] /\ recvq' = recvq
    BY DEF RecvOnClosed, chanVars
  <2>2. BlockedReceivers' = BlockedReceivers
    BY <1>1, <2>1 DEF BlockedReceivers
  <2>3. Given' = [Given EXCEPT ![g] = Zero]
    <3>1. dst'[g] = Zero /\ Zero \in Item /\ \A k \in Goroutine \ {g} : dst'[k] = dst[k]
      BY <1>2, <2>1 DEF Item
    <3> QED
      BY <1>1, <1>2, <1>3, <2>1, <3>1, GivenQuiet
  <2> QED
    BY <1>1, <1>4, <1>5, <1>6, <2>1, <2>2, <2>3 DEF Abstract!RecvClosed
<1>8. RecvGivesUp(g) => Abstract!RecvGivesUp(g)
  <2> HAVE RecvGivesUp(g)
  <2>1. ~closed /\ dst' = dst /\ recvq' = recvq
    BY DEF RecvGivesUp, chanVars
  <2>2. BlockedReceivers' = BlockedReceivers
    BY <1>1, <2>1 DEF BlockedReceivers
  <2>3. Given' = Given
    BY <1>1, <1>3, <2>1, FlightQuiet DEF Given
  <2> QED
    BY <1>1, <1>4, <1>5, <1>6, <2>1, <2>2, <2>3 DEF Abstract!RecvGivesUp
<1>9. RecvParks(g) => Abstract!RecvBlocks(g)
  <2> HAVE RecvParks(g)
  <2>1. ~closed /\ dst' = dst /\ recvq' = Append(recvq, g)
    BY DEF RecvParks
  <2>2. BlockedReceivers' = Append(BlockedReceivers, g)
    BY <1>1, <2>1 DEF BlockedReceivers
  <2>3. Given' = Given
    BY <1>1, <1>3, <2>1, FlightQuiet DEF Given
  <2> QED
    BY <1>1, <1>4, <1>5, <1>6, <2>1, <2>2, <2>3 DEF Abstract!RecvBlocks
<1> QED
  BY <1>7, <1>8, <1>9

(* The channel is shut as soon as the flag is set: who waits is released then, in *)
(* the terms of the abstract channel, though close readies one after the other.   *)
LEMMA RefinesCloseBegins ==
  ASSUME IInv, IInv', NEW g \in Goroutine, CloseBegins(g)
  PROVE  Abstract!Close
<1>1. /\ Enter(g) /\ ~closed /\ closed' = TRUE /\ pc' = [pc EXCEPT ![g] = "closing"]
      /\ UNCHANGED <<qcount, buf, recvx, recvq, sendq, peer, src, dst, success>>
  BY DEF CloseBegins
<1>2. Quiet
  BY <1>1, EnterFacts DEF Quiet
<1>3. \A k \in Goroutine : /\ InFlight(k)' <=> InFlight(k)
                           /\ InFlight(k) => src'[Sender(k)'] = src[Sender(k)]
                           /\ InFlight(k) => ~Queued(k, recvq)
  <2>1. \A k \in Goroutine : InFlight(k) => ~Queued(k, recvq)
    BY DEF InFlight, IInv, WakeInv, NoDroppedWakeup
  <2> QED
    BY <1>2, <2>1, FlightQuiet
<1>4. Transferred' = Transferred
  <2>1. Transferred' = [k \in Goroutine |-> InFlight(k)' \/ success'[k]]
    BY DEF Transferred
  <2>2. Transferred = [k \in Goroutine |-> InFlight(k) \/ success[k]]
    BY DEF Transferred
  <2>3. \A k \in Goroutine : (InFlight(k)' \/ success'[k]) = (InFlight(k) \/ success[k])
    BY <1>1, <1>3
  <2> QED
    BY <2>1, <2>2, <2>3
<1>5. Accepted' = SubSeq(Accepted, 1, Len(Accepted) - Len(sendq))
  <2> DEFINE a == Contents
             b == Offered
  <2>1. /\ a \in Seq(Item) /\ b \in Seq(Item) /\ Accepted = a \o b
        /\ Len(Accepted) - Len(sendq) = Len(a)
    <3>1. /\ Len(Accepted) = Len(a) + Len(sendq) /\ Len(a) \in Nat /\ Len(sendq) \in Nat
          /\ a \in Seq(Item) /\ b \in Seq(Item) /\ Accepted = a \o b
      BY <1>1, AcceptedFacts
    <3> HIDE DEF a, b
    <3> QED
      BY <3>1
  <2>2. Accepted' = a
    BY <1>1 DEF Accepted, Contents, SlotOf
  <2> HIDE DEF a, b
  <2>3. SubSeq(a \o b, 1, Len(a)) = a
    BY <2>1
  <2> QED
    BY <2>1, <2>2, <2>3
<1>6. BlockedReceivers = recvq /\ BlockedSenders = sendq
  BY <1>1, AcceptedFacts
<1>7. BlockedReceivers' = <<>> /\ BlockedSenders' = <<>>
  BY <1>1 DEF BlockedReceivers, BlockedSenders
<1>8. Given' = [k \in Goroutine |-> IF Queued(k, recvq) THEN Zero ELSE Given[k]]
  <2>1. Given' = [k \in Goroutine |-> IF InFlight(k)' THEN src'[Sender(k)']
                                      ELSE IF Queued(k, recvq) THEN Zero ELSE dst[k]]
    BY <1>1 DEF Given
  <2>2. Given = [k \in Goroutine |-> IF InFlight(k) THEN src[Sender(k)] ELSE dst[k]]
    BY <1>1 DEF Given
  <2> QED
    BY <1>3, <2>1, <2>2
<1> QED
  BY <1>1, <1>4, <1>5, <1>6, <1>7, <1>8 DEF Abstract!Close, Queued

(* Everything else only catches up with what the abstract channel did. *)
LEMMA RefinesQuietSteps ==
  ASSUME IInv, IInv', WaiterInv, NEW g \in Goroutine,
         \/ CloseOnClosed(g) \/ CloseReadiesReceiver(g) \/ CloseReadiesSender(g)
         \/ CloseEnds(g) \/ SchedUnlock(g) \/ Resume(g)
  PROVE  UNCHANGED Abstract!fvars
<1>0. /\ pc \in [Goroutine -> Waits \cup Parks \cup {"out", "send_direct", "closing", "panicked"}]
      /\ success \in [Goroutine -> BOOLEAN] /\ dst \in [Goroutine -> Item]
  BY DEF IInv, TypeOK, Item
<1>1. Quiet /\ UNCHANGED <<qcount, buf, recvx, closed, src>>
  BY <1>0 DEF CloseOnClosed, CloseReadiesReceiver, CloseReadiesSender, CloseEnds, SchedUnlock,
              Resume, Enter, Quiet, chanVars, Parks, Waits
<1>2. /\ closed \/ (sendq' = sendq /\ recvq' = recvq)
      /\ Given' = Given /\ Transferred' = Transferred
  <2>1. CASE CloseOnClosed(g) \/ CloseEnds(g) \/ SchedUnlock(g) \/ Resume(g)
    <3>1. UNCHANGED <<sendq, recvq, dst, success, closed>>
      BY <2>1 DEF CloseOnClosed, CloseEnds, SchedUnlock, Resume, chanVars
    <3> QED
      BY <1>1, <3>1, MailSame
  <2>2. CASE CloseReadiesReceiver(g)
    <3>0. PICK x \in Goroutine : x = Head(recvq)
      BY <2>2, ReceiverFacts DEF CloseReadiesReceiver
    <3>1. /\ recvq # <<>> /\ recvq' = Tail(recvq) /\ dst' = [dst EXCEPT ![x] = Zero]
          /\ success' = [success EXCEPT ![x] = FALSE] /\ closed
      BY <2>2, <3>0 DEF CloseReadiesReceiver, WaiterInv
    <3>2. /\ Queued(x, recvq) /\ ~success[x]
          /\ \A k \in Goroutine : Queued(k, recvq') <=> Queued(k, recvq) /\ k # x
      BY <3>0, <3>1, ReceiverFacts DEF WaiterInv
    <3>3. \A k \in Goroutine : success'[k] = success[k] /\ dst'[k] = IF k = x THEN Zero ELSE dst[k]
      BY <1>0, <3>1, <3>2
    <3>4. \A k \in Goroutine : (IF closed' /\ Queued(k, recvq') THEN Zero ELSE dst'[k])
                                = (IF closed /\ Queued(k, recvq) THEN Zero ELSE dst[k])
      BY <1>1, <3>1, <3>2, <3>3
    <3> QED
      BY <1>1, <3>1, <3>3, <3>4, MailSame
  <2>3. CASE CloseReadiesSender(g)
    <3>0. PICK x \in Goroutine : x = Head(sendq)
      BY <2>3, SenderFacts DEF CloseReadiesSender
    <3>1. /\ sendq # <<>> /\ recvq' = recvq /\ dst' = dst
          /\ success' = [success EXCEPT ![x] = FALSE] /\ closed
      BY <2>3, <3>0 DEF CloseReadiesSender, WaiterInv
    <3>2. ~success[x]
      BY <3>0, <3>1, SenderFacts DEF WaiterInv
    <3>3. \A k \in Goroutine : success'[k] = success[k]
      BY <1>0, <3>1, <3>2
    <3> QED
      BY <1>1, <3>1, <3>3, MailSame
  <2> QED
    BY <2>1, <2>2, <2>3
<1>3. UNCHANGED <<Accepted, BlockedSenders, BlockedReceivers, closed>>
  BY <1>1, <1>2, QueueSame
<1> QED
  BY <1>2, <1>3 DEF Abstract!fvars

-----------------------------------------------------------------------------
(* The theorem *)

(* The empty open channel is the initial abstract one. *)
LEMMA RefinesInit ==
  ASSUME Init
  PROVE  Abstract!Init
<1>1. ~closed /\ qcount = 0 /\ sendq = <<>> /\ recvq = <<>>
  BY DEF Init
<1>2. Contents = <<>> /\ Offered = <<>>
  BY <1>1 DEF Contents, Offered
<1>3. Accepted = <<>> /\ BlockedSenders = <<>> /\ BlockedReceivers = <<>>
  BY <1>1, <1>2 DEF Accepted, BlockedSenders, BlockedReceivers
<1>4. \A k \in Goroutine : ~InFlight(k) /\ ~success[k] /\ dst[k] = Zero
  BY DEF Init, InFlight
<1>5. Given = [k \in Goroutine |-> Zero]
  BY <1>1, <1>4 DEF Given
<1>6. Transferred = [k \in Goroutine |-> FALSE]
  <2>1. Transferred = [k \in Goroutine |-> InFlight(k) \/ success[k]]
    BY DEF Transferred
  <2>2. ASSUME NEW k \in Goroutine PROVE (InFlight(k) \/ success[k]) = FALSE
    <3>1. ~InFlight(k) /\ ~success[k]
      BY <1>4
    <3> QED
      BY <3>1, Zenon
  <2> QED
    BY <2>1, <2>2, Zenon
<1>7. closed = FALSE
  BY DEF Init
<1> QED
  BY <1>3, <1>5, <1>6, <1>7 DEF Abstract!Init

(* Every step of chan.v is a step of the abstract channel or changes nothing of it. *)
LEMMA RefinesNext ==
  ASSUME IInv, IInv', WaiterInv, Next
  PROVE  Abstract!Next \/ UNCHANGED Abstract!fvars
<1>1. PICK g \in Goroutine : chan_send(g) \/ chan_recv(g) \/ chan_close(g) \/ Continue(g)
  BY DEF Next
<1>2. Enter(g) => NewValue(g) \in Value
  BY EnterFacts
<1>3. CASE SendToReceiver(g) \/ SendBuffered(g) \/ SendParks(g)
  <2>1. NewValue(g) \in Value
    BY <1>2, <1>3 DEF SendToReceiver, SendBuffered, SendParks, SendFull
  <2> QED
    BY <1>3, <2>1, RefinesSendToReceiver, RefinesSendBuffered, RefinesSendParks DEF Abstract!Next
<1>4. CASE \/ SendOnClosed(g) \/ SendGivesUp(g) \/ RecvFromSender(g) \/ RecvBuffered(g)
           \/ RecvOnClosed(g) \/ RecvGivesUp(g) \/ RecvParks(g)
  BY <1>4, RefinesSendOnClosed, RefinesSendGivesUp, RefinesRecvFromSender, RefinesRecvBuffered,
     RefinesRecvEmpty DEF Abstract!Next
<1>5. CASE CloseBegins(g)
  BY <1>5, RefinesCloseBegins DEF Abstract!Next
<1>6. CASE \/ CloseOnClosed(g) \/ CloseReadiesReceiver(g) \/ CloseReadiesSender(g)
           \/ CloseEnds(g) \/ SchedUnlock(g) \/ Resume(g)
  BY <1>6, RefinesQuietSteps
<1>7. CASE SendDirect(g)
  BY <1>7, RefinesSendDirect
<1> QED
  BY <1>1, <1>3, <1>4, <1>5, <1>6, <1>7 DEF chan_send, chan_recv, chan_close, Continue, OwnStep

(* Lock, ring buffer, wait lists, late copies and the parking handshake of     *)
(* chan.v implement a first-in first-out channel: every value is received once *)
(* and in the order of the sends, or dropped by a close together with the      *)
(* panic of its sender, whatever the number of goroutines and of slots.        *)
THEOREM Refinement == Spec => ImplementsFifo
<1>1. Init => WaiterInv
  <2>1. \A g : ~Queued(g, <<>>)
    <3>1. Len(<<>>) = 0
      OBVIOUS
    <3> QED
      BY ONLY <3>1 DEF Queued
  <2> QED
    BY <2>1 DEF Init, WaiterInv
<1>2. IInv /\ WaiterInv /\ [Next]_vars => WaiterInv'
  <2>1. ASSUME IInv, WaiterInv, Next PROVE WaiterInv'
    BY <2>1, WaiterStep DEF Next
  <2>2. ASSUME WaiterInv, UNCHANGED vars PROVE WaiterInv'
    BY <2>2 DEF WaiterInv, Queued, vars, chanVars, goVars, callVars
  <2> QED
    BY <2>1, <2>2
<1>3. Init => Abstract!Init
  BY RefinesInit
<1>4. IInv /\ IInv' /\ WaiterInv /\ [Next]_vars => [Abstract!Next]_(Abstract!fvars)
  <2>1. ASSUME UNCHANGED vars PROVE UNCHANGED Abstract!fvars
    BY <2>1
    DEF Abstract!fvars, Accepted, BlockedSenders, BlockedReceivers, Given, Transferred, Contents,
        Offered, SlotOf, InFlight, Sender, Queued, vars, chanVars, goVars, callVars
  <2> QED
    BY <2>1, RefinesNext
<1> QED
  BY <1>1, <1>2, <1>3, <1>4, Invariance, PTL DEF Spec, ImplementsFifo, Abstract!Spec
=============================================================================

------------------------------ MODULE FifoChan ------------------------------
(***************************************************************************)
(* What a channel promises, with no lock, ring buffer, wait list or        *)
(* scheduler: values leave in the order they were accepted, a value goes   *)
(* to exactly one receiver, at most Capacity values are accepted from      *)
(* senders that are not blocked, and close releases everybody who waits.   *)
(* GoChan implements it.                                                   *)
(***************************************************************************)
EXTENDS Naturals, Sequences

CONSTANTS Goroutine,  \* the callers
          Value,      \* what they send
          Zero,       \* the zero value a receive from a closed channel yields
          Capacity    \* number of values accepted without a receiver

VARIABLES q,          \* values accepted and not yet taken, oldest first
          senders,    \* blocked senders; they own the last Len(senders) values of q
          receivers,  \* blocked receivers, in the order they will be served
          shut,       \* the channel is closed
          mail,       \* mail[g]: what the latest receive of g was given
          ok          \* ok[g]: did the latest call of g transfer a value

fvars == <<q, senders, receivers, shut, mail, ok>>

TypeOK ==
  /\ q \in Seq(Value)
  /\ senders \in Seq(Goroutine)
  /\ receivers \in Seq(Goroutine)
  /\ shut \in BOOLEAN
  /\ mail \in [Goroutine -> Value \cup {Zero}]
  /\ ok \in [Goroutine -> BOOLEAN]

Init ==
  /\ q = <<>>
  /\ senders = <<>>
  /\ receivers = <<>>
  /\ shut = FALSE
  /\ mail = [g \in Goroutine |-> Zero]
  /\ ok = [g \in Goroutine |-> FALSE]

(* The oldest waiting receiver gets the value.                            *)

SendToReceiver(g, v) ==
  /\ ~shut
  /\ receivers # <<>>
  /\ receivers' = Tail(receivers)
  /\ mail' = [mail EXCEPT ![Head(receivers)] = v]
  /\ ok' = [ok EXCEPT ![Head(receivers)] = TRUE, ![g] = TRUE]
  /\ UNCHANGED <<q, senders, shut>>

SendBuffered(g, v) ==
  /\ ~shut
  /\ receivers = <<>>
  /\ Len(q) < Capacity
  /\ q' = Append(q, v)
  /\ ok' = [ok EXCEPT ![g] = TRUE]
  /\ UNCHANGED <<senders, receivers, shut, mail>>

SendBlocks(g, v) ==
  /\ ~shut
  /\ receivers = <<>>
  /\ Len(q) >= Capacity
  /\ q' = Append(q, v)
  /\ senders' = Append(senders, g)
  /\ ok' = [ok EXCEPT ![g] = FALSE]
  /\ UNCHANGED <<receivers, shut, mail>>

SendGivesUp(g) ==
  /\ ~shut
  /\ receivers = <<>>
  /\ Len(q) >= Capacity
  /\ ok' = [ok EXCEPT ![g] = FALSE]
  /\ UNCHANGED <<q, senders, receivers, shut, mail>>

SendOnClosed(g) ==
  /\ shut
  /\ ok' = [ok EXCEPT ![g] = FALSE]
  /\ UNCHANGED <<q, senders, receivers, shut, mail>>

(* The oldest value is taken; the oldest blocked sender, if any, is done.  *)
RecvValue(g) ==
  /\ q # <<>>
  /\ q' = Tail(q)
  /\ mail' = [mail EXCEPT ![g] = Head(q)]
  /\ IF senders = <<>>
     THEN /\ senders' = senders
          /\ ok' = [ok EXCEPT ![g] = TRUE]
     ELSE /\ senders' = Tail(senders)
          /\ ok' = [ok EXCEPT ![g] = TRUE, ![Head(senders)] = TRUE]
  /\ UNCHANGED <<receivers, shut>>

RecvClosed(g) ==
  /\ q = <<>>
  /\ shut
  /\ mail' = [mail EXCEPT ![g] = Zero]
  /\ ok' = [ok EXCEPT ![g] = FALSE]
  /\ UNCHANGED <<q, senders, receivers, shut>>

RecvBlocks(g) ==
  /\ q = <<>>
  /\ ~shut
  /\ receivers' = Append(receivers, g)
  /\ ok' = [ok EXCEPT ![g] = FALSE]
  /\ UNCHANGED <<q, senders, shut, mail>>

RecvGivesUp(g) ==
  /\ q = <<>>
  /\ ~shut
  /\ ok' = [ok EXCEPT ![g] = FALSE]
  /\ UNCHANGED <<q, senders, receivers, shut, mail>>

(* Waiting receivers get the zero value, the values of blocked senders are *)
(* dropped; ok is FALSE already for whoever waits.                         *)
Close ==
  /\ ~shut
  /\ shut' = TRUE
  /\ receivers' = <<>>
  /\ senders' = <<>>
  /\ q' = SubSeq(q, 1, Len(q) - Len(senders))
  /\ mail' = [g \in Goroutine |->
                IF \E i \in 1..Len(receivers) : receivers[i] = g THEN Zero ELSE mail[g]]
  /\ UNCHANGED ok

Next ==
  \/ \E g \in Goroutine, v \in Value :
       SendToReceiver(g, v) \/ SendBuffered(g, v) \/ SendBlocks(g, v)
  \/ \E g \in Goroutine :
       \/ SendGivesUp(g) \/ SendOnClosed(g)
       \/ RecvValue(g) \/ RecvClosed(g) \/ RecvBlocks(g) \/ RecvGivesUp(g)
  \/ Close

Spec == Init /\ [][Next]_fvars
=============================================================================

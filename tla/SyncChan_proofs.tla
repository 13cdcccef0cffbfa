-------------------------- MODULE SyncChan_proofs --------------------------
(***************************************************************************)
(* Theorems about SyncChan: the counters and tokens of the ring, the order *)
(* of its slots, the hand-over of an unbuffered channel, selects, and what *)
(* becomes of every value.                                                 *)
(***************************************************************************)
EXTENDS SyncChan, SequenceFacts

-----------------------------------------------------------------------------
(* Places *)

WriterSec == {"p_check", "p_retract", "p_note", "p_await", "p_im", "p_mine"}
ReaderSec == {"r_check", "r_retract", "r_note", "r_await", "r_im", "r_mine"}

PushLabels ==
  {"push", "p_adr", "p_copy", "p_publish", "p_post", "p_sem", "p_closed", "p_adv",
   "p_free", "p_idx", "p_slot", "p_store", "p_avail", "p_readsem", "p_sub"} \cup WriterSec
PopLabels ==
  {"pop", "r_adr", "r_copy", "r_publish", "r_post", "r_sem", "r_closed", "r_avail", "r_idx",
   "r_slot", "r_load", "r_free", "r_writesem", "r_sub", "r_adv"} \cup ReaderSec
CloseLabels ==
  {"close", "c_other", "c_set", "c_mark", "c_readers", "c_read_sub", "c_write_sub",
   "c_writers", "c_unadvertise", "c_im"}
ToSelLabels == {"to_select", "to_select_scan", "to_select_copy", "to_select_post"}
WaitLabels == {"sel_recheck", "sel_recheck_scan", "sel_rescan", "sel_sleep", "sel_woken"}
SelLabels == WaitLabels \cup {"sel", "sel_result", "sel_claimed", "sel_leave"}

(* The labels of the code, by the operation they belong to. *)
Timeouts == {"inf", "timed", "else"}
Results == {"none", "success", "not_ready", "closed", "timeout"}
Directions == {"push", "pop"}

ChType ==
  [closed : BOOLEAN, close_claimed : BOOLEAN,
   writesem : Nat, readsem : Nat, writesem_im : Nat, readsem_im : Nat,
   write_adr : Thread \cup {NULL}, read_adr : Thread \cup {NULL},
   adr_read : Thread \cup {NULL}, adr_written : Thread \cup {NULL, ClosedMark},
   write_free : Nat, read_avail : Nat, buf_elem_write_idx : Nat, buf_elem_read_idx : Nat,
   statusbuf : [Slot -> {"unused", "writing", "written", "reading"}],
   ringbuf : [Slot -> Value]]

FrameType ==
  [op : Ops \cup {"none"}, tmo : Timeouts, adr : Nat, have_swapped : BOOLEAN,
   in_progress : BOOLEAN, found : BOOLEAN, ticket : Nat, result : Results]

HistType ==
  [sent : SUBSET Value, refused : SUBSET Value, got : Seq(Value), early : SUBSET Value,
   order : Seq(Value), claims : Nat, tickets : Nat, undrained : BOOLEAN]

Types ==
  /\ use \in Uses
  /\ ch \in ChType
  /\ subs \in [Directions -> Seq(Thread)]
  /\ mtx \in [Directions -> Thread \cup {NULL}]
  /\ sel \in [Thread -> [state : {"scanning", "waiting", "claimed", "served"}, sem : Nat]]
  /\ pc \in [Thread -> Labels]
  /\ fr \in [Thread -> FrameType]
  /\ obj \in [Thread -> Value]
  /\ calls \in [Thread -> 0 .. MaxCalls]
  /\ hist \in HistType

(* Which calls can be where, and what their locals are there. *)
PlaceAt(t, l, f) ==
  /\ l = "idle" => f = Frame0
  /\ l # "idle" => f.op \in use.may[t]
  /\ f.tmo \in use.timeouts \cup {"inf"}
  /\ l \in PushLabels => f.op \in PushOps
  /\ l \in PopLabels => f.op \in PopOps
  /\ l \in CloseLabels => f.op = "close"
  /\ l \in SelLabels => f.op \in SelOps
  /\ l \in ToSelLabels => Cap = 0 /\ f.op \in {"try_push", "try_pop"} \cup SelOps
  /\ l \in {"p_adv", "c_unadvertise"} \cup WriterSec => Cap = 0
  /\ l \in {"p_sem", "p_closed", "p_adv"} \cup WriterSec /\ Cap = 0 => f.op = "push"
  /\ l \in {"p_free", "p_idx", "p_slot", "p_store", "p_avail", "p_readsem", "p_sub"} => Cap > 0
  /\ l \in {"r_adr", "r_copy", "r_publish", "r_post", "r_check", "r_retract", "r_note"} => Cap = 0
  /\ l \in {"r_avail", "r_idx", "r_slot", "r_load", "r_free", "r_writesem", "r_sub"} => Cap > 0
  /\ l \in {"r_sem", "r_adv"} \cup ReaderSec /\ Cap = 0 => f.op = "pop"
  /\ l = "r_closed" => f.op # "pop"
  /\ l \in {"p_copy", "p_publish", "p_post", "r_copy", "r_publish", "r_post",
            "to_select_copy", "to_select_post"} => f.adr \in Thread
  /\ l \in {"p_slot", "p_store", "r_slot", "r_load"} => f.adr \in Slot
  /\ l \in {"to_select_scan", "sel_recheck_scan"} => f.adr > 0
  /\ f.have_swapped => l \in {"p_im", "p_mine", "r_im", "r_mine"}

PlaceInv == \A t \in Thread : PlaceAt(t, pc[t], fr[t])

Closing == {"c_mark", "c_readers", "c_read_sub", "c_write_sub", "c_writers", "c_unadvertise", "c_im"}

CloseInv ==
  /\ ch.closed => ch.close_claimed
  /\ ch.close_claimed => Closers(use) # {}
  /\ ch.adr_written = ClosedMark => ch.closed
  /\ \A t \in Thread : pc[t] \in Closing => ch.closed
  /\ \A t \in Thread : pc[t] \in CloseLabels \ {"close"} => ch.close_claimed

(* The indices stay inside the ring. *)
IndexInv == Cap > 0 => ch.buf_elem_write_idx \in Slot /\ ch.buf_elem_read_idx \in Slot

SelOf(d) == IF d = "push" THEN "sel_push" ELSE "sel_pop"

(* Who is subscribed is inside its select, once. *)
SubsInv ==
  \A d \in Directions :
    /\ IsInjective(subs[d])
    /\ \A s \in Range(subs[d]) : pc[s] \notin {"idle", "sel"} /\ fr[s].op = SelOf(d)

TypeInv == Types /\ PlaceInv /\ CloseInv /\ IndexInv /\ SubsInv

-----------------------------------------------------------------------------
(* Counters *)

Count(q, L) == Cardinality({t \in Thread : q[t] \in L})
Num(L) == Count(pc, L)
In(x, L) == IF x \in L THEN 1 ELSE 0

Filling == {"p_idx", "p_slot", "p_store", "p_avail"}
Draining == {"r_idx", "r_slot", "r_load", "r_free"}
WriterTok == {"p_closed", "p_adv"} \cup WriterSec
ReaderTok == {"r_adv"} \cup ReaderSec

(* Every entry of the ring is free, reserved by a writer, available, or claimed by *)
(* a reader.                                                                       *)
RingCount == ch.write_free + Num(Filling) + ch.read_avail + Num(Draining) = Cap

(* A token of writesem, or a thread that has one, for every free entry. *)
WriteTokens ==
  Cap > 0 /\ ~ch.closed => ch.writesem + Num({"p_closed"}) + Num({"p_free"}) + Num({"r_writesem"}) = ch.write_free

Free == Num({"p_free"}) <= ch.write_free

(* A token of readsem, or a thread that has one or is about to post it, for every *)
(* available value; a receiver finds none only after close has left its mark.     *)
ReadTokens ==
  Cap > 0 /\ ch.adr_written # ClosedMark =>
    ch.readsem + Num({"p_readsem"}) + Num({"r_avail"}) = ch.read_avail

(* On a buffered channel an address is lent only after the mark, so nobody gets it back. *)
LateInv ==
  Cap > 0 =>
    /\ ch.adr_written \in {NULL, ClosedMark}
    /\ ch.adr_written = NULL =>
         /\ ch.write_adr = NULL
         /\ \A t \in Thread : pc[t] \notin ReaderTok \cup {"p_copy", "p_publish"}
    /\ \A t \in Thread : pc[t] # "p_post" /\ ~fr[t].have_swapped
    /\ \A t \in Thread : pc[t] = "c_readers" => ch.adr_written = ClosedMark

CountInv == RingCount /\ WriteTokens /\ Free /\ ReadTokens /\ LateInv

-----------------------------------------------------------------------------
(* Closing *)

(* A send whose value is available and whose caller is still to be told. *)
ToldBy(l, f) ==
  \/ l \in {"p_readsem", "p_sub"}
  \/ l \in {"sel_result", "sel_leave"} /\ f.op = "sel_push" /\ f.result = "success"
Told == {t \in Thread : ToldBy(pc[t], fr[t])}

(* Nobody is claimed on a buffered channel. *)
SelIdle == Cap > 0 => \A t \in Thread : sel[t].state \in {"scanning", "waiting"}

DrainInv ==
  /\ SelIdle
  /\ ~ch.close_claimed => hist.early = {}
  /\ hist.early \subseteq hist.sent
  /\ Cap > 0 => Cardinality(hist.sent) + Cardinality(Told) <= hist.claims + ch.read_avail
  /\ \A t \in Thread : Cap > 0 /\ pc[t] \in ReaderTok => Cardinality(hist.early) <= hist.claims
  /\ OnlyWaits(use) => ~hist.undrained

-----------------------------------------------------------------------------
(* The ring *)

Puts == Len(hist.order)
Takes == hist.tickets
SlotOf(k) == (k - 1) % Cap

Writing == {"p_slot", "p_store"}
Reading == {"r_slot", "r_load"}

(* The ticket k is reserved and its value not stored, or reserved and not loaded. *)
Unstored(k) == \E t \in Thread : pc[t] \in Writing /\ fr[t].ticket = k
Unloaded(k) == \E t \in Thread : pc[t] \in Reading /\ fr[t].ticket = k

(* The value of ticket k is in its slot. *)
Stored(k) == k \in 1 .. Puts /\ ~Unstored(k) /\ (k > Takes \/ Unloaded(k))

TicketInv ==
  /\ ch.buf_elem_write_idx = Puts % Cap
  /\ ch.buf_elem_read_idx = Takes % Cap
  /\ hist.claims = Takes + Num({"r_idx"})
  /\ hist.claims + ch.read_avail + Num(Writing \cup {"p_avail"}) = Puts
  /\ \A t \in Thread : pc[t] \in Writing =>
       /\ fr[t].ticket \in 1 .. Puts
       /\ fr[t].adr = SlotOf(fr[t].ticket)
       /\ obj[t] = hist.order[fr[t].ticket]
  /\ \A t \in Thread : pc[t] \in Reading =>
       /\ fr[t].ticket \in 1 .. Takes
       /\ fr[t].adr = SlotOf(fr[t].ticket)
  /\ \A t, u \in Thread :
       pc[t] \in Writing /\ pc[u] \in Writing /\ fr[t].ticket = fr[u].ticket => t = u
  /\ \A t, u \in Thread :
       pc[t] \in Reading /\ pc[u] \in Reading /\ fr[t].ticket = fr[u].ticket => t = u

(* No two reservations of the same kind wait for one slot. *)
WritersNear == \A t \in Thread : pc[t] \in Writing => Puts < fr[t].ticket + Cap
ReadersNear == \A t \in Thread : pc[t] \in Reading => Takes < fr[t].ticket + Cap

(* The value after the one that a reader waits for is stored after it was loaded; *)
(* the value that a writer stores is still to be loaded.                          *)
ReaderFirst ==
  \A t \in Thread : pc[t] \in Reading /\ Puts >= fr[t].ticket + Cap => Unstored(fr[t].ticket + Cap)
WriterFirst == \A t \in Thread : pc[t] \in Writing => fr[t].ticket > Takes \/ Unloaded(fr[t].ticket)

(* The slot of a value that is stored and not loaded holds it, and no other is full. *)
SlotHolds ==
  \A k \in 1 .. Puts : Stored(k) =>
    ch.statusbuf[SlotOf(k)] \in {"written", "reading"} /\ ch.ringbuf[SlotOf(k)] = hist.order[k]
SlotFull ==
  \A i \in Slot : ch.statusbuf[i] \in {"written", "reading"} =>
    \E k \in 1 .. Puts : Stored(k) /\ SlotOf(k) = i

StoreLock == \A t \in Thread : pc[t] = "p_store" => ch.statusbuf[fr[t].adr] = "writing"
LoadLock ==
  \A t \in Thread : pc[t] = "r_load" => Stored(fr[t].ticket) /\ ch.statusbuf[fr[t].adr] = "reading"

SlotInv ==
  /\ WritersNear /\ ReadersNear /\ ReaderFirst /\ WriterFirst
  /\ SlotHolds /\ SlotFull /\ StoreLock /\ LoadLock

(* A sender or a receiver that is alone has the last ticket. *)
AloneInv ==
  /\ Cardinality(Senders(use)) <= 1 => \A t \in Thread : pc[t] \in Writing => fr[t].ticket = Puts
  /\ Cardinality(Receivers(use)) <= 1 => \A t \in Thread : pc[t] \in Reading => fr[t].ticket = Takes

(* On a buffered channel an address is out only after the mark: its owner sends nothing more. *)
Under == PushLabels \ {"push"}
Lent(a) == ch.write_adr = a \/ \E q \in Thread : pc[q] = "p_copy" /\ fr[q].adr = a
StaleInv == Cap > 0 => \A a \in Thread : Lent(a) => pc[a] \notin Under /\ a \notin Told

RingInv ==
  /\ StaleInv
  /\ Cap > 0 => TicketInv /\ AloneInv
  /\ Cap > 0 /\ InOrder(use) => SlotInv

(* A receive that is on its way out of the ring has the value of its ticket. *)
LoadedInv ==
  \A t \in Thread : InOrder(use) /\ ~ch.closed /\ pc[t] \in {"r_free", "r_writesem", "r_sub"} =>
    fr[t].ticket \in 1 .. Puts /\ obj[t] = hist.order[fr[t].ticket]

-----------------------------------------------------------------------------
(* The hand-over of an unbuffered channel that is open *)

ReaderHand ==
  /\ ch.readsem + Num(ReaderTok) = 1
  /\ ch.write_adr # NULL =>
       /\ pc[ch.write_adr] \in ReaderSec \ {"r_mine"}
       /\ ~fr[ch.write_adr].have_swapped
       /\ ch.adr_written = NULL /\ ch.readsem_im = 0
       /\ \A q \in Thread : pc[q] \notin {"p_copy", "p_publish", "p_post"}
  /\ \A q \in Thread : pc[q] \in {"p_copy", "p_publish", "p_post"} =>
       /\ pc[fr[q].adr] \in ReaderSec \ {"r_mine"}
       /\ ch.readsem_im = 0
       /\ \A p \in Thread : pc[p] \in {"p_copy", "p_publish", "p_post"} => p = q
       /\ pc[q] # "p_post" => ch.adr_written = NULL /\ ~fr[fr[q].adr].have_swapped
       /\ pc[q] = "p_post" => ch.adr_written # NULL \/ fr[fr[q].adr].have_swapped
  /\ ch.adr_written # NULL =>
       ch.adr_written # ClosedMark /\ pc[ch.adr_written] \in ReaderSec /\ ~fr[ch.adr_written].have_swapped
  /\ ch.readsem_im \in {0, 1}
  /\ ch.readsem_im = 1 => \E a \in Thread :
       pc[a] \in ReaderSec \ {"r_mine"} /\ (ch.adr_written = a \/ fr[a].have_swapped)
  /\ \A a \in Thread : pc[a] = "r_mine" =>
       ch.readsem_im = 0 /\ (ch.adr_written = a \/ fr[a].have_swapped)

WriterHand ==
  /\ ch.writesem + Num(WriterTok) = 1
  /\ ch.read_adr # NULL =>
       /\ pc[ch.read_adr] \in WriterSec \ {"p_mine"}
       /\ ~fr[ch.read_adr].have_swapped
       /\ ch.adr_read = NULL /\ ch.writesem_im = 0
       /\ \A q \in Thread : pc[q] \notin {"r_copy", "r_publish", "r_post"}
  /\ \A q \in Thread : pc[q] \in {"r_copy", "r_publish", "r_post"} =>
       /\ pc[fr[q].adr] \in WriterSec \ {"p_mine"}
       /\ ch.writesem_im = 0
       /\ \A p \in Thread : pc[p] \in {"r_copy", "r_publish", "r_post"} => p = q
       /\ pc[q] # "r_post" => ch.adr_read = NULL /\ ~fr[fr[q].adr].have_swapped
       /\ pc[q] = "r_post" => ch.adr_read # NULL \/ fr[fr[q].adr].have_swapped
  /\ ch.adr_read # NULL =>
       pc[ch.adr_read] \in WriterSec /\ ~fr[ch.adr_read].have_swapped
  /\ ch.writesem_im \in {0, 1}
  /\ ch.writesem_im = 1 => \E a \in Thread :
       pc[a] \in WriterSec \ {"p_mine"} /\ (ch.adr_read = a \/ fr[a].have_swapped)
  /\ \A a \in Thread : pc[a] = "p_mine" =>
       ch.writesem_im = 0 /\ (ch.adr_read = a \/ fr[a].have_swapped)

HandInv == Cap = 0 /\ ~ch.closed => ReaderHand /\ WriterHand

-----------------------------------------------------------------------------
(* Types *)

(* What the assumption says of the program that runs. *)
LEMMA UseFacts ==
  ASSUME use \in Uses
  PROVE  /\ Cap \in Nat /\ Slot = 0 .. Cap - 1
         /\ use.may \in [Thread -> SUBSET Ops]
         /\ use.timeouts \subseteq Timeouts
         /\ use.calls \in 0 .. MaxCalls /\ MaxCalls \in Nat
         /\ NULL \notin Thread /\ ClosedMark \notin Thread /\ NULL # ClosedMark
         /\ Thread \subseteq Nat /\ IsFiniteSet(Thread)
BY SyncChanAssumption DEF Cap, Slot, Timeouts, NULL, ClosedMark

(* The parts of struct Channel, one by one. *)
LEMMA ChFacts ==
  ASSUME ch \in ChType
  PROVE  /\ ch.closed \in BOOLEAN /\ ch.close_claimed \in BOOLEAN
         /\ ch.writesem \in Nat /\ ch.readsem \in Nat /\ ch.writesem_im \in Nat /\ ch.readsem_im \in Nat
         /\ ch.write_adr \in Thread \cup {NULL} /\ ch.read_adr \in Thread \cup {NULL}
         /\ ch.adr_read \in Thread \cup {NULL} /\ ch.adr_written \in Thread \cup {NULL, ClosedMark}
         /\ ch.write_free \in Nat /\ ch.read_avail \in Nat
         /\ ch.buf_elem_write_idx \in Nat /\ ch.buf_elem_read_idx \in Nat
         /\ ch.statusbuf \in [Slot -> {"unused", "writing", "written", "reading"}]
         /\ ch.ringbuf \in [Slot -> Value]
BY DEF ChType

(* A call returns: it is idle, and only what the callers were told may change. *)
LEMMA FinishFacts ==
  ASSUME Types, NEW t \in Thread, NEW res \in Results, Finish(t, res)
  PROVE  /\ pc' = [pc EXCEPT ![t] = "idle"]
         /\ fr' = [fr EXCEPT ![t] = Frame0]
         /\ hist' \in HistType
         /\ hist'.order = hist.order /\ hist'.tickets = hist.tickets
         /\ hist'.claims = hist.claims /\ hist'.early = hist.early
         /\ hist'.sent = IF fr[t].op \in PushOps /\ res = "success"
                         THEN hist.sent \cup {obj[t]} ELSE hist.sent
         /\ hist'.refused = IF fr[t].op \in PushOps /\ res # "success"
                            THEN hist.refused \cup {obj[t]} ELSE hist.refused
         /\ hist'.got = IF fr[t].op \in PopOps /\ res = "success"
                        THEN Append(hist.got, obj[t]) ELSE hist.got
         /\ hist'.undrained = (\/ hist.undrained
                               \/ /\ fr[t].op \in PopOps /\ res = "closed"
                                  /\ Cap > 0 /\ hist.claims < Cardinality(hist.early))
<1> DEFINE se == IF fr[t].op \in PushOps /\ res = "success" THEN hist.sent \cup {obj[t]} ELSE hist.sent
           re == IF fr[t].op \in PushOps /\ res # "success" THEN hist.refused \cup {obj[t]} ELSE hist.refused
           go == IF fr[t].op \in PopOps /\ res = "success" THEN Append(hist.got, obj[t]) ELSE hist.got
           un == \/ hist.undrained
                 \/ /\ fr[t].op \in PopOps /\ res = "closed"
                    /\ Cap > 0 /\ hist.claims < Cardinality(hist.early)
<1>1. hist' = [hist EXCEPT !.sent = se, !.refused = re, !.got = go, !.undrained = un]
  BY DEF Finish
<1>2. se \in SUBSET Value /\ re \in SUBSET Value /\ go \in Seq(Value)
  BY DEF Types, HistType
<1>3. un \in BOOLEAN
  OBVIOUS
<1> HIDE DEF se, re, go, un
<1>4. /\ hist' \in HistType
      /\ hist'.order = hist.order /\ hist'.tickets = hist.tickets
      /\ hist'.claims = hist.claims /\ hist'.early = hist.early
      /\ hist'.sent = se /\ hist'.refused = re /\ hist'.got = go /\ hist'.undrained = un
  BY <1>1, <1>2, <1>3 DEF Types, HistType
<1> QED
  BY <1>4 DEF Finish, Goto, se, re, go, un

LEMMA ReturnFacts ==
  ASSUME Types, NEW t \in Thread, NEW res \in Results, Return(t, res)
  PROVE  /\ pc' = [pc EXCEPT ![t] = IF fr[t].op \in SelOps THEN "sel_result" ELSE "idle"]
         /\ fr' \in [Thread -> FrameType]
         /\ \A u \in Thread \ {t} : fr'[u] = fr[u]
         /\ fr[t].op \notin SelOps => fr'[t] = Frame0
         /\ fr[t].op \in SelOps => /\ fr'[t].op = fr[t].op /\ fr'[t].tmo = fr[t].tmo
                                   /\ fr'[t].result = res /\ ~fr'[t].have_swapped
                                   /\ hist' = hist
         /\ hist' \in HistType
         /\ hist'.order = hist.order /\ hist'.tickets = hist.tickets
         /\ hist'.claims = hist.claims /\ hist'.early = hist.early
<1>0. Frame0 \in FrameType
  BY DEF Frame0, FrameType, NULL, Timeouts, Results, Ops, PushOps, PopOps
<1>1. CASE fr[t].op \in SelOps
  <2> DEFINE f == [fr[t] EXCEPT !.result = res, !.have_swapped = FALSE, !.in_progress = FALSE, !.adr = NULL]
  <2>1. fr' = [fr EXCEPT ![t] = f] /\ pc' = [pc EXCEPT ![t] = "sel_result"] /\ hist' = hist
    BY <1>1 DEF Return, Goto
  <2>2. /\ f \in FrameType /\ f.op = fr[t].op /\ f.tmo = fr[t].tmo /\ f.result = res
        /\ ~f.have_swapped
    <3>1. fr[t] \in FrameType
      BY DEF Types
    <3> QED
      BY <3>1 DEF FrameType, NULL
  <2> HIDE DEF f
  <2> QED
    BY <1>1, <2>1, <2>2 DEF Types
<1>2. CASE fr[t].op \notin SelOps
  BY <1>0, <1>2, FinishFacts DEF Return, Types
<1> QED
  BY <1>1, <1>2


(* Thread t goes on at l, with the locals f. *)
Jump(t, l, f) ==
  /\ l \in Labels /\ f \in FrameType
  /\ pc' = [pc EXCEPT ![t] = l]
  /\ fr' = [fr EXCEPT ![t] = f]

(* It stays in the list it is in. *)
StaysIn(t, l, f) ==
  /\ subs' = subs
  /\ \/ pc[t] \in {"idle", "sel"}
     \/ fr[t].op \notin SelOps
     \/ l \notin {"idle", "sel"} /\ f.op = fr[t].op

RestTyped ==
  /\ mtx' \in [Directions -> Thread \cup {NULL}]
  /\ sel' \in [Thread -> [state : {"scanning", "waiting", "claimed", "served"}, sem : Nat]]
  /\ obj' \in [Thread -> Value]
  /\ calls' \in [Thread -> 0 .. MaxCalls]
  /\ hist' \in HistType

(* What most steps leave alone of the channel. *)
ChKept ==
  /\ ch' \in ChType
  /\ ch'.closed = ch.closed /\ ch'.close_claimed = ch.close_claimed
  /\ ch'.buf_elem_write_idx = ch.buf_elem_write_idx /\ ch'.buf_elem_read_idx = ch.buf_elem_read_idx
  /\ ch'.adr_written = ClosedMark => ch.adr_written = ClosedMark

LEMMA JumpFacts ==
  ASSUME Types, NEW t \in Thread, NEW l, NEW f, Jump(t, l, f)
  PROVE  /\ pc' \in [Thread -> Labels] /\ fr' \in [Thread -> FrameType]
         /\ pc'[t] = l /\ fr'[t] = f
         /\ \A u \in Thread : u # t => pc'[u] = pc[u] /\ fr'[u] = fr[u]
<1>1. pc \in [Thread -> Labels] /\ fr \in [Thread -> FrameType]
  BY DEF Types
<1> QED
  BY <1>1 DEF Jump

LEMMA SubsStay ==
  ASSUME TypeInv, NEW t \in Thread, NEW l, NEW f, Jump(t, l, f), StaysIn(t, l, f)
  PROVE  SubsInv'
<1>0. Types
  BY DEF TypeInv
<1>1. \A d \in Directions : subs[d] \in Seq(Thread)
  BY <1>0 DEF Types
<1>2. \A d \in Directions : Range(subs[d]) \subseteq Thread
  BY <1>1, RangeFacts
<1>3. ASSUME NEW d \in Directions, NEW s \in Range(subs[d])
      PROVE  pc'[s] \notin {"idle", "sel"} /\ fr'[s].op = SelOf(d)
  <2>1. s \in Thread /\ pc[s] \notin {"idle", "sel"} /\ fr[s].op = SelOf(d)
    BY <1>2 DEF TypeInv, SubsInv
  <2>2. fr[s].op \in SelOps
    BY <2>1 DEF SelOf, SelOps
  <2>3. CASE s = t
    BY <1>0, <2>1, <2>2, <2>3, JumpFacts DEF StaysIn
  <2>4. CASE s # t
    BY <1>0, <2>1, <2>4, JumpFacts
  <2> QED
    BY <2>3, <2>4
<1> QED
  BY <1>3 DEF SubsInv, StaysIn, TypeInv

(* A step whose thread is where it may be, and that keeps the lists. *)
LEMMA JumpFits ==
  ASSUME TypeInv, use' = use, NEW t \in Thread, NEW l, NEW f,
         Jump(t, l, f), StaysIn(t, l, f), PlaceAt(t, l, f), RestTyped,
         ch' \in ChType, CloseInv', IndexInv'
  PROVE  TypeInv'
<1>0. Types
  BY DEF TypeInv
<1>1. Cap' = Cap /\ Slot' = Slot
  BY DEF Cap, Slot
<1>2. PlaceInv'
  <2>1. ASSUME NEW u \in Thread PROVE PlaceAt(u, pc'[u], fr'[u])
    <3>1. CASE u = t
      BY <1>0, <3>1, JumpFacts
    <3>2. CASE u # t
      <4>1. PlaceAt(u, pc[u], fr[u])
        BY DEF TypeInv, PlaceInv
      <4> QED
        BY <1>0, <3>2, <4>1, JumpFacts
    <3> QED
      BY <3>1, <3>2
  <2> QED
    BY <1>1, <2>1 DEF PlaceInv, PlaceAt
<1>3. ChType' = ChType
  BY <1>1 DEF ChType
<1>4. Types'
  <2>1. pc' \in [Thread -> Labels] /\ fr' \in [Thread -> FrameType]
    BY <1>0, JumpFacts
  <2>2. use' \in Uses /\ subs' \in [Directions -> Seq(Thread)]
    BY <1>0 DEF Types, StaysIn
  <2> QED
    BY <1>3, <2>1, <2>2 DEF Types, RestTyped
<1> QED
  BY <1>2, <1>4, SubsStay DEF TypeInv

(* Nothing about the closing of the channel changes, nor the indices of the ring. *)
LEMMA KeepFits ==
  ASSUME TypeInv, use' = use, NEW t \in Thread, NEW l, NEW f,
         Jump(t, l, f), StaysIn(t, l, f), PlaceAt(t, l, f), RestTyped, ChKept,
         l \in Closing => pc[t] \in Closing,
         l \in CloseLabels => l = "close" \/ pc[t] \in CloseLabels \ {"close"}
  PROVE  TypeInv'
<1>0. Types /\ CloseInv /\ IndexInv
  BY DEF TypeInv
<1>1. Cap' = Cap /\ Slot' = Slot
  BY DEF Cap, Slot
<1>2. CloseInv'
  <2>1. \A u \in Thread : pc'[u] \in Closing => pc[u] \in Closing
    BY <1>0, JumpFacts
  <2>2. \A u \in Thread : pc'[u] \in CloseLabels \ {"close"} => pc[u] \in CloseLabels \ {"close"}
    BY <1>0, JumpFacts
  <2>3. Closers(use)' = Closers(use)
    BY DEF Closers
  <2> QED
    BY <1>0, <2>1, <2>2, <2>3 DEF CloseInv, ChKept
<1>3. IndexInv'
  BY <1>0, <1>1 DEF IndexInv, ChKept
<1> QED
  BY <1>2, <1>3, JumpFits DEF ChKept


(* Steps that change nothing but the channel, the place and the locals of their thread. *)
LEMMA StillTyped ==
  ASSUME TypeInv, UNCHANGED <<mtx, sel, obj, calls, hist>>
  PROVE  RestTyped
BY DEF TypeInv, Types, RestTyped

LEMMA SameCh ==
  ASSUME TypeInv, UNCHANGED ch
  PROVE  ChKept
BY DEF TypeInv, Types, ChKept

(* A step to another label with the locals as they are. *)
LEMMA GoFits ==
  ASSUME TypeInv, use' = use, NEW t \in Thread, NEW l \in Labels,
         pc' = [pc EXCEPT ![t] = l], UNCHANGED <<subs, fr>>, RestTyped, ChKept,
         PlaceAt(t, l, fr[t]), l \notin {"idle", "sel"},
         l \in CloseLabels => pc[t] \in CloseLabels \ {"close"},
         l \in Closing => pc[t] \in Closing
  PROVE  TypeInv'
<1>1. fr \in [Thread -> FrameType] /\ fr[t] \in FrameType
  BY DEF TypeInv, Types
<1>2. Jump(t, l, fr[t])
  BY <1>1 DEF Jump
<1>3. StaysIn(t, l, fr[t])
  BY DEF StaysIn
<1> QED
  BY <1>2, <1>3, KeepFits

(* A step to another label with new locals, in the same call. *)
LEMMA LocalFits ==
  ASSUME TypeInv, use' = use, NEW t \in Thread, NEW l \in Labels, NEW f \in FrameType,
         pc' = [pc EXCEPT ![t] = l], fr' = [fr EXCEPT ![t] = f],
         UNCHANGED subs, RestTyped, ChKept,
         f.op = fr[t].op, PlaceAt(t, l, f), l \notin {"idle", "sel"} \cup CloseLabels
  PROVE  TypeInv'
<1>1. Jump(t, l, f) /\ StaysIn(t, l, f)
  BY DEF Jump, StaysIn
<1>2. l \notin Closing
  BY DEF Closing, CloseLabels
<1> QED
  BY <1>1, <1>2, KeepFits

(* A return to the caller or to the select. *)
LEMMA ReturnFits ==
  ASSUME TypeInv, use' = use, NEW t \in Thread, NEW res \in Results, Return(t, res),
         pc[t] \in PushLabels \cup PopLabels \cup ToSelLabels, UNCHANGED <<subs, calls>>, ChKept,
         mtx' \in [Directions -> Thread \cup {NULL}],
         sel' \in [Thread -> [state : {"scanning", "waiting", "claimed", "served"}, sem : Nat]],
         obj' \in [Thread -> Value]
  PROVE  TypeInv'
<1> DEFINE l == IF fr[t].op \in SelOps THEN "sel_result" ELSE "idle"
<1>0. Types /\ PlaceAt(t, pc[t], fr[t]) /\ fr \in [Thread -> FrameType] /\ calls \in [Thread -> 0 .. MaxCalls]
  BY DEF TypeInv, PlaceInv, Types
<1>1. /\ pc' = [pc EXCEPT ![t] = l] /\ hist' \in HistType
      /\ fr'[t] \in FrameType /\ \A u \in Thread \ {t} : fr'[u] = fr[u]
      /\ fr' \in [Thread -> FrameType]
  BY <1>0, ReturnFacts
<1>2. Jump(t, l, fr'[t])
  <2>1. fr' = [fr EXCEPT ![t] = fr'[t]]
    BY <1>0, <1>1
  <2> QED
    BY <1>1, <2>1 DEF Jump, Labels
<1>3. StaysIn(t, l, fr'[t])
  BY <1>0, ReturnFacts DEF StaysIn
<1>4. pc[t] # "idle"
  BY DEF PushLabels, PopLabels, ToSelLabels, WriterSec, ReaderSec
<1>5. PlaceAt(t, l, fr'[t])
  <2>1. CASE fr[t].op \in SelOps
    <3>1. /\ fr'[t].op = fr[t].op /\ fr'[t].tmo = fr[t].tmo /\ ~fr'[t].have_swapped
          /\ l = "sel_result"
      BY <1>0, <2>1, ReturnFacts
    <3>2. fr[t].op \in use.may[t] /\ fr[t].tmo \in use.timeouts \cup {"inf"}
      BY <1>0, <1>4 DEF PlaceAt
    <3> HIDE DEF l
    <3> QED
      BY <2>1, <3>1, <3>2 DEF PlaceAt, PushLabels, PopLabels, CloseLabels, ToSelLabels, WriterSec, ReaderSec
  <2>2. CASE fr[t].op \notin SelOps
    <3>1. fr'[t] = Frame0 /\ l = "idle"
      BY <1>0, <2>2, ReturnFacts
    <3> HIDE DEF l
    <3> QED
      BY <3>1 DEF PlaceAt, Frame0, PushLabels, PopLabels, CloseLabels, SelLabels, WaitLabels, ToSelLabels,
                  WriterSec, ReaderSec
  <2> QED
    BY <2>1, <2>2
<1>6. l \notin CloseLabels /\ l \notin Closing
  BY DEF CloseLabels, Closing
<1>7. RestTyped
  BY <1>0, <1>1 DEF RestTyped
<1> HIDE DEF l
<1> QED
  BY <1>2, <1>3, <1>5, <1>6, <1>7, KeepFits

(* Posting the first select of a list. *)
LEMMA PostTyped ==
  ASSUME TypeInv, NEW d \in Directions, PostFirst(d)
  PROVE  /\ sel' \in [Thread -> [state : {"scanning", "waiting", "claimed", "served"}, sem : Nat]]
         /\ \A s \in Thread : sel'[s].state = sel[s].state
<1>1. /\ sel \in [Thread -> [state : {"scanning", "waiting", "claimed", "served"}, sem : Nat]]
      /\ subs[d] \in Seq(Thread)
  BY DEF TypeInv, Types
<1>2. CASE subs[d] = <<>>
  BY <1>1, <1>2 DEF PostFirst
<1>3. CASE subs[d] # <<>>
  <2> DEFINE s == Head(subs[d])
             e == [sel[s] EXCEPT !.sem = @ + 1]
  <2>1. s \in Thread
    BY <1>1, <1>3, HeadTailFacts
  <2>2. sel' = [sel EXCEPT ![s] = e]
    BY <1>3, <1>1, <2>1 DEF PostFirst
  <2>3. e \in [state : {"scanning", "waiting", "claimed", "served"}, sem : Nat] /\ e.state = sel[s].state
    <3> HIDE DEF s
    <3>1. sel[s] \in [state : {"scanning", "waiting", "claimed", "served"}, sem : Nat]
      BY <1>1, <2>1
    <3> QED
      BY <3>1
  <2> HIDE DEF s, e
  <2> QED
    BY <1>1, <2>1, <2>2, <2>3
<1> QED
  BY <1>2, <1>3


(* The order of the reservations grows. *)
LEMMA OrderTyped ==
  ASSUME hist \in HistType, NEW v \in Value, hist' = [hist EXCEPT !.order = Append(@, v)]
  PROVE  hist' \in HistType
<1> DEFINE o == Append(hist.order, v)
<1>1. o \in Seq(Value) /\ hist' = [hist EXCEPT !.order = o]
  BY DEF HistType
<1> HIDE DEF o
<1> QED
  BY <1>1 DEF HistType

LEMMA TicketsTyped ==
  ASSUME hist \in HistType, hist' = [hist EXCEPT !.tickets = @ + 1]
  PROVE  hist' \in HistType
<1> DEFINE n == hist.tickets + 1
<1>1. n \in Nat /\ hist' = [hist EXCEPT !.tickets = n]
  BY DEF HistType
<1> HIDE DEF n
<1> QED
  BY <1>1 DEF HistType

(* A return that changes nothing else. *)
LEMMA ReturnStill ==
  ASSUME TypeInv, use' = use, NEW t \in Thread, NEW res \in Results, Return(t, res),
         pc[t] \in PushLabels \cup PopLabels \cup ToSelLabels,
         UNCHANGED <<subs, mtx, sel, obj, calls>>, ChKept
  PROVE  TypeInv'
<1>1. /\ mtx' \in [Directions -> Thread \cup {NULL}]
      /\ sel' \in [Thread -> [state : {"scanning", "waiting", "claimed", "served"}, sem : Nat]]
      /\ obj' \in [Thread -> Value]
  BY DEF TypeInv, Types
<1> QED
  BY <1>1, ReturnFits

(* One object gets another value. *)
LEMMA CopyTyped ==
  ASSUME TypeInv, NEW a \in Thread, NEW v \in Value, obj' = [obj EXCEPT ![a] = v],
         UNCHANGED <<mtx, sel, calls, hist>>
  PROVE  RestTyped
BY DEF TypeInv, Types, RestTyped

(* try_push_impl until it has a token or has handed its value over. *)
LEMMA PushEntryTyped ==
  ASSUME TypeInv, use' = use, NEW t \in Thread, PushStart(t) \/ PushTakes(t) \/ PushCopies(t) \/ PushPublishes(t) \/ PushPosts(t)
         \/ PushNoReader(t) \/ PushToken(t) \/ PushNoToken(t) \/ PushAfterToken(t)
  PROVE  TypeInv'
<1>0. /\ ch \in ChType /\ fr[t] \in FrameType /\ fr \in [Thread -> FrameType]
      /\ obj \in [Thread -> Value] /\ use \in Uses /\ PlaceAt(t, pc[t], fr[t])
  BY DEF TypeInv, Types, PlaceInv
<1> USE DEF PushLabels, PopLabels, CloseLabels, SelLabels, WaitLabels, ToSelLabels, WriterSec, ReaderSec
<1>1. CASE PushStart(t)
  <2>1. CASE ch.closed
    <3>1. ChKept
      BY <1>0, <1>1, <2>1, SameCh DEF PushStart, ChType, ChKept
    <3>2. UNCHANGED <<subs, mtx, sel, obj, calls>> /\ Return(t, "closed")
      BY <1>1, <2>1 DEF PushStart, selVars
    <3>3. pc[t] \in PushLabels \cup PopLabels \cup ToSelLabels /\ "closed" \in Results
      BY <1>1 DEF PushStart, At, Results
    <3> QED
      BY <3>1, <3>2, <3>3, ReturnStill
  <2>2. CASE ~ch.closed
    <3>1. PlaceAt(t, "p_adr", fr[t]) /\ "p_adr" \in Labels \ {"idle", "sel"}
      BY <1>0, <1>1, <2>2, UseFacts DEF PushStart, At, PlaceAt, Labels
    <3>2. ChKept
      BY <1>0, <1>1, <2>2, SameCh DEF PushStart, ChType, ChKept
    <3>3. /\ pc' = [pc EXCEPT ![t] = "p_adr"] /\ UNCHANGED <<subs, mtx, sel, fr, obj, calls, hist>>
          /\ "p_adr" \notin CloseLabels
      BY <1>1, <2>2 DEF PushStart, Goto, selVars
    <3> QED
      BY <3>1, <3>2, <3>3, StillTyped, GoFits DEF Closing
  <2> QED
    BY <2>1, <2>2
<1>2. CASE PushTakes(t)
  <2> DEFINE f == [fr[t] EXCEPT !.adr = ch.write_adr]
  <2>1. ch.write_adr \in Thread /\ ch.write_adr \in Nat
    BY <1>0, <1>2, SyncChanAssumption DEF PushTakes, ChType, NULL
  <2>2. f \in FrameType /\ f.adr = ch.write_adr /\ f.op = fr[t].op /\ f.tmo = fr[t].tmo
        /\ f.have_swapped = fr[t].have_swapped
    BY <1>0, <2>1 DEF FrameType
  <2>3. fr' = [fr EXCEPT ![t] = f] /\ pc' = [pc EXCEPT ![t] = "p_copy"]
    BY <1>0, <1>2 DEF PushTakes, Goto
  <2> HIDE DEF f
  <2>4. PlaceAt(t, "p_copy", f) /\ "p_copy" \in Labels
    BY <1>0, <1>2, <2>1, <2>2 DEF PlaceAt, PushTakes, At, Labels
  <2>5. ChKept
    BY <1>0, <1>2 DEF PushTakes, ChType, ChKept, NULL, ClosedMark
  <2> QED
    BY <1>2, <2>2, <2>3, <2>4, <2>5, StillTyped, LocalFits DEF PushTakes, selVars
<1>3. CASE PushCopies(t)
  <2>1. PlaceAt(t, "p_publish", fr[t]) /\ "p_publish" \in Labels \ {"idle", "sel"} /\ fr[t].adr \in Thread
    BY <1>0, <1>3 DEF PushCopies, At, PlaceAt, Labels
  <2>2. RestTyped
    BY <1>0, <1>3, <2>1, CopyTyped DEF PushCopies, selVars
  <2> QED
    BY <1>3, <2>1, <2>2, SameCh, GoFits DEF PushCopies, Goto, At, selVars, Closing
<1>4. CASE PushPublishes(t)
  <2>1. PlaceAt(t, "p_post", fr[t]) /\ "p_post" \in Labels \ {"idle", "sel"} /\ fr[t].adr \in Thread
    BY <1>0, <1>4 DEF PushPublishes, At, PlaceAt, Labels
  <2>2. ChKept
    BY <1>0, <1>4, <2>1, SyncChanAssumption DEF PushPublishes, ChType, ChKept, ClosedMark
  <2> QED
    BY <1>4, <2>1, <2>2, StillTyped, GoFits DEF PushPublishes, Goto, At, selVars, Closing
<1>5. CASE PushPosts(t)
  <2>1. ChKept
    BY <1>0, <1>5, SameCh DEF PushPosts, ChType, ChKept
  <2>2. UNCHANGED <<subs, mtx, sel, obj, calls>> /\ Return(t, "success")
    BY <1>5 DEF PushPosts, selVars
  <2>3. pc[t] \in PushLabels \cup PopLabels \cup ToSelLabels /\ "success" \in Results
    BY <1>5 DEF PushPosts, At, Results
  <2> QED
    BY <2>1, <2>2, <2>3, ReturnStill
<1>6. CASE PushNoReader(t)
  <2>1. CASE NoBlock(t) /\ Cap = 0
    <3>1. PlaceAt(t, "to_select", fr[t]) /\ "to_select" \in Labels \ {"idle", "sel"}
      BY <1>0, <1>6, <2>1, UseFacts DEF PushNoReader, At, PlaceAt, Labels, NoBlock, PushOps, PopOps, SelOps
    <3>2. ChKept
      BY <1>0, <1>6, <2>1, SameCh DEF PushNoReader, ChType, ChKept
    <3>3. /\ pc' = [pc EXCEPT ![t] = "to_select"] /\ UNCHANGED <<subs, mtx, sel, fr, obj, calls, hist>>
          /\ "to_select" \notin CloseLabels
      BY <1>6, <2>1 DEF PushNoReader, Goto, selVars
    <3> QED
      BY <3>1, <3>2, <3>3, StillTyped, GoFits DEF Closing
  <2>2. CASE ~(NoBlock(t) /\ Cap = 0)
    <3>1. PlaceAt(t, "p_sem", fr[t]) /\ "p_sem" \in Labels \ {"idle", "sel"}
      BY <1>0, <1>6, <2>2, UseFacts DEF PushNoReader, At, PlaceAt, Labels, NoBlock, PushOps, PopOps, SelOps
    <3>2. ChKept
      BY <1>0, <1>6, <2>2, SameCh DEF PushNoReader, ChType, ChKept
    <3>3. /\ pc' = [pc EXCEPT ![t] = "p_sem"] /\ UNCHANGED <<subs, mtx, sel, fr, obj, calls, hist>>
          /\ "p_sem" \notin CloseLabels
      BY <1>6, <2>2 DEF PushNoReader, Goto, selVars
    <3> QED
      BY <3>1, <3>2, <3>3, StillTyped, GoFits DEF Closing
  <2> QED
    BY <2>1, <2>2
<1>7. CASE PushToken(t)
  <2>1. PlaceAt(t, "p_closed", fr[t]) /\ "p_closed" \in Labels \ {"idle", "sel"}
    BY <1>0, <1>7 DEF PushToken, At, PlaceAt, Labels
  <2>2. ChKept
    BY <1>0, <1>7 DEF PushToken, ChType, ChKept, NULL, ClosedMark
  <2> QED
    BY <1>7, <2>1, <2>2, StillTyped, GoFits DEF PushToken, Goto, At, selVars, Closing
<1>8. CASE PushNoToken(t)
  <2>1. ChKept
    BY <1>0, <1>8, SameCh DEF PushNoToken, ChType, ChKept
  <2>2. UNCHANGED <<subs, mtx, sel, obj, calls>> /\ Return(t, "not_ready")
    BY <1>8 DEF PushNoToken, selVars
  <2>3. pc[t] \in PushLabels \cup PopLabels \cup ToSelLabels /\ "not_ready" \in Results
    BY <1>8 DEF PushNoToken, At, Results
  <2> QED
    BY <2>1, <2>2, <2>3, ReturnStill
<1>9. CASE PushAfterToken(t)
  <2>1. CASE ch.closed
    <3>1. ChKept
      <4>1. ch' = [ch EXCEPT !.writesem = @ + 1]
        BY <1>9, <2>1 DEF PushAfterToken
      <4> QED
        BY <1>0, <4>1 DEF ChType, ChKept
    <3>2. UNCHANGED <<subs, mtx, sel, obj, calls>> /\ Return(t, "closed")
      BY <1>9, <2>1 DEF PushAfterToken, selVars
    <3>3. pc[t] \in PushLabels \cup PopLabels \cup ToSelLabels /\ "closed" \in Results
      BY <1>9 DEF PushAfterToken, At, Results
    <3> QED
      BY <3>1, <3>2, <3>3, ReturnStill
  <2>2. CASE ~ch.closed /\ Cap = 0
    <3>1. PlaceAt(t, "p_adv", fr[t]) /\ "p_adv" \in Labels \ {"idle", "sel"}
      BY <1>0, <1>9, <2>2, UseFacts DEF PushAfterToken, At, PlaceAt, Labels
    <3>2. ChKept
      BY <1>0, <1>9, <2>2, SameCh DEF PushAfterToken, ChType, ChKept
    <3>3. /\ pc' = [pc EXCEPT ![t] = "p_adv"] /\ UNCHANGED <<subs, mtx, sel, fr, obj, calls, hist>>
          /\ "p_adv" \notin CloseLabels
      BY <1>9, <2>2 DEF PushAfterToken, Goto, selVars
    <3> QED
      BY <3>1, <3>2, <3>3, StillTyped, GoFits DEF Closing
  <2>3. CASE ~ch.closed /\ Cap # 0
    <3>1. PlaceAt(t, "p_free", fr[t]) /\ "p_free" \in Labels \ {"idle", "sel"}
      BY <1>0, <1>9, <2>3, UseFacts DEF PushAfterToken, At, PlaceAt, Labels
    <3>2. ChKept
      BY <1>0, <1>9, <2>3, SameCh DEF PushAfterToken, ChType, ChKept
    <3>3. /\ pc' = [pc EXCEPT ![t] = "p_free"] /\ UNCHANGED <<subs, mtx, sel, fr, obj, calls, hist>>
          /\ "p_free" \notin CloseLabels
      BY <1>9, <2>3 DEF PushAfterToken, Goto, selVars
    <3> QED
      BY <3>1, <3>2, <3>3, StillTyped, GoFits DEF Closing
  <2> QED
    BY <2>1, <2>2, <2>3
<1> QED
  BY <1>1, <1>2, <1>3, <1>4, <1>5, <1>6, <1>7, <1>8, <1>9

(* try_push_impl on an unbuffered channel. *)
LEMMA PushUnbufferedTyped ==
  ASSUME TypeInv, use' = use, NEW t \in Thread, push_unbuffered(t)
  PROVE  TypeInv'
<1>0. /\ ch \in ChType /\ fr[t] \in FrameType /\ fr \in [Thread -> FrameType]
      /\ obj \in [Thread -> Value] /\ use \in Uses /\ PlaceAt(t, pc[t], fr[t])
  BY DEF TypeInv, Types, PlaceInv
<1> USE DEF PushLabels, PopLabels, CloseLabels, SelLabels, WaitLabels, ToSelLabels, WriterSec, ReaderSec
<1>1. CASE PushAdvertises(t)
  <2>1. PlaceAt(t, "p_check", fr[t]) /\ "p_check" \in Labels \ {"idle", "sel"}
    BY <1>0, <1>1 DEF PushAdvertises, At, PlaceAt, Labels
  <2>2. ChKept
    BY <1>0, <1>1 DEF PushAdvertises, ChType, ChKept, NULL, ClosedMark
  <2> QED
    BY <1>1, <2>1, <2>2, StillTyped, GoFits DEF PushAdvertises, Goto, At, selVars, Closing
<1>2. CASE PushChecks(t)
  <2>1. CASE ch.write_adr # NULL
    <3>1. PlaceAt(t, "p_retract", fr[t]) /\ "p_retract" \in Labels \ {"idle", "sel"}
      BY <1>0, <1>2, <2>1, UseFacts DEF PushChecks, At, PlaceAt, Labels
    <3>2. ChKept
      BY <1>0, <1>2, <2>1, SameCh DEF PushChecks, ChType, ChKept
    <3>3. /\ pc' = [pc EXCEPT ![t] = "p_retract"] /\ UNCHANGED <<subs, mtx, sel, fr, obj, calls, hist>>
          /\ "p_retract" \notin CloseLabels
      BY <1>2, <2>1 DEF PushChecks, Goto, selVars
    <3> QED
      BY <3>1, <3>2, <3>3, StillTyped, GoFits DEF Closing
  <2>2. CASE ch.write_adr = NULL
    <3>1. PlaceAt(t, "p_note", fr[t]) /\ "p_note" \in Labels \ {"idle", "sel"}
      BY <1>0, <1>2, <2>2, UseFacts DEF PushChecks, At, PlaceAt, Labels
    <3>2. ChKept
      BY <1>0, <1>2, <2>2, SameCh DEF PushChecks, ChType, ChKept
    <3>3. /\ pc' = [pc EXCEPT ![t] = "p_note"] /\ UNCHANGED <<subs, mtx, sel, fr, obj, calls, hist>>
          /\ "p_note" \notin CloseLabels
      BY <1>2, <2>2 DEF PushChecks, Goto, selVars
    <3> QED
      BY <3>1, <3>2, <3>3, StillTyped, GoFits DEF Closing
  <2> QED
    BY <2>1, <2>2
<1>3. CASE PushRetracts(t)
  <2>1. CASE ch.read_adr = t
    <3>1. PlaceAt(t, "p_adr", fr[t]) /\ "p_adr" \in Labels \ {"idle", "sel"}
      BY <1>0, <1>3 DEF PushRetracts, At, PlaceAt, Labels
    <3>2. ChKept
      <4> DEFINE n == ch.writesem + 1
      <4>1. ch' = [ch EXCEPT !.read_adr = NULL, !.writesem = n] /\ n \in Nat
        BY <1>0, <1>3, <2>1 DEF PushRetracts, ChType
      <4> HIDE DEF n
      <4> QED
        BY <1>0, <4>1 DEF ChType, ChKept
    <3>3. /\ pc' = [pc EXCEPT ![t] = "p_adr"] /\ UNCHANGED <<subs, mtx, sel, fr, obj, calls, hist>>
          /\ "p_adr" \notin CloseLabels
      BY <1>3, <2>1 DEF PushRetracts, Goto, selVars
    <3> QED
      BY <3>1, <3>2, <3>3, StillTyped, GoFits DEF Closing
  <2>2. CASE ch.read_adr # t
    <3> DEFINE f == [fr[t] EXCEPT !.in_progress = TRUE]
    <3>1. f \in FrameType /\ f.adr = fr[t].adr /\ f.op = fr[t].op /\ f.tmo = fr[t].tmo
          /\ f.have_swapped = fr[t].have_swapped
      BY <1>0 DEF FrameType
    <3>2. fr' = [fr EXCEPT ![t] = f] /\ pc' = [pc EXCEPT ![t] = "p_await"]
      BY <1>0, <1>3, <2>2 DEF PushRetracts, Goto
    <3> HIDE DEF f
    <3>3. PlaceAt(t, "p_await", f) /\ "p_await" \in Labels
      BY <1>0, <1>3, <3>1 DEF PlaceAt, PushRetracts, At, Labels
    <3>4. ChKept
      BY <1>0, <1>3, <2>2, SameCh DEF PushRetracts, ChType, ChKept, NULL, ClosedMark
    <3>5. UNCHANGED <<subs, mtx, sel, obj, calls, hist>>
      BY <1>3, <2>2 DEF PushRetracts, selVars
    <3> QED
      BY <3>1, <3>2, <3>3, <3>4, <3>5, StillTyped, LocalFits
  <2> QED
    BY <2>1, <2>2
<1>4. CASE PushNotifies(t)
  <2>1. PlaceAt(t, "p_await", fr[t]) /\ "p_await" \in Labels \ {"idle", "sel"}
    BY <1>0, <1>4 DEF PushNotifies, At, PlaceAt, Labels
  <2>2. RestTyped
    BY <1>4, PostTyped DEF PushNotifies, RestTyped, TypeInv, Types, Directions
  <2> QED
    BY <1>4, <2>1, <2>2, SameCh, GoFits DEF PushNotifies, Goto, At, Closing
<1>5. CASE PushAwaits(t)
  <2>1. CASE ch.adr_read = t
    <3> DEFINE f == [fr[t] EXCEPT !.have_swapped = TRUE, !.in_progress = TRUE]
    <3>1. f \in FrameType /\ f.adr = fr[t].adr /\ f.op = fr[t].op /\ f.tmo = fr[t].tmo
          /\ f.have_swapped = TRUE
      BY <1>0 DEF FrameType
    <3>2. fr' = [fr EXCEPT ![t] = f] /\ pc' = [pc EXCEPT ![t] = "p_im"]
      BY <1>0, <1>5, <2>1 DEF PushAwaits, Goto
    <3> HIDE DEF f
    <3>3. PlaceAt(t, "p_im", f) /\ "p_im" \in Labels
      BY <1>0, <1>5, <3>1 DEF PlaceAt, PushAwaits, At, Labels
    <3>4. ChKept
      BY <1>0, <1>5, <2>1, SameCh DEF PushAwaits, ChType, ChKept, NULL, ClosedMark
    <3>5. UNCHANGED <<subs, mtx, sel, obj, calls, hist>>
      BY <1>5, <2>1 DEF PushAwaits, selVars
    <3> QED
      BY <3>1, <3>2, <3>3, <3>4, <3>5, StillTyped, LocalFits
  <2>2. CASE ch.adr_read # t
    <3>1. PlaceAt(t, "p_im", fr[t]) /\ "p_im" \in Labels \ {"idle", "sel"}
      BY <1>0, <1>5, <2>2, UseFacts DEF PushAwaits, At, PlaceAt, Labels
    <3>2. ChKept
      BY <1>0, <1>5, <2>2, SameCh DEF PushAwaits, ChType, ChKept
    <3>3. /\ pc' = [pc EXCEPT ![t] = "p_im"] /\ UNCHANGED <<subs, mtx, sel, fr, obj, calls, hist>>
          /\ "p_im" \notin CloseLabels
      BY <1>5, <2>2 DEF PushAwaits, Goto, selVars
    <3> QED
      BY <3>1, <3>2, <3>3, StillTyped, GoFits DEF Closing
  <2> QED
    BY <2>1, <2>2
<1>6. CASE PushImSem(t)
  <2>1. PlaceAt(t, "p_mine", fr[t]) /\ "p_mine" \in Labels \ {"idle", "sel"}
    BY <1>0, <1>6 DEF PushImSem, At, PlaceAt, Labels
  <2>2. ChKept
    BY <1>0, <1>6 DEF PushImSem, ChType, ChKept, NULL, ClosedMark
  <2> QED
    BY <1>6, <2>1, <2>2, StillTyped, GoFits DEF PushImSem, Goto, At, selVars, Closing
<1>7. CASE PushIsMine(t)
  <2>1. CASE fr[t].have_swapped \/ ch.adr_read = t
    <3>1. ChKept
      BY <1>0, <1>7, <2>1 DEF PushIsMine, Collect, ChType, ChKept
    <3>2. UNCHANGED <<subs, mtx, sel, obj, calls>> /\ Return(t, "success")
      BY <1>7, <2>1 DEF PushIsMine, selVars
    <3>3. pc[t] \in PushLabels \cup PopLabels \cup ToSelLabels /\ "success" \in Results
      BY <1>7 DEF PushIsMine, At, Results
    <3> QED
      BY <3>1, <3>2, <3>3, ReturnStill
  <2>2. CASE ~(fr[t].have_swapped \/ ch.adr_read = t) /\ ch.closed
    <3>1. ChKept
      BY <1>0, <1>7, <2>2, SameCh DEF PushIsMine, ChType, ChKept
    <3>2. UNCHANGED <<subs, mtx, sel, obj, calls>> /\ Return(t, "closed")
      BY <1>7, <2>2 DEF PushIsMine, selVars
    <3>3. pc[t] \in PushLabels \cup PopLabels \cup ToSelLabels /\ "closed" \in Results
      BY <1>7 DEF PushIsMine, At, Results
    <3> QED
      BY <3>1, <3>2, <3>3, ReturnStill
  <2>3. CASE ~(fr[t].have_swapped \/ ch.adr_read = t) /\ ~ch.closed
    <3>1. PlaceAt(t, "p_im", fr[t]) /\ "p_im" \in Labels \ {"idle", "sel"}
      BY <1>0, <1>7, <2>3, UseFacts DEF PushIsMine, At, PlaceAt, Labels
    <3>2. ChKept
      BY <1>0, <1>7, <2>3, SameCh DEF PushIsMine, ChType, ChKept
    <3>3. /\ pc' = [pc EXCEPT ![t] = "p_im"] /\ UNCHANGED <<subs, mtx, sel, fr, obj, calls, hist>>
          /\ "p_im" \notin CloseLabels
      BY <1>7, <2>3 DEF PushIsMine, Goto, selVars
    <3> QED
      BY <3>1, <3>2, <3>3, StillTyped, GoFits DEF Closing
  <2> QED
    BY <2>1, <2>2, <2>3
<1> QED
  BY <1>1, <1>2, <1>3, <1>4, <1>5, <1>6, <1>7 DEF push_unbuffered

(* try_push_impl on a buffered channel. *)
LEMMA PushBufferedTyped ==
  ASSUME TypeInv, use' = use, NEW t \in Thread, push_buffered(t)
  PROVE  TypeInv'
<1>0. /\ ch \in ChType /\ fr[t] \in FrameType /\ fr \in [Thread -> FrameType]
      /\ obj \in [Thread -> Value] /\ use \in Uses /\ PlaceAt(t, pc[t], fr[t])
  BY DEF TypeInv, Types, PlaceInv
<1> USE DEF PushLabels, PopLabels, CloseLabels, SelLabels, WaitLabels, ToSelLabels, WriterSec, ReaderSec
<1>1. CASE PushReserves(t)
  <2>1. CASE ch.write_free > 0
    <3>1. PlaceAt(t, "p_idx", fr[t]) /\ "p_idx" \in Labels \ {"idle", "sel"}
      BY <1>0, <1>1, <2>1, UseFacts DEF PushReserves, At, PlaceAt, Labels
    <3>2. ChKept
      BY <1>0, <1>1, <2>1, SameCh DEF PushReserves, ChType, ChKept
    <3>3. /\ pc' = [pc EXCEPT ![t] = "p_idx"] /\ UNCHANGED <<subs, mtx, sel, fr, obj, calls, hist>>
          /\ "p_idx" \notin CloseLabels
      BY <1>1, <2>1 DEF PushReserves, Goto, selVars
    <3> QED
      BY <3>1, <3>2, <3>3, StillTyped, GoFits DEF Closing
  <2>2. CASE ~(ch.write_free > 0) /\ NoBlock(t)
    <3>1. ChKept
      BY <1>0, <1>1, <2>2, SameCh DEF PushReserves, ChType, ChKept
    <3>2. UNCHANGED <<subs, mtx, sel, obj, calls>> /\ Return(t, "not_ready")
      BY <1>1, <2>2 DEF PushReserves, selVars
    <3>3. pc[t] \in PushLabels \cup PopLabels \cup ToSelLabels /\ "not_ready" \in Results
      BY <1>1 DEF PushReserves, At, Results
    <3> QED
      BY <3>1, <3>2, <3>3, ReturnStill
  <2>3. CASE ~(ch.write_free > 0) /\ ~NoBlock(t)
    <3>1. PlaceAt(t, "p_adr", fr[t]) /\ "p_adr" \in Labels \ {"idle", "sel"}
      BY <1>0, <1>1, <2>3, UseFacts DEF PushReserves, At, PlaceAt, Labels, NoBlock, PushOps, PopOps, SelOps
    <3>2. ChKept
      BY <1>0, <1>1, <2>3, SameCh DEF PushReserves, ChType, ChKept
    <3>3. /\ pc' = [pc EXCEPT ![t] = "p_adr"] /\ UNCHANGED <<subs, mtx, sel, fr, obj, calls, hist>>
          /\ "p_adr" \notin CloseLabels
      BY <1>1, <2>3 DEF PushReserves, Goto, selVars
    <3> QED
      BY <3>1, <3>2, <3>3, StillTyped, GoFits DEF Closing
  <2> QED
    BY <2>1, <2>2, <2>3
<1>2. CASE PushIndex(t)
  <2> DEFINE f == [fr[t] EXCEPT !.adr = ch.buf_elem_write_idx, !.ticket = Len(hist.order) + 1]
             i == (ch.buf_elem_write_idx + 1) % Cap
  <2>1. Cap \in Nat /\ Cap > 0 /\ ch.buf_elem_write_idx \in Slot /\ ch.buf_elem_write_idx \in Nat
        /\ i \in Slot /\ i \in Nat /\ Len(hist.order) + 1 \in Nat
    <3>1. Cap \in Nat /\ Cap > 0 /\ Slot = 0 .. Cap - 1
      BY <1>0, <1>2, UseFacts DEF PushIndex, At, PlaceAt
    <3>2. ch.buf_elem_write_idx \in Slot
      BY <3>1 DEF TypeInv, IndexInv
    <3>3. Len(hist.order) \in Nat
      BY DEF TypeInv, Types, HistType
    <3> QED
      BY <3>1, <3>2, <3>3
  <2>2. f \in FrameType /\ f.adr = ch.buf_elem_write_idx /\ f.op = fr[t].op /\ f.tmo = fr[t].tmo
        /\ f.have_swapped = fr[t].have_swapped
    <3> HIDE DEF i
    <3> QED
      BY <1>0, <2>1 DEF FrameType
  <2>3. fr' = [fr EXCEPT ![t] = f] /\ pc' = [pc EXCEPT ![t] = "p_slot"]
    BY <1>0, <1>2 DEF PushIndex, Goto
  <2>4. ch' = [ch EXCEPT !.buf_elem_write_idx = i] /\ UNCHANGED <<subs, mtx, sel, obj, calls>>
    BY <1>2 DEF PushIndex, selVars
  <2> HIDE DEF f, i
  <2>5. PlaceAt(t, "p_slot", f) /\ "p_slot" \in Labels
    BY <1>0, <1>2, <2>1, <2>2 DEF PlaceAt, PushIndex, At, Labels
  <2>6. RestTyped
    <3>1. hist' \in HistType
      <4>1. hist \in HistType /\ obj[t] \in Value
        BY <1>0 DEF TypeInv, Types
      <4>2. hist' = [hist EXCEPT !.order = Append(@, obj[t])]
        BY <1>2 DEF PushIndex
      <4> QED
        BY <4>1, <4>2, OrderTyped
    <3> QED
      BY <2>4, <3>1 DEF RestTyped, TypeInv, Types
  <2>7. /\ ch' \in ChType /\ ch'.closed = ch.closed /\ ch'.close_claimed = ch.close_claimed
        /\ ch'.adr_written = ch.adr_written /\ ch'.buf_elem_write_idx = i /\ ch'.buf_elem_read_idx = ch.buf_elem_read_idx
    BY <1>0, <2>1, <2>4 DEF ChType
  <2>8. Jump(t, "p_slot", f) /\ StaysIn(t, "p_slot", f)
    BY <2>2, <2>3, <2>4, <2>5 DEF Jump, StaysIn
  <2>9. CloseInv'
    <3>1. \A u \in Thread : pc'[u] \in CloseLabels => pc[u] = pc'[u]
      BY <2>8, JumpFacts DEF TypeInv
    <3>2. Closers(use)' = Closers(use)
      BY DEF Closers
    <3> QED
      BY <2>7, <3>1, <3>2 DEF CloseInv, TypeInv, Closing
  <2>10. IndexInv'
    BY <2>1, <2>7 DEF IndexInv, TypeInv, Slot, Cap
  <2> QED
    BY <2>5, <2>6, <2>7, <2>8, <2>9, <2>10, JumpFits
<1>3. CASE PushEntersSlot(t)
  <2>1. PlaceAt(t, "p_store", fr[t]) /\ "p_store" \in Labels \ {"idle", "sel"} /\ fr[t].adr \in Slot
    BY <1>0, <1>3 DEF PushEntersSlot, At, PlaceAt, Labels
  <2>2. ChKept
    BY <1>0, <1>3, <2>1 DEF PushEntersSlot, ChType, ChKept
  <2> QED
    BY <1>3, <2>1, <2>2, StillTyped, GoFits DEF PushEntersSlot, Goto, At, selVars, Closing
<1>4. CASE PushStores(t)
  <2>1. PlaceAt(t, "p_avail", fr[t]) /\ "p_avail" \in Labels \ {"idle", "sel"} /\ fr[t].adr \in Slot /\ obj[t] \in Value
    BY <1>0, <1>4 DEF PushStores, At, PlaceAt, Labels
  <2>2. ChKept
    BY <1>0, <1>4, <2>1 DEF PushStores, ChType, ChKept
  <2> QED
    BY <1>4, <2>1, <2>2, StillTyped, GoFits DEF PushStores, Goto, At, selVars, Closing
<1>5. CASE PushAvail(t)
  <2>1. PlaceAt(t, "p_readsem", fr[t]) /\ "p_readsem" \in Labels \ {"idle", "sel"}
    BY <1>0, <1>5 DEF PushAvail, At, PlaceAt, Labels
  <2>2. ChKept
    BY <1>0, <1>5 DEF PushAvail, ChType, ChKept, NULL, ClosedMark
  <2> QED
    BY <1>5, <2>1, <2>2, StillTyped, GoFits DEF PushAvail, Goto, At, selVars, Closing
<1>6. CASE PushReadsem(t)
  <2>1. PlaceAt(t, "p_sub", fr[t]) /\ "p_sub" \in Labels \ {"idle", "sel"}
    BY <1>0, <1>6 DEF PushReadsem, At, PlaceAt, Labels
  <2>2. ChKept
    BY <1>0, <1>6 DEF PushReadsem, ChType, ChKept, NULL, ClosedMark
  <2> QED
    BY <1>6, <2>1, <2>2, StillTyped, GoFits DEF PushReadsem, Goto, At, selVars, Closing
<1>7. CASE PushSubscriber(t)
  <2>1. sel' \in [Thread -> [state : {"scanning", "waiting", "claimed", "served"}, sem : Nat]]
    BY <1>7, PostTyped DEF PushSubscriber, Directions
  <2>2. UNCHANGED <<ch, subs, mtx, obj, calls>> /\ Return(t, "success")
    BY <1>7 DEF PushSubscriber
  <2>3. pc[t] \in PushLabels \cup PopLabels \cup ToSelLabels /\ "success" \in Results
    BY <1>7 DEF PushSubscriber, At, Results
  <2>4. mtx' \in [Directions -> Thread \cup {NULL}] /\ obj' \in [Thread -> Value]
    BY <2>2 DEF TypeInv, Types
  <2> QED
    BY <2>1, <2>2, <2>3, <2>4, SameCh, ReturnFits
<1> QED
  BY <1>1, <1>2, <1>3, <1>4, <1>5, <1>6, <1>7 DEF push_buffered

(* try_pop_impl until it has a token or has a value. *)
LEMMA PopEntryTyped ==
  ASSUME TypeInv, use' = use, NEW t \in Thread, PopStart(t) \/ PopTakes(t) \/ PopCopies(t) \/ PopPublishes(t) \/ PopPosts(t)
         \/ PopNoWriter(t) \/ PopToken(t) \/ PopNoToken(t) \/ PopLooksClosed(t)
  PROVE  TypeInv'
<1>0. /\ ch \in ChType /\ fr[t] \in FrameType /\ fr \in [Thread -> FrameType]
      /\ obj \in [Thread -> Value] /\ use \in Uses /\ PlaceAt(t, pc[t], fr[t])
  BY DEF TypeInv, Types, PlaceInv
<1> USE DEF PushLabels, PopLabels, CloseLabels, SelLabels, WaitLabels, ToSelLabels, WriterSec, ReaderSec
<1>1. CASE PopStart(t)
  <2>1. CASE fr[t].op = "sel_pop" /\ fr[t].tmo = "else" /\ ch.closed
    <3>1. ChKept
      BY <1>0, <1>1, <2>1, SameCh DEF PopStart, ChType, ChKept
    <3>2. UNCHANGED <<subs, mtx, sel, obj, calls>> /\ Return(t, "closed")
      BY <1>1, <2>1 DEF PopStart, selVars
    <3>3. pc[t] \in PushLabels \cup PopLabels \cup ToSelLabels /\ "closed" \in Results
      BY <1>1 DEF PopStart, At, Results
    <3> QED
      BY <3>1, <3>2, <3>3, ReturnStill
  <2>2. CASE ~(fr[t].op = "sel_pop" /\ fr[t].tmo = "else" /\ ch.closed) /\ Cap = 0
    <3>1. PlaceAt(t, "r_adr", fr[t]) /\ "r_adr" \in Labels \ {"idle", "sel"}
      BY <1>0, <1>1, <2>2, UseFacts DEF PopStart, At, PlaceAt, Labels
    <3>2. ChKept
      BY <1>0, <1>1, <2>2, SameCh DEF PopStart, ChType, ChKept
    <3>3. /\ pc' = [pc EXCEPT ![t] = "r_adr"] /\ UNCHANGED <<subs, mtx, sel, fr, obj, calls, hist>>
          /\ "r_adr" \notin CloseLabels
      BY <1>1, <2>2 DEF PopStart, Goto, selVars
    <3> QED
      BY <3>1, <3>2, <3>3, StillTyped, GoFits DEF Closing
  <2>3. CASE ~(fr[t].op = "sel_pop" /\ fr[t].tmo = "else" /\ ch.closed) /\ Cap # 0
    <3>1. PlaceAt(t, "r_sem", fr[t]) /\ "r_sem" \in Labels \ {"idle", "sel"}
      BY <1>0, <1>1, <2>3, UseFacts DEF PopStart, At, PlaceAt, Labels
    <3>2. ChKept
      BY <1>0, <1>1, <2>3, SameCh DEF PopStart, ChType, ChKept
    <3>3. /\ pc' = [pc EXCEPT ![t] = "r_sem"] /\ UNCHANGED <<subs, mtx, sel, fr, obj, calls, hist>>
          /\ "r_sem" \notin CloseLabels
      BY <1>1, <2>3 DEF PopStart, Goto, selVars
    <3> QED
      BY <3>1, <3>2, <3>3, StillTyped, GoFits DEF Closing
  <2> QED
    BY <2>1, <2>2, <2>3
<1>2. CASE PopTakes(t)
  <2> DEFINE f == [fr[t] EXCEPT !.adr = ch.read_adr]
  <2>1. ch.read_adr \in Thread /\ ch.read_adr \in Nat
    BY <1>0, <1>2, SyncChanAssumption DEF PopTakes, ChType, NULL
  <2>2. f \in FrameType /\ f.adr = ch.read_adr /\ f.op = fr[t].op /\ f.tmo = fr[t].tmo
        /\ f.have_swapped = fr[t].have_swapped
    BY <1>0, <2>1 DEF FrameType
  <2>3. fr' = [fr EXCEPT ![t] = f] /\ pc' = [pc EXCEPT ![t] = "r_copy"]
    BY <1>0, <1>2 DEF PopTakes, Goto
  <2> HIDE DEF f
  <2>4. PlaceAt(t, "r_copy", f) /\ "r_copy" \in Labels
    BY <1>0, <1>2, <2>1, <2>2 DEF PlaceAt, PopTakes, At, Labels
  <2>5. ChKept
    BY <1>0, <1>2 DEF PopTakes, ChType, ChKept, NULL, ClosedMark
  <2> QED
    BY <1>2, <2>2, <2>3, <2>4, <2>5, StillTyped, LocalFits DEF PopTakes, selVars
<1>3. CASE PopCopies(t)
  <2>1. PlaceAt(t, "r_publish", fr[t]) /\ "r_publish" \in Labels \ {"idle", "sel"} /\ fr[t].adr \in Thread
    BY <1>0, <1>3 DEF PopCopies, At, PlaceAt, Labels
  <2>2. RestTyped
    BY <1>0, <1>3, <2>1, CopyTyped DEF PopCopies, selVars
  <2> QED
    BY <1>3, <2>1, <2>2, SameCh, GoFits DEF PopCopies, Goto, At, selVars, Closing
<1>4. CASE PopPublishes(t)
  <2>1. PlaceAt(t, "r_post", fr[t]) /\ "r_post" \in Labels \ {"idle", "sel"} /\ fr[t].adr \in Thread
    BY <1>0, <1>4 DEF PopPublishes, At, PlaceAt, Labels
  <2>2. ChKept
    BY <1>0, <1>4, <2>1, SyncChanAssumption DEF PopPublishes, ChType, ChKept, ClosedMark
  <2> QED
    BY <1>4, <2>1, <2>2, StillTyped, GoFits DEF PopPublishes, Goto, At, selVars, Closing
<1>5. CASE PopPosts(t)
  <2>1. ChKept
    BY <1>0, <1>5, SameCh DEF PopPosts, ChType, ChKept
  <2>2. UNCHANGED <<subs, mtx, sel, obj, calls>> /\ Return(t, "success")
    BY <1>5 DEF PopPosts, selVars
  <2>3. pc[t] \in PushLabels \cup PopLabels \cup ToSelLabels /\ "success" \in Results
    BY <1>5 DEF PopPosts, At, Results
  <2> QED
    BY <2>1, <2>2, <2>3, ReturnStill
<1>6. CASE PopNoWriter(t)
  <2>1. CASE NoBlock(t)
    <3>1. PlaceAt(t, "r_closed", fr[t]) /\ "r_closed" \in Labels \ {"idle", "sel"}
      BY <1>0, <1>6, <2>1, UseFacts DEF PopNoWriter, At, PlaceAt, Labels, NoBlock, PushOps, PopOps, SelOps
    <3>2. ChKept
      BY <1>0, <1>6, <2>1, SameCh DEF PopNoWriter, ChType, ChKept
    <3>3. /\ pc' = [pc EXCEPT ![t] = "r_closed"] /\ UNCHANGED <<subs, mtx, sel, fr, obj, calls, hist>>
          /\ "r_closed" \notin CloseLabels
      BY <1>6, <2>1 DEF PopNoWriter, Goto, selVars
    <3> QED
      BY <3>1, <3>2, <3>3, StillTyped, GoFits DEF Closing
  <2>2. CASE ~NoBlock(t)
    <3>1. PlaceAt(t, "r_sem", fr[t]) /\ "r_sem" \in Labels \ {"idle", "sel"}
      BY <1>0, <1>6, <2>2, UseFacts DEF PopNoWriter, At, PlaceAt, Labels, NoBlock, PushOps, PopOps, SelOps
    <3>2. ChKept
      BY <1>0, <1>6, <2>2, SameCh DEF PopNoWriter, ChType, ChKept
    <3>3. /\ pc' = [pc EXCEPT ![t] = "r_sem"] /\ UNCHANGED <<subs, mtx, sel, fr, obj, calls, hist>>
          /\ "r_sem" \notin CloseLabels
      BY <1>6, <2>2 DEF PopNoWriter, Goto, selVars
    <3> QED
      BY <3>1, <3>2, <3>3, StillTyped, GoFits DEF Closing
  <2> QED
    BY <2>1, <2>2
<1>7. CASE PopToken(t)
  <2>1. CASE Cap > 0
    <3>1. PlaceAt(t, "r_avail", fr[t]) /\ "r_avail" \in Labels \ {"idle", "sel"}
      BY <1>0, <1>7, <2>1, UseFacts DEF PopToken, At, PlaceAt, Labels
    <3>2. ChKept
      BY <1>0, <1>7, <2>1, SameCh DEF PopToken, ChType, ChKept
    <3>3. /\ pc' = [pc EXCEPT ![t] = "r_avail"] /\ UNCHANGED <<subs, mtx, sel, fr, obj, calls, hist>>
          /\ "r_avail" \notin CloseLabels
      BY <1>7, <2>1 DEF PopToken, Goto, selVars
    <3> QED
      BY <3>1, <3>2, <3>3, StillTyped, GoFits DEF Closing
  <2>2. CASE ~(Cap > 0)
    <3>1. PlaceAt(t, "r_adv", fr[t]) /\ "r_adv" \in Labels \ {"idle", "sel"}
      BY <1>0, <1>7, <2>2, UseFacts DEF PopToken, At, PlaceAt, Labels
    <3>2. ChKept
      BY <1>0, <1>7, <2>2, SameCh DEF PopToken, ChType, ChKept
    <3>3. /\ pc' = [pc EXCEPT ![t] = "r_adv"] /\ UNCHANGED <<subs, mtx, sel, fr, obj, calls, hist>>
          /\ "r_adv" \notin CloseLabels
      BY <1>7, <2>2 DEF PopToken, Goto, selVars
    <3> QED
      BY <3>1, <3>2, <3>3, StillTyped, GoFits DEF Closing
  <2> QED
    BY <2>1, <2>2
<1>8. CASE PopNoToken(t)
  <2>1. PlaceAt(t, "r_closed", fr[t]) /\ "r_closed" \in Labels \ {"idle", "sel"}
    BY <1>0, <1>8 DEF PopNoToken, At, PlaceAt, Labels, NoBlock, PushOps, PopOps, SelOps
  <2>2. ChKept
    BY <1>8, SameCh DEF PopNoToken
  <2> QED
    BY <1>8, <2>1, <2>2, StillTyped, GoFits DEF PopNoToken, Goto, At, selVars, Closing
<1>9. CASE PopLooksClosed(t)
  <2>1. CASE ch.closed
    <3>1. ChKept
      BY <1>0, <1>9, <2>1, SameCh DEF PopLooksClosed, ChType, ChKept
    <3>2. UNCHANGED <<subs, mtx, sel, obj, calls>> /\ Return(t, "closed")
      BY <1>9, <2>1 DEF PopLooksClosed, selVars
    <3>3. pc[t] \in PushLabels \cup PopLabels \cup ToSelLabels /\ "closed" \in Results
      BY <1>9 DEF PopLooksClosed, At, Results
    <3> QED
      BY <3>1, <3>2, <3>3, ReturnStill
  <2>2. CASE ~ch.closed /\ Cap > 0
    <3>1. ChKept
      BY <1>0, <1>9, <2>2, SameCh DEF PopLooksClosed, ChType, ChKept
    <3>2. UNCHANGED <<subs, mtx, sel, obj, calls>> /\ Return(t, "not_ready")
      BY <1>9, <2>2 DEF PopLooksClosed, selVars
    <3>3. pc[t] \in PushLabels \cup PopLabels \cup ToSelLabels /\ "not_ready" \in Results
      BY <1>9 DEF PopLooksClosed, At, Results
    <3> QED
      BY <3>1, <3>2, <3>3, ReturnStill
  <2>3. CASE ~ch.closed /\ ~(Cap > 0)
    <3>1. PlaceAt(t, "to_select", fr[t]) /\ "to_select" \in Labels \ {"idle", "sel"}
      BY <1>0, <1>9, <2>3, UseFacts DEF PopLooksClosed, At, PlaceAt, Labels, NoBlock, PushOps, PopOps, SelOps
    <3>2. ChKept
      BY <1>0, <1>9, <2>3, SameCh DEF PopLooksClosed, ChType, ChKept
    <3>3. /\ pc' = [pc EXCEPT ![t] = "to_select"] /\ UNCHANGED <<subs, mtx, sel, fr, obj, calls, hist>>
          /\ "to_select" \notin CloseLabels
      BY <1>9, <2>3 DEF PopLooksClosed, Goto, selVars
    <3> QED
      BY <3>1, <3>2, <3>3, StillTyped, GoFits DEF Closing
  <2> QED
    BY <2>1, <2>2, <2>3
<1> QED
  BY <1>1, <1>2, <1>3, <1>4, <1>5, <1>6, <1>7, <1>8, <1>9

(* try_pop_impl on a buffered channel. *)
LEMMA PopBufferedTyped ==
  ASSUME TypeInv, use' = use, NEW t \in Thread, pop_buffered(t)
  PROVE  TypeInv'
<1>0. /\ ch \in ChType /\ fr[t] \in FrameType /\ fr \in [Thread -> FrameType]
      /\ obj \in [Thread -> Value] /\ use \in Uses /\ PlaceAt(t, pc[t], fr[t])
  BY DEF TypeInv, Types, PlaceInv
<1> USE DEF PushLabels, PopLabels, CloseLabels, SelLabels, WaitLabels, ToSelLabels, WriterSec, ReaderSec
<1>1. CASE PopClaims(t)
  <2>1. CASE ch.read_avail > 0
    <3>1. PlaceAt(t, "r_idx", fr[t]) /\ "r_idx" \in Labels \ {"idle", "sel"}
      BY <1>0, <1>1 DEF PopClaims, At, PlaceAt, Labels
    <3>2. ChKept
      BY <1>0, <1>1, <2>1 DEF PopClaims, ChType, ChKept
    <3>3. pc' = [pc EXCEPT ![t] = "r_idx"] /\ UNCHANGED <<subs, mtx, sel, fr, obj, calls>>
      BY <1>1, <2>1 DEF PopClaims, Goto, selVars
    <3>4. hist' \in HistType
      <4>1. hist \in HistType
        BY DEF TypeInv, Types
      <4> QED
        BY <1>1, <2>1, <4>1 DEF PopClaims, HistType
    <3>5. RestTyped
      BY <3>3, <3>4 DEF RestTyped, TypeInv, Types
    <3> QED
      BY <3>1, <3>2, <3>3, <3>5, GoFits DEF Closing
  <2>2. CASE ~(ch.read_avail > 0)
    <3>1. PlaceAt(t, "r_adv", fr[t]) /\ "r_adv" \in Labels \ {"idle", "sel"}
      BY <1>0, <1>1, <2>2, UseFacts DEF PopClaims, At, PlaceAt, Labels
    <3>2. ChKept
      BY <1>0, <1>1, <2>2, SameCh DEF PopClaims, ChType, ChKept
    <3>3. /\ pc' = [pc EXCEPT ![t] = "r_adv"] /\ UNCHANGED <<subs, mtx, sel, fr, obj, calls, hist>>
          /\ "r_adv" \notin CloseLabels
      BY <1>1, <2>2 DEF PopClaims, Goto, selVars
    <3> QED
      BY <3>1, <3>2, <3>3, StillTyped, GoFits DEF Closing
  <2> QED
    BY <2>1, <2>2
<1>2. CASE PopIndex(t)
  <2> DEFINE f == [fr[t] EXCEPT !.adr = ch.buf_elem_read_idx, !.ticket = hist.tickets + 1]
             i == (ch.buf_elem_read_idx + 1) % Cap
  <2>1. Cap \in Nat /\ Cap > 0 /\ ch.buf_elem_read_idx \in Slot /\ ch.buf_elem_read_idx \in Nat
        /\ i \in Slot /\ i \in Nat /\ hist.tickets + 1 \in Nat
    <3>1. Cap \in Nat /\ Cap > 0 /\ Slot = 0 .. Cap - 1
      BY <1>0, <1>2, UseFacts DEF PopIndex, At, PlaceAt
    <3>2. ch.buf_elem_read_idx \in Slot
      BY <3>1 DEF TypeInv, IndexInv
    <3>3. hist.tickets \in Nat
      BY DEF TypeInv, Types, HistType
    <3> QED
      BY <3>1, <3>2, <3>3
  <2>2. f \in FrameType /\ f.adr = ch.buf_elem_read_idx /\ f.op = fr[t].op /\ f.tmo = fr[t].tmo
        /\ f.have_swapped = fr[t].have_swapped
    <3> HIDE DEF i
    <3> QED
      BY <1>0, <2>1 DEF FrameType
  <2>3. fr' = [fr EXCEPT ![t] = f] /\ pc' = [pc EXCEPT ![t] = "r_slot"]
    BY <1>0, <1>2 DEF PopIndex, Goto
  <2>4. ch' = [ch EXCEPT !.buf_elem_read_idx = i] /\ UNCHANGED <<subs, mtx, sel, obj, calls>>
    BY <1>2 DEF PopIndex, selVars
  <2> HIDE DEF f, i
  <2>5. PlaceAt(t, "r_slot", f) /\ "r_slot" \in Labels
    BY <1>0, <1>2, <2>1, <2>2 DEF PlaceAt, PopIndex, At, Labels
  <2>6. RestTyped
    <3>1. hist' \in HistType
      <4>1. hist \in HistType /\ obj[t] \in Value
        BY <1>0 DEF TypeInv, Types
      <4>2. hist' = [hist EXCEPT !.tickets = @ + 1]
        BY <1>2 DEF PopIndex
      <4> QED
        BY <4>1, <4>2, TicketsTyped
    <3> QED
      BY <2>4, <3>1 DEF RestTyped, TypeInv, Types
  <2>7. /\ ch' \in ChType /\ ch'.closed = ch.closed /\ ch'.close_claimed = ch.close_claimed
        /\ ch'.adr_written = ch.adr_written /\ ch'.buf_elem_read_idx = i /\ ch'.buf_elem_write_idx = ch.buf_elem_write_idx
    BY <1>0, <2>1, <2>4 DEF ChType
  <2>8. Jump(t, "r_slot", f) /\ StaysIn(t, "r_slot", f)
    BY <2>2, <2>3, <2>4, <2>5 DEF Jump, StaysIn
  <2>9. CloseInv'
    <3>1. \A u \in Thread : pc'[u] \in CloseLabels => pc[u] = pc'[u]
      BY <2>8, JumpFacts DEF TypeInv
    <3>2. Closers(use)' = Closers(use)
      BY DEF Closers
    <3> QED
      BY <2>7, <3>1, <3>2 DEF CloseInv, TypeInv, Closing
  <2>10. IndexInv'
    BY <2>1, <2>7 DEF IndexInv, TypeInv, Slot, Cap
  <2> QED
    BY <2>5, <2>6, <2>7, <2>8, <2>9, <2>10, JumpFits
<1>3. CASE PopEntersSlot(t)
  <2>1. PlaceAt(t, "r_load", fr[t]) /\ "r_load" \in Labels \ {"idle", "sel"} /\ fr[t].adr \in Slot
    BY <1>0, <1>3 DEF PopEntersSlot, At, PlaceAt, Labels
  <2>2. ChKept
    BY <1>0, <1>3, <2>1 DEF PopEntersSlot, ChType, ChKept
  <2> QED
    BY <1>3, <2>1, <2>2, StillTyped, GoFits DEF PopEntersSlot, Goto, At, selVars, Closing
<1>4. CASE PopLoads(t)
  <2>1. PlaceAt(t, "r_free", fr[t]) /\ "r_free" \in Labels \ {"idle", "sel"} /\ fr[t].adr \in Slot
    BY <1>0, <1>4 DEF PopLoads, At, PlaceAt, Labels
  <2>2. ChKept
    BY <1>0, <1>4, <2>1 DEF PopLoads, ChType, ChKept
  <2>3. ch.ringbuf[fr[t].adr] \in Value
    BY <1>0, <2>1 DEF ChType
  <2>4. RestTyped
    BY <1>4, <2>3, CopyTyped DEF PopLoads, selVars
  <2> QED
    BY <1>4, <2>1, <2>2, <2>4, GoFits DEF PopLoads, Goto, At, selVars, Closing
<1>5. CASE PopFrees(t)
  <2>1. PlaceAt(t, "r_writesem", fr[t]) /\ "r_writesem" \in Labels \ {"idle", "sel"}
    BY <1>0, <1>5 DEF PopFrees, At, PlaceAt, Labels
  <2>2. ChKept
    BY <1>0, <1>5 DEF PopFrees, ChType, ChKept, NULL, ClosedMark
  <2> QED
    BY <1>5, <2>1, <2>2, StillTyped, GoFits DEF PopFrees, Goto, At, selVars, Closing
<1>6. CASE PopWritesem(t)
  <2>1. PlaceAt(t, "r_sub", fr[t]) /\ "r_sub" \in Labels \ {"idle", "sel"}
    BY <1>0, <1>6 DEF PopWritesem, At, PlaceAt, Labels
  <2>2. ChKept
    BY <1>0, <1>6 DEF PopWritesem, ChType, ChKept, NULL, ClosedMark
  <2> QED
    BY <1>6, <2>1, <2>2, StillTyped, GoFits DEF PopWritesem, Goto, At, selVars, Closing
<1>7. CASE PopSubscriber(t)
  <2>1. sel' \in [Thread -> [state : {"scanning", "waiting", "claimed", "served"}, sem : Nat]]
    BY <1>7, PostTyped DEF PopSubscriber, Directions
  <2>2. UNCHANGED <<ch, subs, mtx, obj, calls>> /\ Return(t, "success")
    BY <1>7 DEF PopSubscriber
  <2>3. pc[t] \in PushLabels \cup PopLabels \cup ToSelLabels /\ "success" \in Results
    BY <1>7 DEF PopSubscriber, At, Results
  <2>4. mtx' \in [Directions -> Thread \cup {NULL}] /\ obj' \in [Thread -> Value]
    BY <2>2 DEF TypeInv, Types
  <2> QED
    BY <2>1, <2>2, <2>3, <2>4, SameCh, ReturnFits
<1> QED
  BY <1>1, <1>2, <1>3, <1>4, <1>5, <1>6, <1>7 DEF pop_buffered

(* try_pop_impl when it waits for a hand-over. *)
LEMMA PopWaitsTyped ==
  ASSUME TypeInv, use' = use, NEW t \in Thread, pop_waits(t)
  PROVE  TypeInv'
<1>0. /\ ch \in ChType /\ fr[t] \in FrameType /\ fr \in [Thread -> FrameType]
      /\ obj \in [Thread -> Value] /\ use \in Uses /\ PlaceAt(t, pc[t], fr[t])
  BY DEF TypeInv, Types, PlaceInv
<1> USE DEF PushLabels, PopLabels, CloseLabels, SelLabels, WaitLabels, ToSelLabels, WriterSec, ReaderSec
<1>1. CASE PopAdvertises(t)
  <2>1. CASE Cap = 0
    <3>1. PlaceAt(t, "r_check", fr[t]) /\ "r_check" \in Labels \ {"idle", "sel"}
      BY <1>0, <1>1, <2>1, UseFacts DEF PopAdvertises, At, PlaceAt, Labels
    <3>2. ChKept
      BY <1>0, <1>1, <2>1, SameCh DEF PopAdvertises, ChType, ChKept
    <3>3. /\ pc' = [pc EXCEPT ![t] = "r_check"] /\ UNCHANGED <<subs, mtx, sel, fr, obj, calls, hist>>
          /\ "r_check" \notin CloseLabels
      BY <1>1, <2>1 DEF PopAdvertises, Goto, selVars
    <3> QED
      BY <3>1, <3>2, <3>3, StillTyped, GoFits DEF Closing
  <2>2. CASE Cap # 0
    <3>1. PlaceAt(t, "r_await", fr[t]) /\ "r_await" \in Labels \ {"idle", "sel"}
      BY <1>0, <1>1, <2>2, UseFacts DEF PopAdvertises, At, PlaceAt, Labels
    <3>2. ChKept
      BY <1>0, <1>1, <2>2, SameCh DEF PopAdvertises, ChType, ChKept
    <3>3. /\ pc' = [pc EXCEPT ![t] = "r_await"] /\ UNCHANGED <<subs, mtx, sel, fr, obj, calls, hist>>
          /\ "r_await" \notin CloseLabels
      BY <1>1, <2>2 DEF PopAdvertises, Goto, selVars
    <3> QED
      BY <3>1, <3>2, <3>3, StillTyped, GoFits DEF Closing
  <2> QED
    BY <2>1, <2>2
<1>2. CASE PopChecks(t)
  <2>1. CASE ch.read_adr # NULL
    <3>1. PlaceAt(t, "r_retract", fr[t]) /\ "r_retract" \in Labels \ {"idle", "sel"}
      BY <1>0, <1>2, <2>1, UseFacts DEF PopChecks, At, PlaceAt, Labels
    <3>2. ChKept
      BY <1>0, <1>2, <2>1, SameCh DEF PopChecks, ChType, ChKept
    <3>3. /\ pc' = [pc EXCEPT ![t] = "r_retract"] /\ UNCHANGED <<subs, mtx, sel, fr, obj, calls, hist>>
          /\ "r_retract" \notin CloseLabels
      BY <1>2, <2>1 DEF PopChecks, Goto, selVars
    <3> QED
      BY <3>1, <3>2, <3>3, StillTyped, GoFits DEF Closing
  <2>2. CASE ch.read_adr = NULL
    <3>1. PlaceAt(t, "r_note", fr[t]) /\ "r_note" \in Labels \ {"idle", "sel"}
      BY <1>0, <1>2, <2>2, UseFacts DEF PopChecks, At, PlaceAt, Labels
    <3>2. ChKept
      BY <1>0, <1>2, <2>2, SameCh DEF PopChecks, ChType, ChKept
    <3>3. /\ pc' = [pc EXCEPT ![t] = "r_note"] /\ UNCHANGED <<subs, mtx, sel, fr, obj, calls, hist>>
          /\ "r_note" \notin CloseLabels
      BY <1>2, <2>2 DEF PopChecks, Goto, selVars
    <3> QED
      BY <3>1, <3>2, <3>3, StillTyped, GoFits DEF Closing
  <2> QED
    BY <2>1, <2>2
<1>3. CASE PopRetracts(t)
  <2>1. CASE ch.write_adr = t
    <3>1. PlaceAt(t, "r_adr", fr[t]) /\ "r_adr" \in Labels \ {"idle", "sel"}
      BY <1>0, <1>3 DEF PopRetracts, At, PlaceAt, Labels
    <3>2. ChKept
      <4> DEFINE n == ch.readsem + 1
      <4>1. ch' = [ch EXCEPT !.write_adr = NULL, !.readsem = n] /\ n \in Nat
        BY <1>0, <1>3, <2>1 DEF PopRetracts, ChType
      <4> HIDE DEF n
      <4> QED
        BY <1>0, <4>1 DEF ChType, ChKept
    <3>3. /\ pc' = [pc EXCEPT ![t] = "r_adr"] /\ UNCHANGED <<subs, mtx, sel, fr, obj, calls, hist>>
          /\ "r_adr" \notin CloseLabels
      BY <1>3, <2>1 DEF PopRetracts, Goto, selVars
    <3> QED
      BY <3>1, <3>2, <3>3, StillTyped, GoFits DEF Closing
  <2>2. CASE ch.write_adr # t
    <3> DEFINE f == [fr[t] EXCEPT !.in_progress = TRUE]
    <3>1. f \in FrameType /\ f.adr = fr[t].adr /\ f.op = fr[t].op /\ f.tmo = fr[t].tmo
          /\ f.have_swapped = fr[t].have_swapped
      BY <1>0 DEF FrameType
    <3>2. fr' = [fr EXCEPT ![t] = f] /\ pc' = [pc EXCEPT ![t] = "r_await"]
      BY <1>0, <1>3, <2>2 DEF PopRetracts, Goto
    <3> HIDE DEF f
    <3>3. PlaceAt(t, "r_await", f) /\ "r_await" \in Labels
      BY <1>0, <1>3, <3>1 DEF PlaceAt, PopRetracts, At, Labels
    <3>4. ChKept
      BY <1>0, <1>3, <2>2, SameCh DEF PopRetracts, ChType, ChKept, NULL, ClosedMark
    <3>5. UNCHANGED <<subs, mtx, sel, obj, calls, hist>>
      BY <1>3, <2>2 DEF PopRetracts, selVars
    <3> QED
      BY <3>1, <3>2, <3>3, <3>4, <3>5, StillTyped, LocalFits
  <2> QED
    BY <2>1, <2>2
<1>4. CASE PopNotifies(t)
  <2>1. PlaceAt(t, "r_await", fr[t]) /\ "r_await" \in Labels \ {"idle", "sel"}
    BY <1>0, <1>4 DEF PopNotifies, At, PlaceAt, Labels
  <2>2. RestTyped
    BY <1>4, PostTyped DEF PopNotifies, RestTyped, TypeInv, Types, Directions
  <2> QED
    BY <1>4, <2>1, <2>2, SameCh, GoFits DEF PopNotifies, Goto, At, Closing
<1>5. CASE PopAwaits(t)
  <2>0. ch.adr_written = t => ch.adr_written # ClosedMark
    BY <1>0, UseFacts
  <2>1. CASE ch.adr_written = t
    <3> DEFINE f == [fr[t] EXCEPT !.have_swapped = TRUE]
    <3>1. f \in FrameType /\ f.adr = fr[t].adr /\ f.op = fr[t].op /\ f.tmo = fr[t].tmo
          /\ f.have_swapped = TRUE
      BY <1>0 DEF FrameType
    <3>2. fr' = [fr EXCEPT ![t] = f] /\ pc' = [pc EXCEPT ![t] = "r_im"]
      BY <1>0, <1>5, <2>0, <2>1 DEF PopAwaits, Goto
    <3> HIDE DEF f
    <3>3. PlaceAt(t, "r_im", f) /\ "r_im" \in Labels
      BY <1>0, <1>5, <3>1 DEF PlaceAt, PopAwaits, At, Labels
    <3>4. ChKept
      BY <1>0, <1>5, <2>0, <2>1, SameCh DEF PopAwaits, ChType, ChKept, NULL, ClosedMark
    <3>5. UNCHANGED <<subs, mtx, sel, obj, calls, hist>>
      BY <1>5, <2>0, <2>1 DEF PopAwaits, selVars
    <3> QED
      BY <3>1, <3>2, <3>3, <3>4, <3>5, StillTyped, LocalFits
  <2>2. CASE ch.adr_written = ClosedMark
    <3>1. ChKept
      BY <1>0, <1>5, <2>0, <2>2, SameCh DEF PopAwaits, ChType, ChKept
    <3>2. UNCHANGED <<subs, mtx, sel, obj, calls>> /\ Return(t, "closed")
      BY <1>5, <2>0, <2>2 DEF PopAwaits, selVars
    <3>3. pc[t] \in PushLabels \cup PopLabels \cup ToSelLabels /\ "closed" \in Results
      BY <1>5 DEF PopAwaits, At, Results
    <3> QED
      BY <3>1, <3>2, <3>3, ReturnStill
  <2>3. CASE ch.adr_written \notin {t, ClosedMark}
    <3>1. PlaceAt(t, "r_im", fr[t]) /\ "r_im" \in Labels \ {"idle", "sel"}
      BY <1>0, <1>5, <2>3, UseFacts DEF PopAwaits, At, PlaceAt, Labels
    <3>2. ChKept
      BY <1>0, <1>5, <2>3, SameCh DEF PopAwaits, ChType, ChKept
    <3>3. /\ pc' = [pc EXCEPT ![t] = "r_im"] /\ UNCHANGED <<subs, mtx, sel, fr, obj, calls, hist>>
          /\ "r_im" \notin CloseLabels
      BY <1>5, <2>3 DEF PopAwaits, Goto, selVars
    <3> QED
      BY <3>1, <3>2, <3>3, StillTyped, GoFits DEF Closing
  <2> QED
    BY <2>1, <2>2, <2>3
<1>6. CASE PopImSem(t)
  <2>1. PlaceAt(t, "r_mine", fr[t]) /\ "r_mine" \in Labels \ {"idle", "sel"}
    BY <1>0, <1>6 DEF PopImSem, At, PlaceAt, Labels
  <2>2. ChKept
    BY <1>0, <1>6 DEF PopImSem, ChType, ChKept, NULL, ClosedMark
  <2> QED
    BY <1>6, <2>1, <2>2, StillTyped, GoFits DEF PopImSem, Goto, At, selVars, Closing
<1>7. CASE PopIsMine(t)
  <2>1. CASE fr[t].have_swapped \/ ch.adr_written = t
    <3>1. ChKept
      <4> DEFINE n == ch.readsem + 1
                 a == IF fr[t].have_swapped THEN ch.adr_written ELSE NULL
      <4>1. ch' = [ch EXCEPT !.readsem = n, !.adr_written = a] /\ n \in Nat
        BY <1>0, <1>7, <2>1 DEF PopIsMine, ChType
      <4>2. a \in Thread \cup {NULL, ClosedMark} /\ (a = ClosedMark => ch.adr_written = ClosedMark)
        BY <1>0 DEF ChType, NULL, ClosedMark
      <4> HIDE DEF n, a
      <4> QED
        BY <1>0, <4>1, <4>2 DEF ChType, ChKept
    <3>2. UNCHANGED <<subs, mtx, sel, obj, calls>> /\ Return(t, "success")
      BY <1>7, <2>1 DEF PopIsMine, selVars
    <3>3. pc[t] \in PushLabels \cup PopLabels \cup ToSelLabels /\ "success" \in Results
      BY <1>7 DEF PopIsMine, At, Results
    <3> QED
      BY <3>1, <3>2, <3>3, ReturnStill
  <2>2. CASE ~(fr[t].have_swapped \/ ch.adr_written = t) /\ ch.adr_written = ClosedMark
    <3>1. ChKept
      <4> DEFINE n == ch.readsem + 1
                 m == ch.readsem_im + 1
      <4>1. ch' = [ch EXCEPT !.readsem_im = m, !.readsem = n] /\ n \in Nat /\ m \in Nat
        BY <1>0, <1>7, <2>2 DEF PopIsMine, ChType
      <4> HIDE DEF n, m
      <4> QED
        BY <1>0, <4>1 DEF ChType, ChKept
    <3>2. UNCHANGED <<subs, mtx, sel, obj, calls>> /\ Return(t, "closed")
      BY <1>7, <2>2 DEF PopIsMine, selVars
    <3>3. pc[t] \in PushLabels \cup PopLabels \cup ToSelLabels /\ "closed" \in Results
      BY <1>7 DEF PopIsMine, At, Results
    <3> QED
      BY <3>1, <3>2, <3>3, ReturnStill
  <2>3. CASE ~(fr[t].have_swapped \/ ch.adr_written = t) /\ ch.adr_written # ClosedMark
    <3>1. PlaceAt(t, "r_im", fr[t]) /\ "r_im" \in Labels \ {"idle", "sel"}
      BY <1>0, <1>7, <2>3, UseFacts DEF PopIsMine, At, PlaceAt, Labels
    <3>2. ChKept
      BY <1>0, <1>7, <2>3, SameCh DEF PopIsMine, ChType, ChKept
    <3>3. /\ pc' = [pc EXCEPT ![t] = "r_im"] /\ UNCHANGED <<subs, mtx, sel, fr, obj, calls, hist>>
          /\ "r_im" \notin CloseLabels
      BY <1>7, <2>3 DEF PopIsMine, Goto, selVars
    <3> QED
      BY <3>1, <3>2, <3>3, StillTyped, GoFits DEF Closing
  <2> QED
    BY <2>1, <2>2, <2>3
<1> QED
  BY <1>1, <1>2, <1>3, <1>4, <1>5, <1>6, <1>7 DEF pop_waits


(* Changes of the state word or of the semaphore of one select. *)
LEMMA SelTyped ==
  ASSUME TypeInv, NEW s \in Thread
  PROVE  /\ [sel EXCEPT ![s].sem = @ + 1] \in [Thread -> [state : {"scanning", "waiting", "claimed", "served"}, sem : Nat]]
         /\ sel[s].sem > 0 => [sel EXCEPT ![s].sem = @ - 1] \in [Thread -> [state : {"scanning", "waiting", "claimed", "served"}, sem : Nat]]
         /\ [sel EXCEPT ![s] = [state |-> "scanning", sem |-> 0]] \in [Thread -> [state : {"scanning", "waiting", "claimed", "served"}, sem : Nat]]
         /\ \A x \in {"scanning", "waiting", "claimed", "served"} :
              [sel EXCEPT ![s].state = x] \in [Thread -> [state : {"scanning", "waiting", "claimed", "served"}, sem : Nat]]
<1> DEFINE S == [state : {"scanning", "waiting", "claimed", "served"}, sem : Nat]
<1>1. sel \in [Thread -> S] /\ sel[s] \in S
  BY DEF TypeInv, Types
<1>2. [sel[s] EXCEPT !.sem = @ + 1] \in S /\ (sel[s].sem > 0 => [sel[s] EXCEPT !.sem = @ - 1] \in S)
  BY <1>1
<1>3. ASSUME NEW x \in {"scanning", "waiting", "claimed", "served"} PROVE [sel[s] EXCEPT !.state = x] \in S
  BY <1>1
<1>4. [state |-> "scanning", sem |-> 0] \in S
  OBVIOUS
<1>5. ASSUME NEW e \in S PROVE [sel EXCEPT ![s] = e] \in [Thread -> S]
  BY <1>1, <1>5
<1> HIDE DEF S
<1> QED
  BY <1>1, <1>2, <1>3, <1>4, <1>5 DEF S

(* Locking and unlocking the list of one direction. *)
LEMMA MtxTyped ==
  ASSUME TypeInv, NEW d \in Directions, NEW m \in Thread \cup {NULL}
  PROVE  [mtx EXCEPT ![d] = m] \in [Directions -> Thread \cup {NULL}]
BY DEF TypeInv, Types

LEMMA DirFacts ==
  ASSUME NEW t
  PROVE  /\ Dir(t) \in Directions /\ Peer(Dir(t)) \in Directions
         /\ \A d \in Directions : Peer(d) \in Directions /\ Peer(d) # d /\ Peer(Peer(d)) = d
BY DEF Dir, Peer, Directions

(* Entries of a list are threads. *)
LEMMA EntryFacts ==
  ASSUME TypeInv, NEW d \in Directions, NEW i \in Nat \ {0}, i <= Len(subs[d])
  PROVE  subs[d][i] \in Thread /\ subs[d][i] \in Range(subs[d])
<1>1. subs[d] \in Seq(Thread)
  BY DEF TypeInv, Types
<1> QED
  BY <1>1, RangeFacts

(* try_push_to_select and try_pop_from_select. *)
LEMMA ToSelectTyped ==
  ASSUME TypeInv, use' = use, NEW t \in Thread, to_select(t)
  PROVE  TypeInv'
<1>0. /\ ch \in ChType /\ fr[t] \in FrameType /\ fr \in [Thread -> FrameType]
      /\ obj \in [Thread -> Value] /\ use \in Uses /\ PlaceAt(t, pc[t], fr[t])
  BY DEF TypeInv, Types, PlaceInv
<1> USE DEF PushLabels, PopLabels, CloseLabels, SelLabels, WaitLabels, ToSelLabels, WriterSec, ReaderSec
<1>1. CASE ToSelectLock(t)
  <2> DEFINE f == [fr[t] EXCEPT !.adr = 1]
  <2>1. f \in FrameType /\ f.op = fr[t].op /\ f.tmo = fr[t].tmo
        /\ f.have_swapped = fr[t].have_swapped /\ f.adr > 0
    BY <1>0 DEF FrameType, NULL, Results
  <2>2. fr' = [fr EXCEPT ![t] = f] /\ pc' = [pc EXCEPT ![t] = "to_select_scan"] /\ UNCHANGED <<ch, subs>>
    BY <1>0, <1>1 DEF ToSelectLock, Goto, selVars
  <2> HIDE DEF f
  <2>3. PlaceAt(t, "to_select_scan", f) /\ "to_select_scan" \in Labels
    BY <1>0, <1>1, <2>1 DEF PlaceAt, ToSelectLock, At, Labels
  <2>4. RestTyped
    BY <1>1, MtxTyped, DirFacts DEF ToSelectLock, RestTyped, TypeInv, Types
  <2> QED
    BY <2>1, <2>2, <2>3, <2>4, SameCh, LocalFits
<1>2. CASE ToSelectEnd(t)
  <2>1. UNCHANGED <<ch, subs, sel, obj, calls>> /\ Return(t, "not_ready") /\ "not_ready" \in Results
    BY <1>2 DEF ToSelectEnd, Results
  <2>2. mtx' \in [Directions -> Thread \cup {NULL}]
    BY <1>2, MtxTyped, DirFacts DEF ToSelectEnd
  <2>3. sel' \in [Thread -> [state : {"scanning", "waiting", "claimed", "served"}, sem : Nat]] /\ obj' \in [Thread -> Value]
    BY <2>1 DEF TypeInv, Types
  <2>4. pc[t] \in PushLabels \cup PopLabels \cup ToSelLabels
    BY <1>2 DEF ToSelectEnd, At
  <2> QED
    BY <2>1, <2>2, <2>3, <2>4, SameCh, ReturnFits
<1>3. CASE ToSelectClaim(t)
  <2> DEFINE s == subs[Peer(Dir(t))][fr[t].adr]
  <2>0. fr[t].adr \in Nat
    BY <1>0 DEF FrameType
  <2>00. s \in Thread /\ s \in Nat
    BY <1>0, <1>3, <2>0, EntryFacts, DirFacts, SyncChanAssumption DEF s, PlaceAt, ToSelectClaim, At
  <2>1. CASE sel[s].state = "waiting"
    <3> DEFINE f == [fr[t] EXCEPT !.adr = s]
    <3>1. f \in FrameType /\ f.op = fr[t].op /\ f.tmo = fr[t].tmo
          /\ f.have_swapped = fr[t].have_swapped /\ f.adr = s /\ s \in Thread
      BY <1>0, <2>00 DEF FrameType, NULL, Results
    <3>2. fr' = [fr EXCEPT ![t] = f] /\ pc' = [pc EXCEPT ![t] = "to_select_copy"] /\ UNCHANGED <<ch, subs>>
      BY <1>0, <1>3, <2>1 DEF ToSelectClaim, Goto, At, selVars, TypeInv, Types
    <3> HIDE DEF f
    <3>3. PlaceAt(t, "to_select_copy", f) /\ "to_select_copy" \in Labels
      BY <1>0, <1>3, <3>1 DEF PlaceAt, ToSelectClaim, At, Labels
    <3>4. RestTyped
      <4>1. sel' = [sel EXCEPT ![s].state = "claimed"] /\ UNCHANGED <<mtx, obj, calls, hist>>
        BY <1>3, <2>1 DEF ToSelectClaim, s
      <4>2. sel' \in [Thread -> [state : {"scanning", "waiting", "claimed", "served"}, sem : Nat]]
        BY <3>1, <4>1, SelTyped
      <4> QED
        BY <4>1, <4>2 DEF RestTyped, TypeInv, Types
    <3> QED
      BY <3>1, <3>2, <3>3, <3>4, SameCh, LocalFits
  <2>2. CASE sel[s].state # "waiting"
    <3> DEFINE f == [fr[t] EXCEPT !.adr = @ + 1]
    <3>1. f \in FrameType /\ f.op = fr[t].op /\ f.tmo = fr[t].tmo
          /\ f.have_swapped = fr[t].have_swapped /\ f.adr > 0
      BY <1>0, <2>0 DEF FrameType, NULL, Results
    <3>2. fr' = [fr EXCEPT ![t] = f] /\ pc' = [pc EXCEPT ![t] = "to_select_scan"] /\ UNCHANGED <<ch, subs>>
      BY <1>0, <1>3, <2>2 DEF ToSelectClaim, Goto, At, selVars, TypeInv, Types
    <3> HIDE DEF f
    <3>3. PlaceAt(t, "to_select_scan", f) /\ "to_select_scan" \in Labels
      BY <1>0, <1>3, <3>1 DEF PlaceAt, ToSelectClaim, At, Labels
    <3>4. RestTyped
      BY <1>3, <2>2, StillTyped DEF ToSelectClaim, s
    <3> QED
      BY <3>1, <3>2, <3>3, <3>4, SameCh, LocalFits
  <2> QED
    BY <2>1, <2>2
<1>4. CASE ToSelectCopy(t)
  <2>1. PlaceAt(t, "to_select_post", fr[t]) /\ "to_select_post" \in Labels \ {"idle", "sel"} /\ fr[t].adr \in Thread
    BY <1>0, <1>4 DEF ToSelectCopy, At, PlaceAt, Labels
  <2>2. obj' \in [Thread -> Value]
    BY <1>0, <1>4, <2>1 DEF ToSelectCopy
  <2>3. sel' \in [Thread -> [state : {"scanning", "waiting", "claimed", "served"}, sem : Nat]]
    BY <1>4, <2>1, SelTyped DEF ToSelectCopy
  <2>4. RestTyped
    BY <1>4, <2>2, <2>3 DEF ToSelectCopy, RestTyped, TypeInv, Types
  <2> QED
    BY <1>4, <2>1, <2>4, SameCh, GoFits DEF ToSelectCopy, Goto, At, Closing
<1>5. CASE ToSelectPost(t)
  <2>1. UNCHANGED <<ch, subs, obj, calls>> /\ Return(t, "success") /\ "success" \in Results
    BY <1>5 DEF ToSelectPost, Results
  <2>2. mtx' \in [Directions -> Thread \cup {NULL}]
    BY <1>5, MtxTyped, DirFacts DEF ToSelectPost
  <2>3. fr[t].adr \in Thread /\ pc[t] \in PushLabels \cup PopLabels \cup ToSelLabels
    BY <1>0, <1>5 DEF ToSelectPost, At, PlaceAt
  <2>4. sel' \in [Thread -> [state : {"scanning", "waiting", "claimed", "served"}, sem : Nat]] /\ obj' \in [Thread -> Value]
    BY <1>5, <2>1, <2>3, SelTyped DEF ToSelectPost, TypeInv, Types
  <2> QED
    BY <2>1, <2>2, <2>3, <2>4, SameCh, ReturnFits
<1> QED
  BY <1>1, <1>2, <1>3, <1>4, <1>5 DEF to_select

(* A step of close: what it does to the marks of the channel. *)
LEMMA CloseKept ==
  ASSUME TypeInv, use' = use, NEW t \in Thread, NEW l, pc' = [pc EXCEPT ![t] = l],
         ch.closed => ch'.closed, ch.close_claimed => ch'.close_claimed,
         ch'.closed => ch'.close_claimed, ch'.adr_written = ClosedMark => ch'.closed,
         ch'.close_claimed => ch.close_claimed \/ "close" \in use.may[t],
         l \in Closing => ch'.closed,
         l \in CloseLabels \ {"close"} => ch'.close_claimed
  PROVE  CloseInv'
<1>1. pc \in [Thread -> Labels] /\ CloseInv
  BY DEF TypeInv, Types
<1>2. Closers(use)' = Closers(use)
  BY DEF Closers
<1>3. \A u \in Thread : pc'[u] \in Closing => ch'.closed
  BY <1>1 DEF CloseInv
<1>4. \A u \in Thread : pc'[u] \in CloseLabels \ {"close"} => ch'.close_claimed
  BY <1>1 DEF CloseInv
<1>5. ch'.close_claimed => Closers(use) # {}
  BY <1>1 DEF CloseInv, Closers
<1> QED
  BY <1>2, <1>3, <1>4, <1>5 DEF CloseInv

(* A call of close returns. *)
LEMMA CloseReturns ==
  ASSUME TypeInv, use' = use, NEW t \in Thread, Finish(t, "success"), fr[t].op = "close",
         UNCHANGED <<subs, mtx, sel, obj, calls>>, ChKept
  PROVE  TypeInv'
<1>1. /\ pc' = [pc EXCEPT ![t] = "idle"] /\ fr' = [fr EXCEPT ![t] = Frame0] /\ hist' \in HistType
  BY FinishFacts DEF TypeInv, Results
<1>2. Frame0 \in FrameType
  BY DEF Frame0, FrameType, NULL, Timeouts, Results, Ops, PushOps, PopOps
<1>3. PlaceAt(t, "idle", Frame0)
  BY DEF PlaceAt, Frame0, PushLabels, PopLabels, CloseLabels, SelLabels, WaitLabels, ToSelLabels,
         WriterSec, ReaderSec
<1>4. Jump(t, "idle", Frame0) /\ StaysIn(t, "idle", Frame0)
  BY <1>1, <1>2 DEF Jump, StaysIn, Labels, SelOps
<1>5. RestTyped
  BY <1>1 DEF RestTyped, TypeInv, Types
<1> QED
  BY <1>3, <1>4, <1>5, KeepFits DEF CloseLabels, Closing

(* close *)
LEMMA CloseTyped ==
  ASSUME TypeInv, use' = use, NEW t \in Thread, close(t)
  PROVE  TypeInv'
<1>0. /\ ch \in ChType /\ fr[t] \in FrameType /\ fr \in [Thread -> FrameType]
      /\ obj \in [Thread -> Value] /\ use \in Uses /\ PlaceAt(t, pc[t], fr[t])
  BY DEF TypeInv, Types, PlaceInv
<1> USE DEF PushLabels, PopLabels, CloseLabels, SelLabels, WaitLabels, ToSelLabels, WriterSec, ReaderSec
<1>c. ch.closed \in BOOLEAN /\ ch.close_claimed \in BOOLEAN /\ CloseInv
  BY <1>0 DEF ChType, TypeInv
<1>1. CASE CloseClaims(t)
  <2>1. CASE ch.close_claimed
    <3>1. PlaceAt(t, "c_other", fr[t]) /\ "c_other" \in Labels
      BY <1>0, <1>1 DEF CloseClaims, At, PlaceAt, Labels
    <3>2. pc' = [pc EXCEPT ![t] = "c_other"] /\ UNCHANGED <<ch, subs, mtx, sel, fr, obj, calls, hist>>
      BY <1>1, <2>1 DEF CloseClaims, Goto, selVars
    <3>3. CloseInv'
      BY <1>c, <2>1, <3>2, CloseKept DEF Closing, CloseInv
    <3>4. IndexInv'
      BY <3>2 DEF IndexInv, TypeInv, Slot, Cap
    <3>5. Jump(t, "c_other", fr[t]) /\ StaysIn(t, "c_other", fr[t])
      BY <1>0, <3>1, <3>2 DEF Jump, StaysIn
    <3> QED
      BY <1>0, <3>1, <3>2, <3>3, <3>4, <3>5, StillTyped, JumpFits
  <2>2. CASE ~ch.close_claimed
    <3>1. PlaceAt(t, "c_set", fr[t]) /\ "c_set" \in Labels /\ "close" \in use.may[t]
      BY <1>0, <1>1 DEF CloseClaims, At, PlaceAt, Labels
    <3>2. /\ ch' \in ChType /\ ch'.buf_elem_write_idx = ch.buf_elem_write_idx
          /\ ch'.buf_elem_read_idx = ch.buf_elem_read_idx
          /\ ch'.closed = ch.closed /\ ch'.close_claimed = TRUE /\ ch'.adr_written = ch.adr_written
      <4>1. ch \in ChType /\ ch' = [ch EXCEPT !.close_claimed = TRUE]
        BY <1>0, <1>1, <2>2 DEF CloseClaims
      <4> QED
        BY <4>1 DEF ChType
    <3>3. pc' = [pc EXCEPT ![t] = "c_set"] /\ UNCHANGED <<subs, mtx, sel, fr, obj, calls>>
      BY <1>1, <2>2 DEF CloseClaims, Goto, selVars
    <3>4. RestTyped
      <4>1. hist \in HistType /\ hist' = [hist EXCEPT !.early = hist.sent]
        BY <1>1, <2>2 DEF CloseClaims, TypeInv, Types
      <4>2. hist' \in HistType
        BY <4>1 DEF HistType
      <4> QED
        BY <3>3, <4>2 DEF RestTyped, TypeInv, Types
    <3>5. CloseInv'
      BY <1>c, <2>2, <3>1, <3>2, <3>3, CloseKept DEF Closing, CloseInv
    <3>6. IndexInv'
      BY <3>2 DEF IndexInv, TypeInv, Slot, Cap
    <3>7. Jump(t, "c_set", fr[t]) /\ StaysIn(t, "c_set", fr[t])
      BY <1>0, <3>1, <3>3 DEF Jump, StaysIn
    <3> QED
      BY <3>1, <3>2, <3>4, <3>5, <3>6, <3>7, JumpFits
  <2> QED
    BY <2>1, <2>2
<1>2. CASE CloseWaits(t)
  <2>1. fr[t].op = "close"
    BY <1>0, <1>2 DEF CloseWaits, At, PlaceAt
  <2> QED
    BY <1>2, <2>1, SameCh, CloseReturns DEF CloseWaits, selVars
<1>3. CASE CloseSets(t)
  <2>1. PlaceAt(t, "c_mark", fr[t]) /\ "c_mark" \in Labels \ {"idle", "sel"}
    BY <1>0, <1>3 DEF CloseSets, At, PlaceAt, Labels
  <2>2. /\ ch' \in ChType /\ ch'.buf_elem_write_idx = ch.buf_elem_write_idx
        /\ ch'.buf_elem_read_idx = ch.buf_elem_read_idx
        /\ ch'.closed = TRUE /\ ch'.close_claimed = ch.close_claimed /\ ch'.adr_written = ch.adr_written
    BY <1>0, <1>3 DEF CloseSets, ChType, ClosedMark
  <2>3. pc' = [pc EXCEPT ![t] = "c_mark"] /\ UNCHANGED <<subs, mtx, sel, fr, obj, calls, hist>> /\ pc[t] \in CloseLabels
    BY <1>3 DEF CloseSets, Goto, At, selVars
  <2>4. CloseInv'
    <3>1. ch.close_claimed /\ (pc[t] \in Closing => ch.closed)
      BY <1>c, <1>3 DEF CloseInv, CloseSets, At
    <3> QED
      BY <1>c, <1>3, <2>2, <2>3, <3>1, CloseKept DEF CloseSets, At, Closing, CloseInv
  <2>5. IndexInv'
    BY <2>2 DEF IndexInv, TypeInv, Slot, Cap
  <2>6. Jump(t, "c_mark", fr[t]) /\ StaysIn(t, "c_mark", fr[t])
    BY <1>0, <2>1, <2>3 DEF Jump, StaysIn
  <2> QED
    BY <2>1, <2>2, <2>3, <2>4, <2>5, <2>6, StillTyped, JumpFits
<1>4. CASE CloseMarks(t)
  <2>1. PlaceAt(t, "c_readers", fr[t]) /\ "c_readers" \in Labels \ {"idle", "sel"}
    BY <1>0, <1>4 DEF CloseMarks, At, PlaceAt, Labels
  <2>2. /\ ch' \in ChType /\ ch'.buf_elem_write_idx = ch.buf_elem_write_idx
        /\ ch'.buf_elem_read_idx = ch.buf_elem_read_idx
        /\ ch'.closed = ch.closed /\ ch'.close_claimed = ch.close_claimed /\ ch'.adr_written = ClosedMark
    BY <1>0, <1>4 DEF CloseMarks, ChType, ClosedMark
  <2>3. pc' = [pc EXCEPT ![t] = "c_readers"] /\ UNCHANGED <<subs, mtx, sel, fr, obj, calls, hist>> /\ pc[t] \in CloseLabels
    BY <1>4 DEF CloseMarks, Goto, At, selVars
  <2>4. CloseInv'
    <3>1. ch.close_claimed /\ (pc[t] \in Closing => ch.closed)
      BY <1>c, <1>4 DEF CloseInv, CloseMarks, At
    <3> QED
      BY <1>c, <1>4, <2>2, <2>3, <3>1, CloseKept DEF CloseMarks, At, Closing, CloseInv
  <2>5. IndexInv'
    BY <2>2 DEF IndexInv, TypeInv, Slot, Cap
  <2>6. Jump(t, "c_readers", fr[t]) /\ StaysIn(t, "c_readers", fr[t])
    BY <1>0, <2>1, <2>3 DEF Jump, StaysIn
  <2> QED
    BY <2>1, <2>2, <2>3, <2>4, <2>5, <2>6, StillTyped, JumpFits
<1>5. CASE ClosePostsReaders(t)
  <2>1. PlaceAt(t, "c_read_sub", fr[t]) /\ "c_read_sub" \in Labels \ {"idle", "sel"}
    BY <1>0, <1>5 DEF ClosePostsReaders, At, PlaceAt, Labels
  <2>2. /\ ch' \in ChType /\ ch'.buf_elem_write_idx = ch.buf_elem_write_idx
        /\ ch'.buf_elem_read_idx = ch.buf_elem_read_idx
        /\ ch'.closed = ch.closed /\ ch'.close_claimed = ch.close_claimed /\ ch'.adr_written = ch.adr_written
    <3> DEFINE n == ch.readsem + 1
               m == ch.readsem_im + 1
    <3>1. ch' = [ch EXCEPT !.readsem_im = m, !.readsem = n] /\ n \in Nat /\ m \in Nat
      BY <1>0, <1>5 DEF ClosePostsReaders, ChType
    <3> HIDE DEF n, m
    <3> QED
      BY <1>0, <3>1 DEF ChType
  <2>3. pc' = [pc EXCEPT ![t] = "c_read_sub"] /\ UNCHANGED <<subs, mtx, sel, fr, obj, calls, hist>> /\ pc[t] \in CloseLabels
    BY <1>5 DEF ClosePostsReaders, Goto, At, selVars
  <2>4. CloseInv'
    <3>1. ch.close_claimed /\ (pc[t] \in Closing => ch.closed)
      BY <1>c, <1>5 DEF CloseInv, ClosePostsReaders, At
    <3> QED
      BY <1>c, <1>5, <2>2, <2>3, <3>1, CloseKept DEF ClosePostsReaders, At, Closing, CloseInv
  <2>5. IndexInv'
    BY <2>2 DEF IndexInv, TypeInv, Slot, Cap
  <2>6. Jump(t, "c_read_sub", fr[t]) /\ StaysIn(t, "c_read_sub", fr[t])
    BY <1>0, <2>1, <2>3 DEF Jump, StaysIn
  <2> QED
    BY <2>1, <2>2, <2>3, <2>4, <2>5, <2>6, StillTyped, JumpFits
<1>6. CASE ClosePostsReadSub(t)
  <2>1. PlaceAt(t, "c_write_sub", fr[t]) /\ "c_write_sub" \in Labels \ {"idle", "sel"}
    BY <1>0, <1>6 DEF ClosePostsReadSub, At, PlaceAt, Labels
  <2>2. RestTyped
    BY <1>6, PostTyped DEF ClosePostsReadSub, RestTyped, TypeInv, Types, Directions
  <2> QED
    BY <1>6, <2>1, <2>2, SameCh, GoFits DEF ClosePostsReadSub, Goto, At, Closing
<1>7. CASE ClosePostsWriteSub(t)
  <2>1. PlaceAt(t, "c_writers", fr[t]) /\ "c_writers" \in Labels \ {"idle", "sel"}
    BY <1>0, <1>7 DEF ClosePostsWriteSub, At, PlaceAt, Labels
  <2>2. RestTyped
    BY <1>7, PostTyped DEF ClosePostsWriteSub, RestTyped, TypeInv, Types, Directions
  <2> QED
    BY <1>7, <2>1, <2>2, SameCh, GoFits DEF ClosePostsWriteSub, Goto, At, Closing
<1>8. CASE ClosePostsWriters(t)
  <2> DEFINE l == IF Cap = 0 THEN "c_unadvertise" ELSE "c_im"
  <2>1. PlaceAt(t, l, fr[t]) /\ l \in Labels \ {"idle", "sel"} /\ l \in Closing
    BY <1>0, <1>8 DEF ClosePostsWriters, At, PlaceAt, Labels, Closing
  <2>2. ChKept
    BY <1>0, <1>8 DEF ClosePostsWriters, ChType, ChKept
  <2>3. pc[t] \in Closing /\ pc[t] \in CloseLabels \ {"close"}
    BY <1>8 DEF ClosePostsWriters, At, Closing
  <2>4. pc' = [pc EXCEPT ![t] = l] /\ UNCHANGED <<subs, mtx, sel, fr, obj, calls, hist>>
    BY <1>8 DEF ClosePostsWriters, Goto, selVars
  <2> HIDE DEF l
  <2> QED
    BY <2>1, <2>2, <2>3, <2>4, StillTyped, GoFits
<1>9. CASE CloseUnadvertises(t)
  <2>1. PlaceAt(t, "c_im", fr[t]) /\ "c_im" \in Labels \ {"idle", "sel"}
    BY <1>0, <1>9 DEF CloseUnadvertises, At, PlaceAt, Labels
  <2>2. ChKept
    BY <1>0, <1>9 DEF CloseUnadvertises, ChType, ChKept, NULL, ClosedMark
  <2> QED
    BY <1>9, <2>1, <2>2, StillTyped, GoFits DEF CloseUnadvertises, Goto, At, selVars, Closing
<1>10. CASE CloseEnds(t)
  <2>1. fr[t].op = "close" /\ ChKept
    BY <1>0, <1>10 DEF CloseEnds, At, PlaceAt, ChType, ChKept
  <2> QED
    BY <1>10, <2>1, CloseReturns DEF CloseEnds, selVars
<1> QED
  BY <1>1, <1>2, <1>3, <1>4, <1>5, <1>6, <1>7, <1>8, <1>9, <1>10 DEF close


(* A call that is about to start is in no list. *)
LEMMA NotSubscribed ==
  ASSUME TypeInv, NEW t \in Thread, pc[t] \in {"idle", "sel"}, NEW d \in Directions
  PROVE  t \notin Range(subs[d])
BY DEF TypeInv, SubsInv

(* channel_select_priv until it sleeps. *)
LEMMA SelScanTyped ==
  ASSUME TypeInv, use' = use, NEW t \in Thread, SelSubscribes(t) \/ SelResult(t) \/ RecheckLock(t) \/ RecheckPeer(t) \/ RecheckEnds(t) \/ SelRescans(t)
  PROVE  TypeInv'
<1>0. /\ ch \in ChType /\ fr[t] \in FrameType /\ fr \in [Thread -> FrameType]
      /\ obj \in [Thread -> Value] /\ use \in Uses /\ PlaceAt(t, pc[t], fr[t])
  BY DEF TypeInv, Types, PlaceInv
<1> USE DEF PushLabels, PopLabels, CloseLabels, SelLabels, WaitLabels, ToSelLabels, WriterSec, ReaderSec
<1>1. CASE SelSubscribes(t)
  <2> DEFINE d == Dir(t)
  <2>1. /\ pc' = [pc EXCEPT ![t] = d] /\ subs' = [subs EXCEPT ![d] = Append(subs[d], t)]
        /\ UNCHANGED <<ch, mtx, fr, obj, calls, hist>>
        /\ sel' = [sel EXCEPT ![t] = [state |-> "scanning", sem |-> 0]]
    BY <1>1 DEF SelSubscribes, Goto
  <2>2. d \in {"push", "pop"} /\ fr[t].op = SelOf(d) /\ d \in Directions
    BY <1>0, <1>1 DEF SelSubscribes, At, PlaceAt, Dir, SelOf, SelOps, PushOps, Directions
  <2>3. t \notin Range(subs[d]) /\ \A e \in Directions : IsInjective(subs[e]) /\ subs[e] \in Seq(Thread)
    BY <1>1, <2>2, NotSubscribed DEF SelSubscribes, At, TypeInv, Types, SubsInv
  <2>4. PlaceAt(t, d, fr[t]) /\ d \in Labels
    BY <1>0, <1>1, <2>2 DEF SelSubscribes, At, PlaceAt, Labels, SelOf, PushOps, PopOps, SelOps
  <2> HIDE DEF d
  <2>5. subs' \in [Directions -> Seq(Thread)]
    <3>1. Append(subs[d], t) \in Seq(Thread) /\ subs \in [Directions -> Seq(Thread)]
      BY <2>2, <2>3 DEF TypeInv, Types
    <3> QED
      BY <2>1, <3>1
  <2>6. SubsInv'
    <3>0. pc \in [Thread -> Labels] /\ subs \in [Directions -> Seq(Thread)]
      BY DEF TypeInv, Types
    <3>1. ASSUME NEW e \in Directions
          PROVE  IsInjective(subs'[e]) /\ \A s \in Range(subs'[e]) : pc'[s] \notin {"idle", "sel"} /\ fr'[s].op = SelOf(e)
      <4>1. \A s \in Range(subs[e]) : s \in Thread /\ pc[s] \notin {"idle", "sel"} /\ fr[s].op = SelOf(e)
        BY <2>3, RangeFacts DEF TypeInv, SubsInv
      <4>2. \A s \in Range(subs[e]) : pc'[s] \notin {"idle", "sel"} /\ fr'[s].op = SelOf(e)
        BY <2>1, <2>2, <3>0, <4>1
      <4>3. CASE e = d
        <5>1. subs'[e] = Append(subs[d], t)
          BY <2>1, <2>2, <3>0, <4>3
        <5>2. Range(subs'[e]) = Range(subs[d]) \cup {t} /\ IsInjective(subs'[e])
          BY <2>2, <2>3, <5>1, AppendFacts
        <5>3. pc'[t] = d /\ fr'[t].op = SelOf(d)
          BY <2>1, <2>2, <3>0
        <5> QED
          BY <2>2, <4>2, <4>3, <5>2, <5>3
      <4>4. CASE e # d
        BY <2>1, <2>3, <3>0, <4>2, <4>4
      <4> QED
        BY <4>3, <4>4
    <3> QED
      BY <3>1 DEF SubsInv
  <2>7. PlaceInv'
    <3>1. \A u \in Thread : PlaceAt(u, pc'[u], fr'[u])
      BY <2>1, <2>4 DEF TypeInv, PlaceInv, Types
    <3> QED
      BY <3>1 DEF PlaceInv, PlaceAt, Cap, Slot
  <2>8. CloseInv' /\ IndexInv'
    <3>1. \A u \in Thread : pc'[u] \in CloseLabels => pc'[u] = pc[u]
      BY <2>1, <2>2 DEF TypeInv, Types
    <3> QED
      BY <2>1, <3>1 DEF TypeInv, CloseInv, IndexInv, Cap, Slot, Closers, Closing
  <2>9. Types'
    <3>1. pc' \in [Thread -> Labels]
      BY <2>1, <2>4 DEF TypeInv, Types
    <3>2. sel' \in [Thread -> [state : {"scanning", "waiting", "claimed", "served"}, sem : Nat]]
      BY <2>1, SelTyped
    <3>3. ChType' = ChType
      BY DEF ChType, Slot, Cap
    <3> QED
      BY <2>1, <2>5, <3>1, <3>2, <3>3 DEF TypeInv, Types
  <2> QED
    BY <2>6, <2>7, <2>8, <2>9 DEF TypeInv
<1>2. CASE SelResult(t)
  <2>1. CASE fr[t].result # "not_ready"
    <3>1. PlaceAt(t, "sel_leave", fr[t]) /\ "sel_leave" \in Labels \ ({"idle", "sel"} \cup CloseLabels)
      BY <1>0, <1>2, <2>1 DEF SelResult, At, PlaceAt, Labels
    <3>2. pc' = [pc EXCEPT ![t] = "sel_leave"] /\ UNCHANGED <<ch, subs, fr>>
      BY <1>0, <1>2, <2>1 DEF SelResult, Goto, selVars
    <3>3. RestTyped
      BY <1>2, <2>1, StillTyped DEF SelResult
    <3> QED
      BY <3>1, <3>2, <3>3, SameCh, GoFits DEF Closing
  <2>2. CASE fr[t].result = "not_ready" /\ fr[t].tmo = "else"
    <3> DEFINE f == [fr[t] EXCEPT !.result = "timeout"]
    <3>1. f \in FrameType /\ f.op = fr[t].op /\ f.tmo = fr[t].tmo
          /\ f.have_swapped = fr[t].have_swapped
      BY <1>0 DEF FrameType, NULL, Results
    <3>2. fr' = [fr EXCEPT ![t] = f] /\ pc' = [pc EXCEPT ![t] = "sel_leave"] /\ UNCHANGED <<ch, subs>>
      BY <1>0, <1>2, <2>2 DEF SelResult, Goto, At, selVars, TypeInv, Types
    <3> HIDE DEF f
    <3>3. PlaceAt(t, "sel_leave", f) /\ "sel_leave" \in Labels
      BY <1>0, <1>2, <3>1 DEF PlaceAt, SelResult, At, Labels
    <3>4. RestTyped
      BY <1>2, <2>2, StillTyped DEF SelResult
    <3> QED
      BY <3>1, <3>2, <3>3, <3>4, SameCh, LocalFits
  <2>3. CASE fr[t].result = "not_ready" /\ fr[t].tmo # "else" /\ Cap = 0
    <3>1. PlaceAt(t, "sel_recheck", fr[t]) /\ "sel_recheck" \in Labels \ ({"idle", "sel"} \cup CloseLabels)
      BY <1>0, <1>2, <2>3 DEF SelResult, At, PlaceAt, Labels
    <3>2. pc' = [pc EXCEPT ![t] = "sel_recheck"] /\ UNCHANGED <<ch, subs, fr>>
      BY <1>0, <1>2, <2>3 DEF SelResult, Goto, selVars
    <3>3. RestTyped
      <4>1. sel' = [sel EXCEPT ![t].state = "waiting"] /\ UNCHANGED <<mtx, obj, calls, hist>>
        BY <1>2, <2>3 DEF SelResult
      <4>2. sel' \in [Thread -> [state : {"scanning", "waiting", "claimed", "served"}, sem : Nat]]
        BY <4>1, SelTyped
      <4> QED
        BY <4>1, <4>2 DEF RestTyped, TypeInv, Types
    <3> QED
      BY <3>1, <3>2, <3>3, SameCh, GoFits DEF Closing
  <2>4. CASE fr[t].result = "not_ready" /\ fr[t].tmo # "else" /\ Cap # 0
    <3>1. PlaceAt(t, "sel_sleep", fr[t]) /\ "sel_sleep" \in Labels \ ({"idle", "sel"} \cup CloseLabels)
      BY <1>0, <1>2, <2>4 DEF SelResult, At, PlaceAt, Labels
    <3>2. pc' = [pc EXCEPT ![t] = "sel_sleep"] /\ UNCHANGED <<ch, subs, fr>>
      BY <1>0, <1>2, <2>4 DEF SelResult, Goto, selVars
    <3>3. RestTyped
      <4>1. sel' = [sel EXCEPT ![t].state = "waiting"] /\ UNCHANGED <<mtx, obj, calls, hist>>
        BY <1>2, <2>4 DEF SelResult
      <4>2. sel' \in [Thread -> [state : {"scanning", "waiting", "claimed", "served"}, sem : Nat]]
        BY <4>1, SelTyped
      <4> QED
        BY <4>1, <4>2 DEF RestTyped, TypeInv, Types
    <3> QED
      BY <3>1, <3>2, <3>3, SameCh, GoFits DEF Closing
  <2> QED
    BY <2>1, <2>2, <2>3, <2>4
<1>3. CASE RecheckLock(t)
  <2> DEFINE f == [fr[t] EXCEPT !.adr = 1, !.found = FALSE]
  <2>1. f \in FrameType /\ f.op = fr[t].op /\ f.tmo = fr[t].tmo
        /\ f.have_swapped = fr[t].have_swapped /\ f.adr = 1
    BY <1>0 DEF FrameType, NULL, Results
  <2>2. fr' = [fr EXCEPT ![t] = f] /\ pc' = [pc EXCEPT ![t] = "sel_recheck_scan"] /\ UNCHANGED <<ch, subs>>
    BY <1>0, <1>3 DEF RecheckLock, Goto, selVars
  <2> HIDE DEF f
  <2>3. PlaceAt(t, "sel_recheck_scan", f) /\ "sel_recheck_scan" \in Labels
    BY <1>0, <1>3, <2>1 DEF PlaceAt, RecheckLock, At, Labels
  <2>4. RestTyped
    BY <1>3, MtxTyped, DirFacts DEF RecheckLock, RestTyped, TypeInv, Types
  <2> QED
    BY <2>1, <2>2, <2>3, <2>4, SameCh, LocalFits
<1>4. CASE RecheckPeer(t)
  <2> DEFINE s == subs[Peer(Dir(t))][fr[t].adr]
  <2>0. fr[t].adr \in Nat /\ fr[t].found \in BOOLEAN
    BY <1>0 DEF FrameType
  <2> DEFINE i == fr[t].adr + 1
             b == fr[t].found \/ sel[s].state = "waiting"
  <2>000. i \in Nat /\ i > 0 /\ b \in BOOLEAN
    BY <2>0
  <2>00. s \in Thread
    BY <1>0, <1>4, <2>0, EntryFacts, DirFacts DEF s, PlaceAt, RecheckPeer, At
  <2>1. CASE sel[s].state = "waiting" /\ s < t
    <3> DEFINE f == [fr[t] EXCEPT !.adr = NULL, !.found = FALSE]
    <3>1. f \in FrameType /\ f.op = fr[t].op /\ f.tmo = fr[t].tmo
          /\ f.have_swapped = fr[t].have_swapped
      BY <1>0 DEF FrameType, NULL, Results
    <3>2. fr' = [fr EXCEPT ![t] = f] /\ pc' = [pc EXCEPT ![t] = "sel_sleep"] /\ UNCHANGED <<ch, subs>>
      BY <1>0, <1>4, <2>1 DEF RecheckPeer, Goto, At, selVars, TypeInv, Types
    <3> HIDE DEF f
    <3>3. PlaceAt(t, "sel_sleep", f) /\ "sel_sleep" \in Labels
      BY <1>0, <1>4, <3>1 DEF PlaceAt, RecheckPeer, At, Labels
    <3>4. RestTyped
      <4>1. /\ sel' = [sel EXCEPT ![s].sem = @ + 1] /\ UNCHANGED <<obj, calls, hist>>
            /\ mtx' = [mtx EXCEPT ![Peer(Dir(t))] = NULL]
        BY <1>4, <2>1 DEF RecheckPeer, s
      <4>2. sel' \in [Thread -> [state : {"scanning", "waiting", "claimed", "served"}, sem : Nat]]
        BY <2>00, <4>1, SelTyped
      <4>3. mtx' \in [Directions -> Thread \cup {NULL}]
        BY <4>1, MtxTyped, DirFacts
      <4> QED
        BY <4>1, <4>2, <4>3 DEF RestTyped, TypeInv, Types
    <3> QED
      BY <3>1, <3>2, <3>3, <3>4, SameCh, LocalFits
  <2>2. CASE ~(sel[s].state = "waiting" /\ s < t)
    <3> DEFINE f == [fr[t] EXCEPT !.adr = i, !.found = b]
    <3> HIDE DEF i, b
    <3>1. f \in FrameType /\ f.op = fr[t].op /\ f.tmo = fr[t].tmo
          /\ f.have_swapped = fr[t].have_swapped /\ f.adr > 0
      BY <1>0, <2>000 DEF FrameType, NULL, Results
    <3>2. fr' = [fr EXCEPT ![t] = f] /\ pc' = [pc EXCEPT ![t] = "sel_recheck_scan"] /\ UNCHANGED <<ch, subs>>
      BY <1>0, <1>4, <2>2 DEF RecheckPeer, i, b, Goto, At, selVars, TypeInv, Types
    <3> HIDE DEF f
    <3>3. PlaceAt(t, "sel_recheck_scan", f) /\ "sel_recheck_scan" \in Labels
      BY <1>0, <1>4, <3>1 DEF PlaceAt, RecheckPeer, At, Labels
    <3>4. RestTyped
      BY <1>4, <2>2, StillTyped DEF RecheckPeer, s
    <3> QED
      BY <3>1, <3>2, <3>3, <3>4, SameCh, LocalFits
  <2> QED
    BY <2>1, <2>2
<1>5. CASE RecheckEnds(t)
  <2> DEFINE l == IF fr[t].found THEN "sel_rescan" ELSE "sel_sleep"
  <2>0. l \notin {"idle", "sel"} \cup CloseLabels
    OBVIOUS
  <2> DEFINE f == [fr[t] EXCEPT !.adr = NULL, !.found = FALSE]
  <2>1. f \in FrameType /\ f.op = fr[t].op /\ f.tmo = fr[t].tmo
        /\ f.have_swapped = fr[t].have_swapped
    BY <1>0 DEF FrameType, NULL, Results
  <2>2. fr' = [fr EXCEPT ![t] = f] /\ pc' = [pc EXCEPT ![t] = l] /\ UNCHANGED <<ch, subs>>
    BY <1>0, <1>5 DEF RecheckEnds, Goto, selVars
  <2> HIDE DEF f
  <2>3. PlaceAt(t, l, f) /\ l \in Labels
    BY <1>0, <1>5, <2>1 DEF PlaceAt, RecheckEnds, At, Labels
  <2>4. RestTyped
    BY <1>5, MtxTyped, DirFacts DEF RecheckEnds, RestTyped, TypeInv, Types
  <2> HIDE DEF l
  <2> QED
    BY <2>0, <2>1, <2>2, <2>3, <2>4, SameCh, LocalFits
<1>6. CASE SelRescans(t)
  <2>1. CASE sel[t].state = "waiting"
    <3>1. PlaceAt(t, Dir(t), fr[t]) /\ Dir(t) \in Labels \ ({"idle", "sel"} \cup CloseLabels)
      BY <1>0, <1>6, <2>1 DEF SelRescans, At, PlaceAt, Labels, Dir, PushOps, PopOps, SelOps
    <3>2. pc' = [pc EXCEPT ![t] = Dir(t)] /\ UNCHANGED <<ch, subs, fr>>
      BY <1>0, <1>6, <2>1 DEF SelRescans, Goto, selVars
    <3>3. RestTyped
      <4>1. sel' = [sel EXCEPT ![t].state = "scanning"] /\ UNCHANGED <<mtx, obj, calls, hist>>
        BY <1>6, <2>1 DEF SelRescans
      <4>2. sel' \in [Thread -> [state : {"scanning", "waiting", "claimed", "served"}, sem : Nat]]
        BY <4>1, SelTyped
      <4> QED
        BY <4>1, <4>2 DEF RestTyped, TypeInv, Types
    <3> QED
      BY <3>1, <3>2, <3>3, SameCh, GoFits DEF Closing
  <2>2. CASE sel[t].state # "waiting"
    <3>1. PlaceAt(t, "sel_sleep", fr[t]) /\ "sel_sleep" \in Labels \ ({"idle", "sel"} \cup CloseLabels)
      BY <1>0, <1>6, <2>2 DEF SelRescans, At, PlaceAt, Labels
    <3>2. pc' = [pc EXCEPT ![t] = "sel_sleep"] /\ UNCHANGED <<ch, subs, fr>>
      BY <1>0, <1>6, <2>2 DEF SelRescans, Goto, selVars
    <3>3. RestTyped
      BY <1>6, <2>2, StillTyped DEF SelRescans
    <3> QED
      BY <3>1, <3>2, <3>3, SameCh, GoFits DEF Closing
  <2> QED
    BY <2>1, <2>2
<1> QED
  BY <1>1, <1>2, <1>3, <1>4, <1>5, <1>6

(* channel_select_priv from its sleep on. *)
LEMMA SelEndTyped ==
  ASSUME TypeInv, use' = use, NEW t \in Thread, SelWakes(t) \/ SelOutOfTime(t) \/ SelWoken(t) \/ SelServed(t) \/ SelLeaves(t)
  PROVE  TypeInv'
<1>0. /\ ch \in ChType /\ fr[t] \in FrameType /\ fr \in [Thread -> FrameType]
      /\ obj \in [Thread -> Value] /\ use \in Uses /\ PlaceAt(t, pc[t], fr[t])
  BY DEF TypeInv, Types, PlaceInv
<1> USE DEF PushLabels, PopLabels, CloseLabels, SelLabels, WaitLabels, ToSelLabels, WriterSec, ReaderSec
<1>1. CASE SelWakes(t)
  <2>1. CASE sel[t].sem > 0
    <3>1. PlaceAt(t, "sel_woken", fr[t]) /\ "sel_woken" \in Labels \ ({"idle", "sel"} \cup CloseLabels)
      BY <1>0, <1>1, <2>1 DEF SelWakes, At, PlaceAt, Labels
    <3>2. pc' = [pc EXCEPT ![t] = "sel_woken"] /\ UNCHANGED <<ch, subs, fr>>
      BY <1>0, <1>1, <2>1 DEF SelWakes, Goto, selVars
    <3>3. RestTyped
      <4>1. sel' = [sel EXCEPT ![t].sem = @ - 1] /\ UNCHANGED <<mtx, obj, calls, hist>>
        BY <1>1, <2>1 DEF SelWakes
      <4>2. sel' \in [Thread -> [state : {"scanning", "waiting", "claimed", "served"}, sem : Nat]]
        BY <2>1, <4>1, SelTyped
      <4> QED
        BY <4>1, <4>2 DEF RestTyped, TypeInv, Types
    <3> QED
      BY <3>1, <3>2, <3>3, SameCh, GoFits DEF Closing
  <2>2. CASE ~(sel[t].sem > 0)
    <3> DEFINE f == [fr[t] EXCEPT !.result = "timeout"]
    <3>1. f \in FrameType /\ f.op = fr[t].op /\ f.tmo = fr[t].tmo
          /\ f.have_swapped = fr[t].have_swapped
      BY <1>0 DEF FrameType, NULL, Results
    <3>2. fr' = [fr EXCEPT ![t] = f] /\ pc' = [pc EXCEPT ![t] = "sel_woken"] /\ UNCHANGED <<ch, subs>>
      BY <1>0, <1>1, <2>2 DEF SelWakes, Goto, At, selVars, TypeInv, Types
    <3> HIDE DEF f
    <3>3. PlaceAt(t, "sel_woken", f) /\ "sel_woken" \in Labels
      BY <1>0, <1>1, <3>1 DEF PlaceAt, SelWakes, At, Labels
    <3>4. RestTyped
      BY <1>1, <2>2, StillTyped DEF SelWakes
    <3> QED
      BY <3>1, <3>2, <3>3, <3>4, SameCh, LocalFits
  <2> QED
    BY <2>1, <2>2
<1>2. CASE SelOutOfTime(t)
  <2>1. CASE TRUE
    <3> DEFINE f == [fr[t] EXCEPT !.result = "timeout"]
    <3>1. f \in FrameType /\ f.op = fr[t].op /\ f.tmo = fr[t].tmo
          /\ f.have_swapped = fr[t].have_swapped
      BY <1>0 DEF FrameType, NULL, Results
    <3>2. fr' = [fr EXCEPT ![t] = f] /\ pc' = [pc EXCEPT ![t] = "sel_leave"] /\ UNCHANGED <<ch, subs>>
      BY <1>0, <1>2, <2>1 DEF SelOutOfTime, Goto, At, selVars, TypeInv, Types
    <3> HIDE DEF f
    <3>3. PlaceAt(t, "sel_leave", f) /\ "sel_leave" \in Labels
      BY <1>0, <1>2, <3>1 DEF PlaceAt, SelOutOfTime, At, Labels
    <3>4. RestTyped
      <4>1. sel' = [sel EXCEPT ![t].state = "scanning"] /\ UNCHANGED <<mtx, obj, calls, hist>>
        BY <1>2, <2>1 DEF SelOutOfTime
      <4>2. sel' \in [Thread -> [state : {"scanning", "waiting", "claimed", "served"}, sem : Nat]]
        BY <4>1, SelTyped
      <4> QED
        BY <4>1, <4>2 DEF RestTyped, TypeInv, Types
    <3> QED
      BY <3>1, <3>2, <3>3, <3>4, SameCh, LocalFits
  <2> QED
    BY <2>1
<1>3. CASE SelWoken(t)
  <2>1. CASE sel[t].state = "waiting" /\ fr[t].result = "timeout"
    <3>1. PlaceAt(t, "sel_leave", fr[t]) /\ "sel_leave" \in Labels \ ({"idle", "sel"} \cup CloseLabels)
      BY <1>0, <1>3, <2>1 DEF SelWoken, At, PlaceAt, Labels
    <3>2. pc' = [pc EXCEPT ![t] = "sel_leave"] /\ UNCHANGED <<ch, subs, fr>>
      BY <1>0, <1>3, <2>1 DEF SelWoken, Goto, selVars
    <3>3. RestTyped
      <4>1. sel' = [sel EXCEPT ![t].state = "scanning"] /\ UNCHANGED <<mtx, obj, calls, hist>>
        BY <1>3, <2>1 DEF SelWoken
      <4>2. sel' \in [Thread -> [state : {"scanning", "waiting", "claimed", "served"}, sem : Nat]]
        BY <4>1, SelTyped
      <4> QED
        BY <4>1, <4>2 DEF RestTyped, TypeInv, Types
    <3> QED
      BY <3>1, <3>2, <3>3, SameCh, GoFits DEF Closing
  <2>2. CASE sel[t].state = "waiting" /\ fr[t].result # "timeout"
    <3>1. PlaceAt(t, Dir(t), fr[t]) /\ Dir(t) \in Labels \ ({"idle", "sel"} \cup CloseLabels)
      BY <1>0, <1>3, <2>2 DEF SelWoken, At, PlaceAt, Labels, Dir, PushOps, PopOps, SelOps
    <3>2. pc' = [pc EXCEPT ![t] = Dir(t)] /\ UNCHANGED <<ch, subs, fr>>
      BY <1>0, <1>3, <2>2 DEF SelWoken, Goto, selVars
    <3>3. RestTyped
      <4>1. sel' = [sel EXCEPT ![t].state = "scanning"] /\ UNCHANGED <<mtx, obj, calls, hist>>
        BY <1>3, <2>2 DEF SelWoken
      <4>2. sel' \in [Thread -> [state : {"scanning", "waiting", "claimed", "served"}, sem : Nat]]
        BY <4>1, SelTyped
      <4> QED
        BY <4>1, <4>2 DEF RestTyped, TypeInv, Types
    <3> QED
      BY <3>1, <3>2, <3>3, SameCh, GoFits DEF Closing
  <2>3. CASE sel[t].state # "waiting"
    <3>1. PlaceAt(t, "sel_claimed", fr[t]) /\ "sel_claimed" \in Labels \ ({"idle", "sel"} \cup CloseLabels)
      BY <1>0, <1>3, <2>3 DEF SelWoken, At, PlaceAt, Labels
    <3>2. pc' = [pc EXCEPT ![t] = "sel_claimed"] /\ UNCHANGED <<ch, subs, fr>>
      BY <1>0, <1>3, <2>3 DEF SelWoken, Goto, selVars
    <3>3. RestTyped
      BY <1>3, <2>3, StillTyped DEF SelWoken
    <3> QED
      BY <3>1, <3>2, <3>3, SameCh, GoFits DEF Closing
  <2> QED
    BY <2>1, <2>2, <2>3
<1>4. CASE SelServed(t)
  <2> DEFINE f == [fr[t] EXCEPT !.result = "success"]
  <2>1. f \in FrameType /\ f.op = fr[t].op /\ f.tmo = fr[t].tmo
        /\ f.have_swapped = fr[t].have_swapped
    BY <1>0 DEF FrameType, NULL, Results
  <2>2. fr' = [fr EXCEPT ![t] = f] /\ pc' = [pc EXCEPT ![t] = "sel_leave"] /\ UNCHANGED <<ch, subs>>
    BY <1>0, <1>4 DEF SelServed, Goto, selVars
  <2> HIDE DEF f
  <2>3. PlaceAt(t, "sel_leave", f) /\ "sel_leave" \in Labels
    BY <1>0, <1>4, <2>1 DEF PlaceAt, SelServed, At, Labels
  <2>4. RestTyped
    BY <1>4, StillTyped DEF SelServed, selVars
  <2> QED
    BY <2>1, <2>2, <2>3, <2>4, SameCh, LocalFits
<1>5. CASE SelLeaves(t)
  <2> DEFINE d == Dir(t)
  <2>0. fr[t].result \in Results /\ fr[t].op \in SelOps
    BY <1>0, <1>5 DEF FrameType, SelLeaves, At, PlaceAt
  <2>1. /\ pc' = [pc EXCEPT ![t] = "idle"] /\ fr' = [fr EXCEPT ![t] = Frame0] /\ hist' \in HistType
        /\ subs' = [subs EXCEPT ![d] = RemoveFirst(subs[d], t)]
        /\ UNCHANGED <<ch, mtx, obj, calls>>
    BY <1>5, <2>0, FinishFacts DEF SelLeaves, TypeInv
  <2>2. d \in Directions /\ fr[t].op = SelOf(d)
    BY <2>0 DEF Dir, SelOf, SelOps, PushOps, Directions
  <2>3. \A e \in Directions : IsInjective(subs[e]) /\ subs[e] \in Seq(Thread)
    BY DEF TypeInv, Types, SubsInv
  <2> HIDE DEF d
  <2>4. /\ RemoveFirst(subs[d], t) \in Seq(Thread) /\ IsInjective(RemoveFirst(subs[d], t))
        /\ Range(RemoveFirst(subs[d], t)) = Range(subs[d]) \ {t}
    BY <2>2, <2>3, RemoveFirstFacts
  <2>5. subs' \in [Directions -> Seq(Thread)]
    BY <2>1, <2>4 DEF TypeInv, Types
  <2>6. SubsInv'
    <3>0. pc \in [Thread -> Labels] /\ subs \in [Directions -> Seq(Thread)]
      BY DEF TypeInv, Types
    <3>1. ASSUME NEW e \in Directions
          PROVE  IsInjective(subs'[e]) /\ \A s \in Range(subs'[e]) : pc'[s] \notin {"idle", "sel"} /\ fr'[s].op = SelOf(e)
      <4>1. \A s \in Range(subs[e]) : s \in Thread /\ pc[s] \notin {"idle", "sel"} /\ fr[s].op = SelOf(e)
        BY <2>3, RangeFacts DEF TypeInv, SubsInv
      <4>2. \A s \in Range(subs[e]) : s # t => pc'[s] \notin {"idle", "sel"} /\ fr'[s].op = SelOf(e)
        BY <1>0, <2>1, <3>0, <4>1
      <4>3. CASE e = d
        BY <2>1, <2>2, <2>4, <3>0, <4>2, <4>3
      <4>4. CASE e # d
        <5>1. SelOf(e) # SelOf(d)
          BY <2>2, <4>4 DEF SelOf, Directions
        <5>2. t \notin Range(subs[e])
          BY <2>2, <4>1, <5>1
        <5> QED
          BY <2>1, <2>3, <3>0, <4>2, <4>4, <5>2
      <4> QED
        BY <4>3, <4>4
    <3> QED
      BY <3>1 DEF SubsInv
  <2>f. Frame0 \in FrameType
    BY DEF Frame0, FrameType, NULL, Timeouts, Results, Ops, PushOps, PopOps
  <2>7. PlaceInv'
    <3>1. PlaceAt(t, "idle", Frame0)
      BY DEF PlaceAt, Frame0
    <3>2. \A u \in Thread : PlaceAt(u, pc'[u], fr'[u])
      BY <1>0, <2>1, <3>1 DEF TypeInv, PlaceInv, Types
    <3> QED
      BY <3>2 DEF PlaceInv, PlaceAt, Cap, Slot
  <2>8. CloseInv' /\ IndexInv'
    <3>1. \A u \in Thread : pc'[u] \in CloseLabels => pc'[u] = pc[u]
      BY <2>1 DEF TypeInv, Types
    <3> QED
      BY <2>1, <3>1 DEF TypeInv, CloseInv, IndexInv, Cap, Slot, Closers, Closing
  <2>9. Types'
    <3>1. pc' \in [Thread -> Labels] /\ fr' \in [Thread -> FrameType]
      BY <1>0, <2>1, <2>f DEF TypeInv, Types, Labels
    <3>2. sel' \in [Thread -> [state : {"scanning", "waiting", "claimed", "served"}, sem : Nat]]
      <4> DEFINE S == [state : {"scanning", "waiting", "claimed", "served"}, sem : Nat]
      <4>1. sel \in [Thread -> S]
        BY DEF TypeInv, Types
      <4>2. \A s \in Thread : sel[s] \in S /\ [sel[s] EXCEPT !.sem = @ + 1] \in S
        BY <4>1
      <4> HIDE DEF S
      <4>3. sel' \in [Thread -> S]
        BY <1>5, <4>2 DEF SelLeaves
      <4> QED
        BY <4>3 DEF S
    <3>3. ChType' = ChType
      BY DEF ChType, Slot, Cap
    <3> QED
      BY <2>1, <2>5, <3>1, <3>2, <3>3 DEF TypeInv, Types
  <2> QED
    BY <2>6, <2>7, <2>8, <2>9 DEF TypeInv
<1> QED
  BY <1>1, <1>2, <1>3, <1>4, <1>5

(* A call starts. *)
LEMMA BeginTyped ==
  ASSUME TypeInv, use' = use, NEW t \in Thread, Begin(t)
  PROVE  TypeInv'
<1> USE DEF PushLabels, PopLabels, CloseLabels, SelLabels, WaitLabels, ToSelLabels, WriterSec, ReaderSec
<1>0. /\ ch \in ChType /\ fr \in [Thread -> FrameType] /\ obj \in [Thread -> Value]
      /\ calls \in [Thread -> 0 .. MaxCalls] /\ use \in Uses
  BY DEF TypeInv, Types
<1>1. PICK o \in use.may[t], tmo \in use.timeouts \cup {"inf"} :
        /\ At(t, "idle")
        /\ calls[t] < use.calls
        /\ calls' = [calls EXCEPT ![t] = @ + 1]
        /\ fr' = [fr EXCEPT ![t] = [Frame0 EXCEPT !.op = o, !.tmo = tmo]]
        /\ obj' = [obj EXCEPT ![t] = IF o \in PushOps THEN <<t, calls[t] + 1>> ELSE NoVal]
        /\ Goto(t, CASE o \in {"push", "try_push"} -> "push"
                     [] o \in {"pop", "try_pop"} -> "pop"
                     [] o = "close" -> "close"
                     [] OTHER -> "sel")
        /\ UNCHANGED <<ch, selVars, hist>>
  BY DEF Begin
<1>2. o \in Ops /\ tmo \in Timeouts /\ tmo \in use.timeouts \cup {"inf"}
  BY <1>0, <1>1, UseFacts DEF Timeouts
<1> DEFINE f == [Frame0 EXCEPT !.op = o, !.tmo = tmo]
           l == pc'[t]
<1>3. /\ l \in {"push", "pop", "close", "sel"} /\ pc' = [pc EXCEPT ![t] = l]
      /\ l = "push" => o \in PushOps
      /\ l = "pop" => o \in PopOps
      /\ l = "close" => o = "close"
      /\ l = "sel" => o \in SelOps
  <2>0. pc \in [Thread -> Labels]
    BY DEF TypeInv, Types
  <2>1. CASE o \in {"push", "try_push"}
    BY <1>1, <2>0, <2>1 DEF Goto, PushOps
  <2>2. CASE o \in {"pop", "try_pop"}
    BY <1>1, <2>0, <2>2 DEF Goto, PopOps
  <2>3. CASE o = "close"
    BY <1>1, <2>0, <2>3 DEF Goto
  <2>4. CASE o \in SelOps
    BY <1>1, <2>0, <2>4 DEF Goto, SelOps
  <2> QED
    BY <1>2, <2>1, <2>2, <2>3, <2>4 DEF Ops, PushOps, PopOps, SelOps
<1>4. f \in FrameType /\ f.op = o /\ f.tmo = tmo /\ f.have_swapped = FALSE /\ fr' = [fr EXCEPT ![t] = f]
  BY <1>1, <1>2 DEF FrameType, Frame0, NULL, Results
<1>5. pc[t] = "idle" /\ UNCHANGED <<ch, subs, mtx, sel, hist>>
  BY <1>1 DEF At, selVars
<1> HIDE DEF f, l
<1>6. PlaceAt(t, l, f)
  BY <1>2, <1>3, <1>4 DEF PlaceAt
<1>7. Jump(t, l, f) /\ StaysIn(t, l, f)
  BY <1>3, <1>4, <1>5 DEF Jump, StaysIn, Labels
<1>8. RestTyped
  <2>1. calls[t] \in 0 .. MaxCalls /\ use.calls \in 0 .. MaxCalls /\ MaxCalls \in Nat
    BY <1>0, UseFacts
  <2>2. calls[t] + 1 \in 1 .. MaxCalls
    BY <1>1, <2>1
  <2>3. calls' \in [Thread -> 0 .. MaxCalls]
    BY <1>0, <1>1, <2>1, <2>2
  <2>4. <<t, calls[t] + 1>> \in Value /\ NoVal \in Value
    BY <2>2 DEF Value
  <2>5. obj' \in [Thread -> Value]
    BY <1>0, <1>1, <2>4
  <2> QED
    BY <1>5, <2>3, <2>5 DEF RestTyped, TypeInv, Types
<1> QED
  BY <1>3, <1>5, <1>6, <1>7, <1>8, SameCh, KeepFits DEF Closing

LEMMA TypeInit ==
  ASSUME Init
  PROVE  TypeInv
<1>1. use \in Uses /\ Cap \in Nat /\ Slot = 0 .. Cap - 1
  BY UseFacts DEF Init
<1>2. ch \in ChType
  <2> DEFINE w == IF Cap > 0 THEN Cap ELSE 1
             r == IF Cap > 0 THEN 0 ELSE 1
  <2>1. w \in Nat /\ r \in Nat
    BY <1>1
  <2>2. [i \in Slot |-> "unused"] \in [Slot -> {"unused", "writing", "written", "reading"}]
    OBVIOUS
  <2>3. [i \in Slot |-> NoVal] \in [Slot -> Value]
    BY DEF Value
  <2>4. ch = [closed |-> FALSE, close_claimed |-> FALSE, writesem |-> w, readsem |-> r,
              writesem_im |-> 0, readsem_im |-> 0,
              write_adr |-> NULL, read_adr |-> NULL, adr_read |-> NULL, adr_written |-> NULL,
              write_free |-> Cap, read_avail |-> 0,
              buf_elem_write_idx |-> 0, buf_elem_read_idx |-> 0,
              statusbuf |-> [i \in Slot |-> "unused"], ringbuf |-> [i \in Slot |-> NoVal]]
    BY DEF Init
  <2> HIDE DEF w, r
  <2> QED
    BY <1>1, <2>1, <2>2, <2>3, <2>4 DEF ChType
<1>3. Frame0 \in FrameType
  BY DEF Frame0, FrameType, NULL, Timeouts, Results, Ops, PushOps, PopOps
<1>4. Types
  <2>1. hist \in HistType
    BY DEF Init, HistType
  <2>2. sel \in [Thread -> [state : {"scanning", "waiting", "claimed", "served"}, sem : Nat]]
    BY DEF Init
  <2>3. obj \in [Thread -> Value] /\ calls \in [Thread -> 0 .. MaxCalls] /\ fr \in [Thread -> FrameType]
    BY <1>3, SyncChanAssumption DEF Init, Value
  <2>4. pc \in [Thread -> Labels] /\ subs \in [Directions -> Seq(Thread)]
        /\ mtx \in [Directions -> Thread \cup {NULL}]
    BY DEF Init, Labels, Directions
  <2> QED
    BY <1>1, <1>2, <2>1, <2>2, <2>3, <2>4 DEF Types
<1>5. PlaceInv
  <2>1. \A t \in Thread : PlaceAt(t, "idle", Frame0)
    BY DEF PlaceAt, Frame0, PushLabels, PopLabels, CloseLabels, SelLabels, WaitLabels, ToSelLabels,
           WriterSec, ReaderSec
  <2> QED
    BY <2>1 DEF Init, PlaceInv
<1>6. CloseInv /\ IndexInv
  BY <1>1 DEF Init, CloseInv, IndexInv, NULL, ClosedMark, Closing, CloseLabels
<1>7. SubsInv
  <2>1. \A d \in Directions : subs[d] = <<>>
    BY DEF Init, Directions
  <2>2. <<>> \in Seq(Thread)
    OBVIOUS
  <2>3. Range(<<>>) = {} /\ IsInjective(<<>>)
    BY <2>2, RangeFacts
  <2> QED
    BY <2>1, <2>3 DEF SubsInv
<1> QED
  BY <1>4, <1>5, <1>6, <1>7 DEF TypeInv

LEMMA TypeStep ==
  ASSUME TypeInv, [Next]_vars
  PROVE  TypeInv'
<1>1. CASE UNCHANGED vars
  <2>1. Types'
    BY <1>1 DEF vars, TypeInv, Types, ChType, Slot, Cap
  <2>2. PlaceInv'
    BY <1>1 DEF vars, TypeInv, PlaceInv, PlaceAt, Slot, Cap
  <2>3. CloseInv' /\ IndexInv' /\ SubsInv'
    BY <1>1 DEF vars, TypeInv, CloseInv, IndexInv, SubsInv, Slot, Cap, Closers
  <2> QED
    BY <2>1, <2>2, <2>3 DEF TypeInv
<1>2. ASSUME NEW t \in Thread, use' = use, Begin(t) \/ Step(t)
      PROVE  TypeInv'
  BY <1>2, BeginTyped, ToSelectTyped, PushEntryTyped, PushUnbufferedTyped, PushBufferedTyped,
     PopEntryTyped, PopBufferedTyped, PopWaitsTyped, CloseTyped, SelScanTyped, SelEndTyped
     DEF Step, try_push_impl, try_pop_impl, channel_select
<1> QED
  BY <1>1, <1>2 DEF Next


-----------------------------------------------------------------------------
(* What every step has in common *)

(* Only t moves. *)
Moves(t) ==
  /\ pc' = [pc EXCEPT ![t] = pc'[t]]
  /\ \A u \in Thread : u # t => pc'[u] = pc[u] /\ fr'[u] = fr[u]

(* Types of what t can change in one step. *)
WellTyped(t) == ch \in ChType /\ pc \in [Thread -> Labels] /\ fr \in [Thread -> FrameType] /\ fr[t] \in FrameType

(* What a step that neither reserves nor transfers leaves alone: the ring, the order of its *)
(* reservations, and what close and the receivers count.                                    *)
RingSame ==
  /\ ch'.buf_elem_write_idx = ch.buf_elem_write_idx /\ ch'.buf_elem_read_idx = ch.buf_elem_read_idx
  /\ ch'.read_avail = ch.read_avail /\ ch'.statusbuf = ch.statusbuf /\ ch'.ringbuf = ch.ringbuf
HistoryKept == hist'.order = hist.order /\ hist'.tickets = hist.tickets /\ hist'.claims = hist.claims
CountsKept == hist' = hist /\ ch'.read_avail = ch.read_avail /\ ch'.close_claimed = ch.close_claimed

USE DEF WellTyped, RingSame, HistoryKept, CountsKept

(* Where a call of try_push_impl or try_pop_impl returns to. *)
Back(t) == IF fr[t].op \in SelOps THEN "sel_result" ELSE "idle"

LEMMA BackFacts ==
  ASSUME TypeInv, NEW t \in Thread, NEW res, Return(t, res)
  PROVE  Moves(t) /\ pc'[t] = Back(t) /\ Back(t) \in {"sel_result", "idle"}
<1>1. pc \in [Thread -> Labels] /\ fr \in [Thread -> FrameType]
  BY DEF TypeInv, Types
<1> QED
  BY <1>1 DEF Return, Finish, Goto, Moves, Back

LEMMA EndFacts ==
  ASSUME TypeInv, NEW t \in Thread, NEW res, Finish(t, res)
  PROVE  Moves(t) /\ pc'[t] = "idle"
<1>1. pc \in [Thread -> Labels] /\ fr \in [Thread -> FrameType]
  BY DEF TypeInv, Types
<1> QED
  BY <1>1 DEF Finish, Goto, Moves

LEMMA StepMoves ==
  ASSUME TypeInv, NEW t \in Thread, Begin(t) \/ Step(t)
  PROVE  Moves(t)
<1>0. pc \in [Thread -> Labels] /\ fr \in [Thread -> FrameType]
  BY DEF TypeInv, Types
<1>1. CASE Begin(t)
  BY <1>0, <1>1 DEF Begin, Goto, Moves
<1>2. CASE ToSelectLock(t)
  BY <1>0, <1>2 DEF ToSelectLock, At, Goto, Moves
<1>3. CASE ToSelectEnd(t)
  BY <1>0, <1>3, BackFacts DEF ToSelectEnd, At, Goto, Moves
<1>4. CASE ToSelectClaim(t)
  BY <1>0, <1>4 DEF ToSelectClaim, At, Goto, Moves
<1>5. CASE ToSelectCopy(t)
  BY <1>0, <1>5 DEF ToSelectCopy, At, Goto, Moves
<1>6. CASE ToSelectPost(t)
  BY <1>0, <1>6, BackFacts DEF ToSelectPost, At, Goto, Moves
<1>7. CASE PushStart(t)
  BY <1>0, <1>7, BackFacts DEF PushStart, At, Goto, Moves
<1>8. CASE PushTakes(t)
  BY <1>0, <1>8 DEF PushTakes, At, Goto, Moves
<1>9. CASE PushCopies(t)
  BY <1>0, <1>9 DEF PushCopies, At, Goto, Moves
<1>10. CASE PushPublishes(t)
  BY <1>0, <1>10 DEF PushPublishes, At, Goto, Moves
<1>11. CASE PushPosts(t)
  BY <1>0, <1>11, BackFacts DEF PushPosts, At, Goto, Moves
<1>12. CASE PushNoReader(t)
  BY <1>0, <1>12 DEF PushNoReader, At, Goto, Moves
<1>13. CASE PushToken(t)
  BY <1>0, <1>13 DEF PushToken, At, Goto, Moves
<1>14. CASE PushNoToken(t)
  BY <1>0, <1>14, BackFacts DEF PushNoToken, At, Goto, Moves
<1>15. CASE PushAfterToken(t)
  BY <1>0, <1>15, BackFacts DEF PushAfterToken, At, Goto, Moves
<1>16. CASE PushAdvertises(t)
  BY <1>0, <1>16 DEF PushAdvertises, At, Goto, Moves
<1>17. CASE PushChecks(t)
  BY <1>0, <1>17 DEF PushChecks, At, Goto, Moves
<1>18. CASE PushRetracts(t)
  BY <1>0, <1>18 DEF PushRetracts, At, Goto, Moves
<1>19. CASE PushNotifies(t)
  BY <1>0, <1>19 DEF PushNotifies, At, Goto, Moves
<1>20. CASE PushAwaits(t)
  BY <1>0, <1>20 DEF PushAwaits, At, Goto, Moves
<1>21. CASE PushImSem(t)
  BY <1>0, <1>21 DEF PushImSem, At, Goto, Moves
<1>22. CASE PushIsMine(t)
  BY <1>0, <1>22, BackFacts DEF PushIsMine, At, Goto, Moves
<1>23. CASE PushReserves(t)
  BY <1>0, <1>23, BackFacts DEF PushReserves, At, Goto, Moves
<1>24. CASE PushIndex(t)
  BY <1>0, <1>24 DEF PushIndex, At, Goto, Moves
<1>25. CASE PushEntersSlot(t)
  BY <1>0, <1>25 DEF PushEntersSlot, At, Goto, Moves
<1>26. CASE PushStores(t)
  BY <1>0, <1>26 DEF PushStores, At, Goto, Moves
<1>27. CASE PushAvail(t)
  BY <1>0, <1>27 DEF PushAvail, At, Goto, Moves
<1>28. CASE PushReadsem(t)
  BY <1>0, <1>28 DEF PushReadsem, At, Goto, Moves
<1>29. CASE PushSubscriber(t)
  BY <1>0, <1>29, BackFacts DEF PushSubscriber, At, Goto, Moves
<1>30. CASE PopStart(t)
  BY <1>0, <1>30, BackFacts DEF PopStart, At, Goto, Moves
<1>31. CASE PopTakes(t)
  BY <1>0, <1>31 DEF PopTakes, At, Goto, Moves
<1>32. CASE PopCopies(t)
  BY <1>0, <1>32 DEF PopCopies, At, Goto, Moves
<1>33. CASE PopPublishes(t)
  BY <1>0, <1>33 DEF PopPublishes, At, Goto, Moves
<1>34. CASE PopPosts(t)
  BY <1>0, <1>34, BackFacts DEF PopPosts, At, Goto, Moves
<1>35. CASE PopNoWriter(t)
  BY <1>0, <1>35 DEF PopNoWriter, At, Goto, Moves
<1>36. CASE PopToken(t)
  BY <1>0, <1>36 DEF PopToken, At, Goto, Moves
<1>37. CASE PopNoToken(t)
  BY <1>0, <1>37 DEF PopNoToken, At, Goto, Moves
<1>38. CASE PopLooksClosed(t)
  BY <1>0, <1>38, BackFacts DEF PopLooksClosed, At, Goto, Moves
<1>39. CASE PopClaims(t)
  BY <1>0, <1>39 DEF PopClaims, At, Goto, Moves
<1>40. CASE PopIndex(t)
  BY <1>0, <1>40 DEF PopIndex, At, Goto, Moves
<1>41. CASE PopEntersSlot(t)
  BY <1>0, <1>41 DEF PopEntersSlot, At, Goto, Moves
<1>42. CASE PopLoads(t)
  BY <1>0, <1>42 DEF PopLoads, At, Goto, Moves
<1>43. CASE PopFrees(t)
  BY <1>0, <1>43 DEF PopFrees, At, Goto, Moves
<1>44. CASE PopWritesem(t)
  BY <1>0, <1>44 DEF PopWritesem, At, Goto, Moves
<1>45. CASE PopSubscriber(t)
  BY <1>0, <1>45, BackFacts DEF PopSubscriber, At, Goto, Moves
<1>46. CASE PopAdvertises(t)
  BY <1>0, <1>46 DEF PopAdvertises, At, Goto, Moves
<1>47. CASE PopChecks(t)
  BY <1>0, <1>47 DEF PopChecks, At, Goto, Moves
<1>48. CASE PopRetracts(t)
  BY <1>0, <1>48 DEF PopRetracts, At, Goto, Moves
<1>49. CASE PopNotifies(t)
  BY <1>0, <1>49 DEF PopNotifies, At, Goto, Moves
<1>50. CASE PopAwaits(t)
  BY <1>0, <1>50, BackFacts DEF PopAwaits, At, Goto, Moves
<1>51. CASE PopImSem(t)
  BY <1>0, <1>51 DEF PopImSem, At, Goto, Moves
<1>52. CASE PopIsMine(t)
  BY <1>0, <1>52, BackFacts DEF PopIsMine, At, Goto, Moves
<1>53. CASE CloseClaims(t)
  BY <1>0, <1>53 DEF CloseClaims, At, Goto, Moves
<1>54. CASE CloseWaits(t)
  BY <1>0, <1>54, EndFacts DEF CloseWaits, At, Goto, Moves
<1>55. CASE CloseSets(t)
  BY <1>0, <1>55 DEF CloseSets, At, Goto, Moves
<1>56. CASE CloseMarks(t)
  BY <1>0, <1>56 DEF CloseMarks, At, Goto, Moves
<1>57. CASE ClosePostsReaders(t)
  BY <1>0, <1>57 DEF ClosePostsReaders, At, Goto, Moves
<1>58. CASE ClosePostsReadSub(t)
  BY <1>0, <1>58 DEF ClosePostsReadSub, At, Goto, Moves
<1>59. CASE ClosePostsWriteSub(t)
  BY <1>0, <1>59 DEF ClosePostsWriteSub, At, Goto, Moves
<1>60. CASE ClosePostsWriters(t)
  BY <1>0, <1>60 DEF ClosePostsWriters, At, Goto, Moves
<1>61. CASE CloseUnadvertises(t)
  BY <1>0, <1>61 DEF CloseUnadvertises, At, Goto, Moves
<1>62. CASE CloseEnds(t)
  BY <1>0, <1>62, EndFacts DEF CloseEnds, At, Goto, Moves
<1>63. CASE SelSubscribes(t)
  BY <1>0, <1>63 DEF SelSubscribes, At, Goto, Moves
<1>64. CASE SelResult(t)
  BY <1>0, <1>64 DEF SelResult, At, Goto, Moves
<1>65. CASE RecheckLock(t)
  BY <1>0, <1>65 DEF RecheckLock, At, Goto, Moves
<1>66. CASE RecheckPeer(t)
  BY <1>0, <1>66 DEF RecheckPeer, At, Goto, Moves
<1>67. CASE RecheckEnds(t)
  BY <1>0, <1>67 DEF RecheckEnds, At, Goto, Moves
<1>68. CASE SelRescans(t)
  BY <1>0, <1>68 DEF SelRescans, At, Goto, Moves
<1>69. CASE SelWakes(t)
  BY <1>0, <1>69 DEF SelWakes, At, Goto, Moves
<1>70. CASE SelOutOfTime(t)
  BY <1>0, <1>70 DEF SelOutOfTime, At, Goto, Moves
<1>71. CASE SelWoken(t)
  BY <1>0, <1>71 DEF SelWoken, At, Goto, Moves
<1>72. CASE SelServed(t)
  BY <1>0, <1>72 DEF SelServed, At, Goto, Moves
<1>73. CASE SelLeaves(t)
  BY <1>0, <1>73, EndFacts DEF SelLeaves, At, Goto, Moves
<1> QED
  BY <1>1, <1>2, <1>3, <1>4, <1>5, <1>6, <1>7, <1>8, <1>9, <1>10, <1>11, <1>12, <1>13, <1>14, <1>15, <1>16, <1>17, <1>18, <1>19, <1>20, <1>21, <1>22, <1>23, <1>24, <1>25, <1>26, <1>27, <1>28, <1>29, <1>30, <1>31, <1>32, <1>33, <1>34, <1>35, <1>36, <1>37, <1>38, <1>39, <1>40, <1>41, <1>42, <1>43, <1>44, <1>45, <1>46, <1>47, <1>48, <1>49, <1>50, <1>51, <1>52, <1>53, <1>54, <1>55, <1>56, <1>57, <1>58, <1>59, <1>60, <1>61, <1>62, <1>63, <1>64, <1>65, <1>66, <1>67, <1>68, <1>69, <1>70, <1>71, <1>72, <1>73
     DEF Step, to_select, try_push_impl, push_unbuffered, push_buffered, try_pop_impl, pop_buffered,
         pop_waits, close, channel_select

(* A call that starts. *)
LEMMA BeginFacts ==
  ASSUME TypeInv, NEW t \in Thread, Begin(t)
  PROVE  /\ pc[t] = "idle" /\ pc'[t] \in {"push", "pop", "close", "sel"}
         /\ UNCHANGED <<ch, subs, mtx, sel, hist>>
         /\ fr'[t].op \in use.may[t] /\ fr'[t] \in FrameType /\ fr'[t].result = "none"
         /\ fr'[t].op \in PushOps => obj' = [obj EXCEPT ![t] = <<t, calls[t] + 1>>]
         /\ fr'[t].op \notin PushOps => obj' = [obj EXCEPT ![t] = NoVal]
         /\ calls' = [calls EXCEPT ![t] = calls[t] + 1] /\ calls[t] + 1 \in 1 .. MaxCalls
<1>0. /\ pc \in [Thread -> Labels] /\ fr \in [Thread -> FrameType] /\ use \in Uses
      /\ calls[t] \in 0 .. MaxCalls
  BY DEF TypeInv, Types
<1>1. PICK o \in use.may[t], tmo \in use.timeouts \cup {"inf"} :
        /\ At(t, "idle")
        /\ calls[t] < use.calls
        /\ calls' = [calls EXCEPT ![t] = @ + 1]
        /\ fr' = [fr EXCEPT ![t] = [Frame0 EXCEPT !.op = o, !.tmo = tmo]]
        /\ obj' = [obj EXCEPT ![t] = IF o \in PushOps THEN <<t, calls[t] + 1>> ELSE NoVal]
        /\ Goto(t, CASE o \in {"push", "try_push"} -> "push"
                     [] o \in {"pop", "try_pop"} -> "pop"
                     [] o = "close" -> "close"
                     [] OTHER -> "sel")
        /\ UNCHANGED <<ch, selVars, hist>>
  BY DEF Begin
<1>2. o \in Ops /\ tmo \in Timeouts
  BY <1>0, <1>1, UseFacts DEF Timeouts
<1>3. pc'[t] \in {"push", "pop", "close", "sel"}
  <2>1. CASE o \in {"push", "try_push"}
    BY <1>0, <1>1, <2>1 DEF Goto
  <2>2. CASE o \in {"pop", "try_pop"}
    BY <1>0, <1>1, <2>2 DEF Goto
  <2>3. CASE o = "close"
    BY <1>0, <1>1, <2>3 DEF Goto
  <2>4. CASE o \in SelOps
    BY <1>0, <1>1, <2>4 DEF Goto, SelOps
  <2> QED
    BY <1>2, <2>1, <2>2, <2>3, <2>4 DEF Ops, PushOps, PopOps, SelOps
<1>4. fr'[t] = [Frame0 EXCEPT !.op = o, !.tmo = tmo]
  BY <1>0, <1>1
<1>5. fr'[t] \in FrameType /\ fr'[t].op = o /\ fr'[t].result = "none"
  <2> DEFINE f == [Frame0 EXCEPT !.op = o, !.tmo = tmo]
  <2>1. f \in FrameType /\ f.op = o /\ f.result = "none"
    BY <1>2 DEF FrameType, Frame0, NULL, Results
  <2> HIDE DEF f
  <2> QED
    BY <1>4, <2>1 DEF f
<1>6. calls[t] + 1 \in 1 .. MaxCalls
  <2>1. use.calls \in 0 .. MaxCalls /\ MaxCalls \in Nat
    BY <1>0, UseFacts
  <2> QED
    BY <1>0, <1>1, <2>1
<1>7. pc[t] = "idle" /\ UNCHANGED <<ch, subs, mtx, sel, hist>> /\ calls' = [calls EXCEPT ![t] = calls[t] + 1]
  BY <1>1 DEF At, selVars
<1>8. o \in PushOps => obj' = [obj EXCEPT ![t] = <<t, calls[t] + 1>>]
  BY <1>1
<1>9. o \notin PushOps => obj' = [obj EXCEPT ![t] = NoVal]
  BY <1>1
<1> QED
  BY <1>3, <1>5, <1>6, <1>7, <1>8, <1>9


-----------------------------------------------------------------------------
(* Counters *)

(* How many threads are at a label, before and after one of them goes on. *)
LEMMA Counted ==
  ASSUME NEW q \in [Thread -> Labels], NEW t \in Thread, NEW l, NEW L
  PROVE  /\ Count(q, L) \in Nat
         /\ Count([q EXCEPT ![t] = l], L) = Count(q, L) + In(l, L) - In(q[t], L)
         /\ q[t] \in L => Count(q, L) >= 1
<1> DEFINE S == {u \in Thread : q[u] \in L}
           R == S \ {t}
           T == {u \in Thread : [q EXCEPT ![t] = l][u] \in L}
<1>1. IsFiniteSet(S)
  BY SyncChanAssumption, FS_Subset
<1>2. Cardinality(S) \in Nat /\ IsFiniteSet(R) /\ Cardinality(R) \in Nat
  BY <1>1, FS_CardinalityType, FS_RemoveElement
<1>3. Cardinality(R) = IF q[t] \in L THEN Cardinality(S) - 1 ELSE Cardinality(S)
  BY <1>1, FS_RemoveElement
<1>4. T = IF l \in L THEN R \cup {t} ELSE R
  OBVIOUS
<1>5. Cardinality(R \cup {t}) = Cardinality(R) + 1
  BY <1>2, FS_AddElement
<1> HIDE DEF S, R, T
<1>6. Cardinality(T) = Cardinality(S) + In(l, L) - In(q[t], L)
  BY <1>2, <1>3, <1>4, <1>5 DEF In
<1>7. q[t] \in L => Cardinality(S) >= 1
  BY <1>2, <1>3
<1> QED
  BY <1>2, <1>6, <1>7 DEF Count, S, T

LEMMA NumMoves ==
  ASSUME TypeInv, NEW t \in Thread, NEW l, pc' = [pc EXCEPT ![t] = l], NEW L
  PROVE  /\ Num(L) \in Nat /\ Num(L)' \in Nat
         /\ Num(L)' = Num(L) + In(l, L) - In(pc[t], L)
         /\ pc[t] \in L => Num(L) >= 1
<1>1. pc \in [Thread -> Labels]
  BY DEF TypeInv, Types
<1>2. /\ Count(pc, L) \in Nat /\ Count(pc', L) = Count(pc, L) + In(l, L) - In(pc[t], L)
      /\ pc[t] \in L => Count(pc, L) >= 1
  BY <1>1, Counted
<1>3. Count(pc', L) \in Nat
  BY <1>2 DEF In
<1> QED
  BY <1>2, <1>3 DEF Num

(* What the step of t owes to the counters. *)
CountStep(t) ==
  /\ ch'.write_free + ch'.read_avail + In(pc'[t], Filling) + In(pc'[t], Draining)
       = ch.write_free + ch.read_avail + In(pc[t], Filling) + In(pc[t], Draining)
  /\ Cap > 0 /\ ~ch'.closed =>
       /\ ~ch.closed
       /\ ch'.writesem + In(pc'[t], {"p_closed"}) + In(pc'[t], {"p_free"}) + In(pc'[t], {"r_writesem"}) - ch'.write_free
            = ch.writesem + In(pc[t], {"p_closed"}) + In(pc[t], {"p_free"}) + In(pc[t], {"r_writesem"}) - ch.write_free
  /\ Cap = 0 \/ ch'.closed =>
       pc'[t] # "p_free" /\ ch'.write_free + In(pc[t], {"p_free"}) >= ch.write_free
  /\ Cap > 0 /\ ch'.adr_written # ClosedMark =>
       ch'.readsem + In(pc'[t], {"p_readsem"}) + In(pc'[t], {"r_avail"}) - ch'.read_avail
         = ch.readsem + In(pc[t], {"p_readsem"}) + In(pc[t], {"r_avail"}) - ch.read_avail
  /\ Cap > 0 =>
       /\ ch'.adr_written = ch.adr_written \/ ch'.adr_written = ClosedMark
       /\ ch'.adr_written = NULL =>
            ch'.write_adr = NULL /\ pc'[t] \notin ReaderTok \cup {"p_copy", "p_publish"}
       /\ pc'[t] # "p_post" /\ ~fr'[t].have_swapped
       /\ pc'[t] = "c_readers" => ch'.adr_written = ClosedMark

LEMMA CountMove ==
  ASSUME TypeInv, TypeInv', CountInv, use' = use, NEW t \in Thread,
         Moves(t), CountStep(t)
  PROVE  CountInv'
<1> DEFINE l == pc'[t]
<1>m. pc' = [pc EXCEPT ![t] = l]
  BY DEF Moves
<1>0. Cap' = Cap /\ Cap \in Nat
  BY UseFacts DEF Cap, TypeInv, Types
<1>1. /\ ch.write_free \in Nat /\ ch.read_avail \in Nat /\ ch.writesem \in Nat /\ ch.readsem \in Nat
      /\ ch'.write_free \in Nat /\ ch'.read_avail \in Nat /\ ch'.writesem \in Nat /\ ch'.readsem \in Nat
  <2>1. ch \in ChType /\ ch' \in ChType'
    BY DEF TypeInv, Types
  <2> QED
    BY <2>1 DEF ChType
<1>2. RingCount'
  <2>1. /\ Num(Filling) \in Nat /\ Num(Filling)' \in Nat
        /\ Num(Filling)' = Num(Filling) + In(l, Filling) - In(pc[t], Filling)
    BY <1>m, NumMoves
  <2>2. /\ Num(Draining) \in Nat /\ Num(Draining)' \in Nat
        /\ Num(Draining)' = Num(Draining) + In(l, Draining) - In(pc[t], Draining)
    BY <1>m, NumMoves
  <2>3. RingCount /\ \A x, L : In(x, L) \in {0, 1}
    BY DEF CountInv, In
  <2>4. ch'.write_free + ch'.read_avail + In(l, Filling) + In(l, Draining)
          = ch.write_free + ch.read_avail + In(pc[t], Filling) + In(pc[t], Draining)
    BY DEF CountStep
  <2> QED
    BY <1>0, <1>1, <2>1, <2>2, <2>3, <2>4 DEF RingCount
<1>3. /\ Num({"p_free"}) \in Nat /\ Num({"p_free"})' \in Nat
      /\ Num({"p_free"})' = Num({"p_free"}) + In(l, {"p_free"}) - In(pc[t], {"p_free"})
  BY <1>m, NumMoves
<1>4. /\ Num({"p_closed"}) \in Nat /\ Num({"p_closed"})' \in Nat
      /\ Num({"p_closed"})' = Num({"p_closed"}) + In(l, {"p_closed"}) - In(pc[t], {"p_closed"})
  BY <1>m, NumMoves
<1>5. /\ Num({"r_writesem"}) \in Nat /\ Num({"r_writesem"})' \in Nat
      /\ Num({"r_writesem"})' = Num({"r_writesem"}) + In(l, {"r_writesem"}) - In(pc[t], {"r_writesem"})
  BY <1>m, NumMoves
<1>6. WriteTokens'
  <2>1. /\ In(l, {"p_closed"}) \in {0, 1} /\ In(l, {"p_free"}) \in {0, 1} /\ In(l, {"r_writesem"}) \in {0, 1}
        /\ In(pc[t], {"p_closed"}) \in {0, 1} /\ In(pc[t], {"p_free"}) \in {0, 1}
        /\ In(pc[t], {"r_writesem"}) \in {0, 1}
    BY DEF In
  <2>2. Cap > 0 /\ ~ch'.closed =>
          ch'.writesem + In(l, {"p_closed"}) + In(l, {"p_free"}) + In(l, {"r_writesem"}) - ch'.write_free
            = ch.writesem + In(pc[t], {"p_closed"}) + In(pc[t], {"p_free"}) + In(pc[t], {"r_writesem"}) - ch.write_free
    BY DEF CountStep
  <2>3. Cap > 0 /\ ~ch'.closed =>
          ch.writesem + Num({"p_closed"}) + Num({"p_free"}) + Num({"r_writesem"}) = ch.write_free
    BY DEF CountStep, CountInv, WriteTokens
  <2> HIDE DEF l
  <2>4. Cap > 0 /\ ~ch'.closed =>
          ch'.writesem + Num({"p_closed"})' + Num({"p_free"})' + Num({"r_writesem"})' = ch'.write_free
    <3> SUFFICES ASSUME Cap > 0, ~ch'.closed
                 PROVE  ch'.writesem + Num({"p_closed"})' + Num({"p_free"})' + Num({"r_writesem"})' = ch'.write_free
      OBVIOUS
    <3>1. ch'.writesem + In(l, {"p_closed"}) + In(l, {"p_free"}) + In(l, {"r_writesem"}) - ch'.write_free
            = ch.writesem + In(pc[t], {"p_closed"}) + In(pc[t], {"p_free"}) + In(pc[t], {"r_writesem"}) - ch.write_free
      BY <2>2
    <3>2. ch.writesem + Num({"p_closed"}) + Num({"p_free"}) + Num({"r_writesem"}) = ch.write_free
      BY <2>3
    <3> DEFINE w == ch.writesem
               f == ch.write_free
               w1 == ch'.writesem
               f1 == ch'.write_free
               a == Num({"p_closed"})
               b == Num({"p_free"})
               c == Num({"r_writesem"})
               a1 == In(l, {"p_closed"})
               b1 == In(l, {"p_free"})
               c1 == In(l, {"r_writesem"})
               a0 == In(pc[t], {"p_closed"})
               b0 == In(pc[t], {"p_free"})
               c0 == In(pc[t], {"r_writesem"})
    <3>3. /\ w \in Nat /\ f \in Nat /\ w1 \in Nat /\ f1 \in Nat
          /\ a \in Nat /\ b \in Nat /\ c \in Nat
          /\ a1 \in {0, 1} /\ b1 \in {0, 1} /\ c1 \in {0, 1}
          /\ a0 \in {0, 1} /\ b0 \in {0, 1} /\ c0 \in {0, 1}
          /\ w1 + a1 + b1 + c1 - f1 = w + a0 + b0 + c0 - f
          /\ w + a + b + c = f
      BY <1>1, <1>3, <1>4, <1>5, <2>1, <3>1, <3>2
    <3>4. Num({"p_closed"})' = a + a1 - a0 /\ Num({"p_free"})' = b + b1 - b0 /\ Num({"r_writesem"})' = c + c1 - c0
      BY <1>3, <1>4, <1>5
    <3> HIDE DEF w, f, w1, f1, a, b, c, a1, b1, c1, a0, b0, c0
    <3>5. w1 + (a + a1 - a0) + (b + b1 - b0) + (c + c1 - c0) = f1
      BY <3>3
    <3> QED
      BY <3>4, <3>5 DEF w1, f1
  <2> QED
    BY <1>0, <2>4 DEF WriteTokens
<1>7. Free'
  <2>1. CASE Cap > 0 /\ ~ch'.closed
    BY <1>0, <1>1, <1>3, <1>4, <1>5, <1>6, <2>1 DEF WriteTokens, Free
  <2>2. CASE Cap = 0 \/ ch'.closed
    BY <1>1, <1>3, <2>2 DEF CountInv, Free, CountStep, In
  <2> QED
    BY <1>0, <2>1, <2>2
<1>8. ReadTokens'
  <2>1. /\ Num({"p_readsem"}) \in Nat /\ Num({"p_readsem"})' \in Nat
        /\ Num({"p_readsem"})' = Num({"p_readsem"}) + In(l, {"p_readsem"}) - In(pc[t], {"p_readsem"})
    BY <1>m, NumMoves
  <2>2. /\ Num({"r_avail"}) \in Nat /\ Num({"r_avail"})' \in Nat
        /\ Num({"r_avail"})' = Num({"r_avail"}) + In(l, {"r_avail"}) - In(pc[t], {"r_avail"})
    BY <1>m, NumMoves
  <2>3. /\ ReadTokens /\ In(l, {"p_readsem"}) \in {0, 1} /\ In(l, {"r_avail"}) \in {0, 1}
        /\ In(pc[t], {"p_readsem"}) \in {0, 1} /\ In(pc[t], {"r_avail"}) \in {0, 1}
    BY DEF CountInv, In
  <2>4. Cap > 0 /\ ch'.adr_written # ClosedMark =>
          /\ ch.adr_written # ClosedMark
          /\ ch'.readsem + In(l, {"p_readsem"}) + In(l, {"r_avail"}) - ch'.read_avail
               = ch.readsem + In(pc[t], {"p_readsem"}) + In(pc[t], {"r_avail"}) - ch.read_avail
    BY DEF CountStep
  <2>5. Cap > 0 /\ ch'.adr_written # ClosedMark =>
          ch.readsem + Num({"p_readsem"}) + Num({"r_avail"}) = ch.read_avail
    BY <2>3, <2>4 DEF ReadTokens
  <2>6. Cap > 0 /\ ch'.adr_written # ClosedMark =>
          ch'.readsem + Num({"p_readsem"})' + Num({"r_avail"})' = ch'.read_avail
    BY <1>1, <2>1, <2>2, <2>3, <2>4, <2>5
  <2> QED
    BY <1>0, <2>6 DEF ReadTokens
<1>9. LateInv'
  <2>1. CASE Cap = 0
    BY <1>0, <2>1 DEF LateInv
  <2>2. CASE Cap # 0
    <3>1. \A u \in Thread : u # t => pc'[u] = pc[u] /\ fr'[u] = fr[u]
      BY DEF Moves
    <3>3. NULL # ClosedMark
      BY DEF NULL, ClosedMark
    <3> QED
      BY <1>0, <2>2, <3>1, <3>3 DEF LateInv, CountInv, CountStep
  <2> QED
    BY <2>1, <2>2
<1> QED
  BY <1>2, <1>6, <1>7, <1>8, <1>9 DEF CountInv


(* Without a buffer the counters of the ring stay at zero. *)
LEMMA CountUnbuffered ==
  ASSUME TypeInv, TypeInv', CountInv, use' = use, Cap = 0,
         ch'.write_free = ch.write_free, ch'.read_avail = ch.read_avail
  PROVE  CountInv'
<1>0. Cap' = 0
  BY DEF Cap
<1>1. ASSUME NEW q, NEW L, \A t \in Thread : q[t] \notin L
      PROVE  Count(q, L) = 0
  <2>1. {t \in Thread : q[t] \in L} = {}
    BY <1>1
  <2> QED
    BY <2>1, FS_EmptySet DEF Count
<1>2. \A t \in Thread : /\ pc[t] \notin Filling /\ pc[t] \notin Draining
                        /\ pc'[t] \notin Filling /\ pc'[t] \notin Draining /\ pc'[t] \notin {"p_free"}
  <2>1. \A t \in Thread : PlaceAt(t, pc[t], fr[t]) /\ PlaceAt(t, pc[t], fr[t])'
    BY DEF TypeInv, PlaceInv
  <2> QED
    BY <1>0, <2>1 DEF PlaceAt, Filling, Draining
<1>3. Num(Filling) = 0 /\ Num(Draining) = 0 /\ Num(Filling)' = 0 /\ Num(Draining)' = 0 /\ Num({"p_free"})' = 0
  BY <1>1, <1>2 DEF Num
<1>4. ch.write_free \in Nat /\ ch.read_avail \in Nat
  BY ChFacts DEF TypeInv, Types
<1>5. RingCount
  BY DEF CountInv
<1> QED
  BY <1>0, <1>3, <1>4, <1>5 DEF CountInv, RingCount, WriteTokens, Free, ReadTokens, LateInv

(* The steps that a call on a buffered channel does not take. *)
UnbufferedOnly(t) ==
  \/ to_select(t) \/ push_unbuffered(t)
  \/ PopTakes(t) \/ PopCopies(t) \/ PopPublishes(t) \/ PopPosts(t) \/ PopNoWriter(t)
  \/ PopChecks(t) \/ PopRetracts(t) \/ PopNotifies(t) \/ CloseUnadvertises(t)

LEMMA UnbufferedSteps ==
  ASSUME TypeInv, NEW t \in Thread, UnbufferedOnly(t)
  PROVE  Cap = 0
<1>1. PlaceAt(t, pc[t], fr[t])
  BY DEF TypeInv, PlaceInv
<1>2. pc[t] \in ToSelLabels \cup {"p_adv", "c_unadvertise"} \cup WriterSec
                \cup {"r_adr", "r_copy", "r_publish", "r_post", "r_check", "r_retract", "r_note"}
  BY DEF UnbufferedOnly, to_select, ToSelectLock, ToSelectEnd, ToSelectClaim, ToSelectCopy, ToSelectPost,
         push_unbuffered, PushAdvertises, PushChecks, PushRetracts, PushNotifies, PushAwaits, PushImSem,
         PushIsMine, PopTakes, PopCopies, PopPublishes, PopPosts, PopNoWriter, PopChecks, PopRetracts,
         PopNotifies, CloseUnadvertises, At, ToSelLabels, WriterSec
<1> QED
  BY <1>1, <1>2 DEF PlaceAt

(* The steps that only a call on a buffered channel takes. *)
BufferedOnly(t) == push_buffered(t) \/ pop_buffered(t)

LEMMA BufferedSteps ==
  ASSUME TypeInv, NEW t \in Thread, BufferedOnly(t)
  PROVE  Cap > 0
<1>1. PlaceAt(t, pc[t], fr[t])
  BY DEF TypeInv, PlaceInv
<1>2. pc[t] \in {"p_free", "p_idx", "p_slot", "p_store", "p_avail", "p_readsem", "p_sub",
                "r_avail", "r_idx", "r_slot", "r_load", "r_free", "r_writesem", "r_sub"}
  BY DEF BufferedOnly, push_buffered, pop_buffered, PushReserves, PushIndex, PushEntersSlot, PushStores,
         PushAvail, PushReadsem, PushSubscriber, PopClaims, PopIndex, PopEntersSlot, PopLoads, PopFrees,
         PopWritesem, PopSubscriber, At
<1> QED
  BY <1>1, <1>2 DEF PlaceAt

(* What the counters say to a thread that is about to use them. *)
LEMMA CountUse ==
  ASSUME TypeInv, CountInv, NEW t \in Thread, Cap > 0
  PROVE  /\ pc[t] = "p_free" => ch.write_free > 0
         /\ pc[t] = "r_avail" /\ ch.adr_written # ClosedMark => ch.read_avail > 0
         /\ ch.adr_written \in {NULL, ClosedMark}
         /\ ch.adr_written = NULL =>
              ch.write_adr = NULL /\ pc[t] \notin ReaderTok \cup {"p_copy", "p_publish"}
         /\ pc[t] # "p_post" /\ ~fr[t].have_swapped
         /\ pc[t] = "c_readers" => ch.adr_written = ClosedMark
<1>0. pc \in [Thread -> Labels] /\ ch.write_free \in Nat /\ ch.read_avail \in Nat /\ ch.readsem \in Nat
  BY ChFacts DEF TypeInv, Types
<1>1. pc[t] = "p_free" => Num({"p_free"}) >= 1 /\ Num({"p_free"}) \in Nat
  BY <1>0, Counted DEF Num
<1>2. pc[t] = "r_avail" => Num({"r_avail"}) >= 1 /\ Num({"r_avail"}) \in Nat
  BY <1>0, Counted DEF Num
<1>3. Num({"p_readsem"}) \in Nat
  BY <1>0, Counted DEF Num
<1>4. pc[t] = "p_free" => ch.write_free > 0
  BY <1>0, <1>1 DEF CountInv, Free
<1>5. pc[t] = "r_avail" /\ ch.adr_written # ClosedMark => ch.read_avail > 0
  BY <1>0, <1>2, <1>3 DEF CountInv, ReadTokens
<1> QED
  BY <1>4, <1>5 DEF CountInv, LateInv


(* The steps of a call that do not touch the counters of the ring. *)
LEMMA RingCountersKept ==
  ASSUME TypeInv, NEW t \in Thread, Cap = 0, Begin(t) \/ Step(t)
  PROVE  ch'.write_free = ch.write_free /\ ch'.read_avail = ch.read_avail
<1>0. ch \in ChType /\ ~BufferedOnly(t)
  BY BufferedSteps DEF TypeInv, Types
<1>1. CASE Begin(t)
  BY <1>1 DEF Begin
<1>2. CASE ToSelectLock(t)
  BY <1>0, <1>2 DEF ToSelectLock, ChType, selVars
<1>3. CASE ToSelectEnd(t)
  BY <1>0, <1>3 DEF ToSelectEnd, ChType, selVars
<1>4. CASE ToSelectClaim(t)
  BY <1>0, <1>4 DEF ToSelectClaim, ChType, selVars
<1>5. CASE ToSelectCopy(t)
  BY <1>0, <1>5 DEF ToSelectCopy, ChType, selVars
<1>6. CASE ToSelectPost(t)
  BY <1>0, <1>6 DEF ToSelectPost, ChType, selVars
<1>7. CASE PushStart(t)
  BY <1>0, <1>7 DEF PushStart, ChType, selVars
<1>8. CASE PushTakes(t)
  BY <1>0, <1>8 DEF PushTakes, ChType, selVars
<1>9. CASE PushCopies(t)
  BY <1>0, <1>9 DEF PushCopies, ChType, selVars
<1>10. CASE PushPublishes(t)
  BY <1>0, <1>10 DEF PushPublishes, ChType, selVars
<1>11. CASE PushPosts(t)
  BY <1>0, <1>11 DEF PushPosts, ChType, selVars
<1>12. CASE PushNoReader(t)
  BY <1>0, <1>12 DEF PushNoReader, ChType, selVars
<1>13. CASE PushToken(t)
  BY <1>0, <1>13 DEF PushToken, ChType, selVars
<1>14. CASE PushNoToken(t)
  BY <1>0, <1>14 DEF PushNoToken, ChType, selVars
<1>15. CASE PushAfterToken(t)
  BY <1>0, <1>15 DEF PushAfterToken, ChType, selVars
<1>16. CASE PushAdvertises(t)
  BY <1>0, <1>16 DEF PushAdvertises, ChType, selVars
<1>17. CASE PushChecks(t)
  BY <1>0, <1>17 DEF PushChecks, ChType, selVars
<1>18. CASE PushRetracts(t)
  BY <1>0, <1>18 DEF PushRetracts, ChType, selVars
<1>19. CASE PushNotifies(t)
  BY <1>0, <1>19 DEF PushNotifies, ChType, selVars
<1>20. CASE PushAwaits(t)
  BY <1>0, <1>20 DEF PushAwaits, ChType, selVars
<1>21. CASE PushImSem(t)
  BY <1>0, <1>21 DEF PushImSem, ChType, selVars
<1>22. CASE PushIsMine(t)
  BY <1>0, <1>22 DEF PushIsMine, ChType, selVars, Collect
<1>23. CASE PopStart(t)
  BY <1>0, <1>23 DEF PopStart, ChType, selVars
<1>24. CASE PopTakes(t)
  BY <1>0, <1>24 DEF PopTakes, ChType, selVars
<1>25. CASE PopCopies(t)
  BY <1>0, <1>25 DEF PopCopies, ChType, selVars
<1>26. CASE PopPublishes(t)
  BY <1>0, <1>26 DEF PopPublishes, ChType, selVars
<1>27. CASE PopPosts(t)
  BY <1>0, <1>27 DEF PopPosts, ChType, selVars
<1>28. CASE PopNoWriter(t)
  BY <1>0, <1>28 DEF PopNoWriter, ChType, selVars
<1>29. CASE PopToken(t)
  BY <1>0, <1>29 DEF PopToken, ChType, selVars
<1>30. CASE PopNoToken(t)
  BY <1>0, <1>30 DEF PopNoToken, ChType, selVars
<1>31. CASE PopLooksClosed(t)
  BY <1>0, <1>31 DEF PopLooksClosed, ChType, selVars
<1>32. CASE PopAdvertises(t)
  BY <1>0, <1>32 DEF PopAdvertises, ChType, selVars
<1>33. CASE PopChecks(t)
  BY <1>0, <1>33 DEF PopChecks, ChType, selVars
<1>34. CASE PopRetracts(t)
  BY <1>0, <1>34 DEF PopRetracts, ChType, selVars
<1>35. CASE PopNotifies(t)
  BY <1>0, <1>35 DEF PopNotifies, ChType, selVars
<1>36. CASE PopAwaits(t)
  BY <1>0, <1>36 DEF PopAwaits, ChType, selVars
<1>37. CASE PopImSem(t)
  BY <1>0, <1>37 DEF PopImSem, ChType, selVars
<1>38. CASE PopIsMine(t)
  BY <1>0, <1>38 DEF PopIsMine, ChType, selVars
<1>39. CASE CloseClaims(t)
  BY <1>0, <1>39 DEF CloseClaims, ChType, selVars
<1>40. CASE CloseWaits(t)
  BY <1>0, <1>40 DEF CloseWaits, ChType, selVars
<1>41. CASE CloseSets(t)
  BY <1>0, <1>41 DEF CloseSets, ChType, selVars
<1>42. CASE CloseMarks(t)
  BY <1>0, <1>42 DEF CloseMarks, ChType, selVars
<1>43. CASE ClosePostsReaders(t)
  BY <1>0, <1>43 DEF ClosePostsReaders, ChType, selVars
<1>44. CASE ClosePostsReadSub(t)
  BY <1>0, <1>44 DEF ClosePostsReadSub, ChType, selVars
<1>45. CASE ClosePostsWriteSub(t)
  BY <1>0, <1>45 DEF ClosePostsWriteSub, ChType, selVars
<1>46. CASE ClosePostsWriters(t)
  BY <1>0, <1>46 DEF ClosePostsWriters, ChType, selVars
<1>47. CASE CloseUnadvertises(t)
  BY <1>0, <1>47 DEF CloseUnadvertises, ChType, selVars
<1>48. CASE CloseEnds(t)
  BY <1>0, <1>48 DEF CloseEnds, ChType, selVars
<1>49. CASE SelSubscribes(t)
  BY <1>0, <1>49 DEF SelSubscribes, ChType, selVars
<1>50. CASE SelResult(t)
  BY <1>0, <1>50 DEF SelResult, ChType, selVars
<1>51. CASE RecheckLock(t)
  BY <1>0, <1>51 DEF RecheckLock, ChType, selVars
<1>52. CASE RecheckPeer(t)
  BY <1>0, <1>52 DEF RecheckPeer, ChType, selVars
<1>53. CASE RecheckEnds(t)
  BY <1>0, <1>53 DEF RecheckEnds, ChType, selVars
<1>54. CASE SelRescans(t)
  BY <1>0, <1>54 DEF SelRescans, ChType, selVars
<1>55. CASE SelWakes(t)
  BY <1>0, <1>55 DEF SelWakes, ChType, selVars
<1>56. CASE SelOutOfTime(t)
  BY <1>0, <1>56 DEF SelOutOfTime, ChType, selVars
<1>57. CASE SelWoken(t)
  BY <1>0, <1>57 DEF SelWoken, ChType, selVars
<1>58. CASE SelServed(t)
  BY <1>0, <1>58 DEF SelServed, ChType, selVars
<1>59. CASE SelLeaves(t)
  BY <1>0, <1>59 DEF SelLeaves, ChType, selVars
<1> QED
  BY <1>0, <1>1, <1>2, <1>3, <1>4, <1>5, <1>6, <1>7, <1>8, <1>9, <1>10, <1>11, <1>12, <1>13, <1>14, <1>15, <1>16, <1>17, <1>18, <1>19, <1>20, <1>21, <1>22, <1>23, <1>24, <1>25, <1>26, <1>27, <1>28, <1>29, <1>30, <1>31, <1>32, <1>33, <1>34, <1>35, <1>36, <1>37, <1>38, <1>39, <1>40, <1>41, <1>42, <1>43, <1>44, <1>45, <1>46, <1>47, <1>48, <1>49, <1>50, <1>51, <1>52, <1>53, <1>54, <1>55, <1>56, <1>57, <1>58, <1>59
     DEF BufferedOnly, Step, to_select, try_push_impl, push_unbuffered, try_pop_impl, pop_waits, close,
         channel_select

LEMMA CountBuffered ==
  ASSUME TypeInv, TypeInv', CountInv, use' = use, NEW t \in Thread, Cap > 0, Begin(t) \/ Step(t)
  PROVE  CountStep(t)
<1>0. /\ ch \in ChType /\ pc \in [Thread -> Labels] /\ fr \in [Thread -> FrameType]
      /\ ~UnbufferedOnly(t) /\ Cap \in Nat
  BY UnbufferedSteps, UseFacts DEF TypeInv, Types
<1>p. PlaceAt(t, pc[t], fr[t]) /\ CloseInv
  BY DEF TypeInv, PlaceInv
<1>s. fr'[t].have_swapped => pc'[t] \in {"r_im", "r_mine"}
  <2>1. PlaceAt(t, pc[t], fr[t])' /\ Cap' = Cap
    BY DEF TypeInv, PlaceInv, Cap
  <2> QED
    BY <2>1 DEF PlaceAt, WriterSec
<1>u. /\ pc[t] = "p_free" => ch.write_free > 0
      /\ pc[t] = "r_avail" /\ ch.adr_written # ClosedMark => ch.read_avail > 0
      /\ ch.adr_written \in {NULL, ClosedMark}
      /\ ch.adr_written = NULL =>
           ch.write_adr = NULL /\ pc[t] \notin ReaderTok \cup {"p_copy", "p_publish"}
      /\ pc[t] # "p_post" /\ ~fr[t].have_swapped
      /\ pc[t] = "c_readers" => ch.adr_written = ClosedMark
  BY CountUse
<1>k. /\ ch.write_free \in Nat /\ ch.read_avail \in Nat /\ ch.writesem \in Nat /\ ch.readsem \in Nat
      /\ ch.closed \in BOOLEAN
  BY <1>0, ChFacts
<1> USE DEF CountStep, In, Filling, Draining, ReaderTok, ReaderSec
<1>1. CASE Begin(t)
  <2>1. UNCHANGED ch /\ pc[t] = "idle" /\ pc'[t] \in {"push", "pop", "close", "sel"}
    BY <1>0, <1>1, BeginFacts
  <2> QED
    BY <1>k, <1>s, <1>u, <2>1
<1>2. CASE PushStart(t)
  BY <1>0, <1>s, <1>u, <1>k, <1>2, BackFacts DEF PushStart, At, Goto, ChType
<1>3. CASE PushTakes(t)
  BY <1>0, <1>s, <1>u, <1>k, <1>3 DEF PushTakes, At, Goto, ChType
<1>4. CASE PushCopies(t)
  BY <1>0, <1>s, <1>u, <1>k, <1>4 DEF PushCopies, At, Goto, ChType
<1>5. CASE PushPublishes(t)
  BY <1>0, <1>s, <1>u, <1>k, <1>5 DEF PushPublishes, At, Goto, ChType
<1>6. CASE PushPosts(t)
  BY <1>0, <1>s, <1>u, <1>k, <1>6, BackFacts DEF PushPosts, At, Goto, ChType
<1>7. CASE PushNoReader(t)
  BY <1>0, <1>s, <1>u, <1>k, <1>7 DEF PushNoReader, At, Goto, ChType
<1>8. CASE PushToken(t)
  BY <1>0, <1>s, <1>u, <1>k, <1>8 DEF PushToken, At, Goto, ChType
<1>9. CASE PushNoToken(t)
  BY <1>0, <1>s, <1>u, <1>k, <1>9, BackFacts DEF PushNoToken, At, Goto, ChType
<1>10. CASE PushAfterToken(t)
  BY <1>0, <1>s, <1>u, <1>k, <1>10, BackFacts DEF PushAfterToken, At, Goto, ChType
<1>11. CASE PushReserves(t)
  BY <1>0, <1>s, <1>u, <1>k, <1>11, BackFacts DEF PushReserves, At, Goto, ChType
<1>12. CASE PushIndex(t)
  BY <1>0, <1>s, <1>u, <1>k, <1>12 DEF PushIndex, At, Goto, ChType
<1>13. CASE PushEntersSlot(t)
  BY <1>0, <1>s, <1>u, <1>k, <1>13 DEF PushEntersSlot, At, Goto, ChType
<1>14. CASE PushStores(t)
  BY <1>0, <1>s, <1>u, <1>k, <1>14 DEF PushStores, At, Goto, ChType
<1>15. CASE PushAvail(t)
  BY <1>0, <1>s, <1>u, <1>k, <1>15 DEF PushAvail, At, Goto, ChType
<1>16. CASE PushReadsem(t)
  BY <1>0, <1>s, <1>u, <1>k, <1>16 DEF PushReadsem, At, Goto, ChType
<1>17. CASE PushSubscriber(t)
  BY <1>0, <1>s, <1>u, <1>k, <1>17, BackFacts DEF PushSubscriber, At, Goto, ChType
<1>18. CASE PopStart(t)
  BY <1>0, <1>s, <1>u, <1>k, <1>18, BackFacts DEF PopStart, At, Goto, ChType
<1>19. CASE PopToken(t)
  BY <1>0, <1>s, <1>u, <1>k, <1>19 DEF PopToken, At, Goto, ChType
<1>20. CASE PopNoToken(t)
  BY <1>0, <1>s, <1>u, <1>k, <1>20 DEF PopNoToken, At, Goto, ChType
<1>21. CASE PopLooksClosed(t)
  BY <1>0, <1>s, <1>u, <1>k, <1>21, BackFacts DEF PopLooksClosed, At, Goto, ChType
<1>22. CASE PopClaims(t)
  <2>1. CASE ch.read_avail > 0
    BY <1>0, <1>s, <1>u, <1>k, <1>22, <2>1 DEF PopClaims, At, Goto, ChType
  <2>2. CASE ~(ch.read_avail > 0)
    <3>1. pc[t] = "r_avail" /\ pc'[t] = "r_adv" /\ ch' = ch /\ fr' = fr
      BY <1>0, <1>22, <2>2 DEF PopClaims, At, Goto
    <3> QED
      BY <1>u, <1>k, <2>2, <3>1 DEF NULL, ClosedMark
  <2> QED
    BY <2>1, <2>2
<1>23. CASE PopIndex(t)
  BY <1>0, <1>s, <1>u, <1>k, <1>23 DEF PopIndex, At, Goto, ChType
<1>24. CASE PopEntersSlot(t)
  BY <1>0, <1>s, <1>u, <1>k, <1>24 DEF PopEntersSlot, At, Goto, ChType
<1>25. CASE PopLoads(t)
  BY <1>0, <1>s, <1>u, <1>k, <1>25 DEF PopLoads, At, Goto, ChType
<1>26. CASE PopFrees(t)
  BY <1>0, <1>s, <1>u, <1>k, <1>26 DEF PopFrees, At, Goto, ChType
<1>27. CASE PopWritesem(t)
  BY <1>0, <1>s, <1>u, <1>k, <1>27 DEF PopWritesem, At, Goto, ChType
<1>28. CASE PopSubscriber(t)
  BY <1>0, <1>s, <1>u, <1>k, <1>28, BackFacts DEF PopSubscriber, At, Goto, ChType
<1>29. CASE PopAdvertises(t)
  BY <1>0, <1>s, <1>u, <1>k, <1>29 DEF PopAdvertises, At, Goto, ChType
<1>30. CASE PopAwaits(t)
  <2>1. ch.adr_written = ClosedMark /\ ch.adr_written # t
    BY <1>0, <1>s, <1>u, <1>k, <1>30, UseFacts DEF PopAwaits, At, TypeInv, Types
  <2>2. ch' = [ch EXCEPT !.readsem = @ + 1] /\ Return(t, "closed")
    BY <1>30, <2>1 DEF PopAwaits
  <2>3. pc[t] = "r_await" /\ pc'[t] = Back(t) /\ Back(t) \in {"sel_result", "idle"}
    BY <1>30, <2>2, BackFacts DEF PopAwaits, At
  <2> QED
    BY <1>0, <1>s, <1>u, <1>k, <2>1, <2>2, <2>3 DEF ChType
<1>31. CASE PopImSem(t)
  BY <1>0, <1>s, <1>u, <1>k, <1>31 DEF PopImSem, At, Goto, ChType
<1>32. CASE PopIsMine(t)
  <2>1. ch.adr_written = ClosedMark /\ ch.adr_written # t /\ ~fr[t].have_swapped
    BY <1>0, <1>s, <1>u, <1>k, <1>32, UseFacts DEF PopIsMine, At, TypeInv, Types
  <2> DEFINE n == ch.readsem + 1
             m == ch.readsem_im + 1
  <2>2. ch' = [ch EXCEPT !.readsem_im = m, !.readsem = n] /\ Return(t, "closed")
    BY <1>32, <2>1 DEF PopIsMine
  <2>3. pc[t] = "r_mine" /\ pc'[t] = Back(t) /\ Back(t) \in {"sel_result", "idle"}
    BY <1>32, <2>2, BackFacts DEF PopIsMine, At
  <2> HIDE DEF n, m
  <2> QED
    BY <1>0, <1>s, <1>u, <1>k, <2>1, <2>2, <2>3 DEF ChType
<1>33. CASE CloseClaims(t)
  BY <1>0, <1>s, <1>u, <1>k, <1>33, <1>p DEF CloseClaims, At, Goto, ChType
<1>34. CASE CloseWaits(t)
  BY <1>0, <1>s, <1>u, <1>k, <1>34, EndFacts DEF CloseWaits, At, Goto, ChType
<1>35. CASE CloseSets(t)
  BY <1>0, <1>s, <1>u, <1>k, <1>35, <1>p DEF CloseSets, At, Goto, ChType
<1>36. CASE CloseMarks(t)
  BY <1>0, <1>s, <1>u, <1>k, <1>36, <1>p DEF CloseMarks, At, Goto, ChType
<1>37. CASE ClosePostsReaders(t)
  BY <1>0, <1>s, <1>u, <1>k, <1>37, <1>p DEF ClosePostsReaders, At, Goto, ChType
<1>38. CASE ClosePostsReadSub(t)
  BY <1>0, <1>s, <1>u, <1>k, <1>38, <1>p DEF ClosePostsReadSub, At, Goto, ChType
<1>39. CASE ClosePostsWriteSub(t)
  BY <1>0, <1>s, <1>u, <1>k, <1>39, <1>p DEF ClosePostsWriteSub, At, Goto, ChType
<1>40. CASE ClosePostsWriters(t)
  <2>1. ch.closed
    BY <1>40, <1>p DEF ClosePostsWriters, At, CloseInv, Closing
  <2> QED
    BY <1>0, <1>s, <1>u, <1>k, <1>40, <2>1 DEF ClosePostsWriters, At, Goto, ChType
<1>41. CASE CloseEnds(t)
  BY <1>0, <1>s, <1>u, <1>k, <1>41, EndFacts DEF CloseEnds, At, Goto, ChType
<1>42. CASE SelSubscribes(t)
  BY <1>0, <1>s, <1>u, <1>k, <1>42 DEF SelSubscribes, At, Goto, ChType, Dir
<1>43. CASE SelResult(t)
  BY <1>0, <1>s, <1>u, <1>k, <1>43 DEF SelResult, At, Goto, ChType
<1>44. CASE RecheckLock(t)
  BY <1>0, <1>s, <1>u, <1>k, <1>44 DEF RecheckLock, At, Goto, ChType
<1>45. CASE RecheckPeer(t)
  <2>1. ch' = ch /\ pc[t] = "sel_recheck_scan" /\ pc'[t] \in {"sel_recheck_scan", "sel_sleep"}
    BY <1>0, <1>45 DEF RecheckPeer, At, Goto
  <2> QED
    BY <1>0, <1>s, <1>u, <1>k, <2>1
<1>46. CASE RecheckEnds(t)
  BY <1>0, <1>s, <1>u, <1>k, <1>46 DEF RecheckEnds, At, Goto, ChType
<1>47. CASE SelRescans(t)
  BY <1>0, <1>s, <1>u, <1>k, <1>47 DEF SelRescans, At, Goto, ChType, Dir
<1>48. CASE SelWakes(t)
  BY <1>0, <1>s, <1>u, <1>k, <1>48 DEF SelWakes, At, Goto, ChType
<1>49. CASE SelOutOfTime(t)
  BY <1>0, <1>s, <1>u, <1>k, <1>49 DEF SelOutOfTime, At, Goto, ChType
<1>50. CASE SelWoken(t)
  BY <1>0, <1>s, <1>u, <1>k, <1>50 DEF SelWoken, At, Goto, ChType, Dir
<1>51. CASE SelServed(t)
  BY <1>0, <1>s, <1>u, <1>k, <1>51 DEF SelServed, At, Goto, ChType
<1>52. CASE SelLeaves(t)
  <2>1. ch' = ch /\ pc[t] = "sel_leave" /\ pc'[t] = "idle"
    BY <1>0, <1>52, EndFacts DEF SelLeaves, At
  <2> QED
    BY <1>0, <1>s, <1>u, <1>k, <2>1
<1> QED
  BY <1>0, <1>1, <1>2, <1>3, <1>4, <1>5, <1>6, <1>7, <1>8, <1>9, <1>10, <1>11, <1>12, <1>13, <1>14, <1>15, <1>16, <1>17, <1>18, <1>19, <1>20, <1>21, <1>22, <1>23, <1>24, <1>25, <1>26, <1>27, <1>28, <1>29, <1>30, <1>31, <1>32, <1>33, <1>34, <1>35, <1>36, <1>37, <1>38, <1>39, <1>40, <1>41, <1>42, <1>43, <1>44, <1>45, <1>46, <1>47, <1>48, <1>49, <1>50, <1>51, <1>52
     DEF UnbufferedOnly, Step, to_select, try_push_impl, push_unbuffered, push_buffered, try_pop_impl,
         pop_buffered, pop_waits, close, channel_select

LEMMA CountInit ==
  ASSUME Init
  PROVE  CountInv
<1>1. TypeInv /\ Cap \in Nat
  BY TypeInit, UseFacts DEF TypeInv, Types
<1>2. ASSUME NEW L, "idle" \notin L PROVE Num(L) = 0
  <2>1. {t \in Thread : pc[t] \in L} = {}
    BY <1>2 DEF Init
  <2> QED
    BY <2>1, FS_EmptySet DEF Num, Count
<1>3. /\ Num(Filling) = 0 /\ Num(Draining) = 0 /\ Num({"p_closed"}) = 0 /\ Num({"p_free"}) = 0
      /\ Num({"r_writesem"}) = 0 /\ Num({"p_readsem"}) = 0 /\ Num({"r_avail"}) = 0
  BY <1>2 DEF Filling, Draining
<1>4. LateInv
  BY DEF Init, LateInv, ReaderTok, ReaderSec, Frame0, NULL, ClosedMark
<1> QED
  BY <1>1, <1>3, <1>4 DEF Init, CountInv, RingCount, WriteTokens, Free, ReadTokens

LEMMA CountSteps ==
  ASSUME TypeInv, TypeInv', CountInv, [Next]_vars
  PROVE  CountInv'
<1>1. CASE UNCHANGED vars
  BY <1>1 DEF vars, CountInv, RingCount, WriteTokens, Free, ReadTokens, LateInv, Num, Count, Cap
<1>2. ASSUME use' = use, NEW t \in Thread, Begin(t) \/ Step(t)
      PROVE  CountInv'
  <2>1. Cap \in Nat /\ Moves(t)
    BY <1>2, StepMoves, UseFacts DEF TypeInv, Types
  <2>2. CASE Cap = 0
    BY <1>2, <2>2, RingCountersKept, CountUnbuffered
  <2>3. CASE Cap > 0
    BY <1>2, <2>1, <2>3, CountBuffered, CountMove
  <2> QED
    BY <2>1, <2>2, <2>3
<1> QED
  BY <1>1, <1>2 DEF Next


-----------------------------------------------------------------------------
(* Closing *)

(* Two sets of threads that differ in one thread at most. *)
LEMMA OneMoves ==
  ASSUME NEW S \in SUBSET Thread, NEW T \in SUBSET Thread, NEW t \in Thread,
         \A u \in Thread : u # t => (u \in S <=> u \in T)
  PROVE  /\ Cardinality(S) \in Nat /\ Cardinality(T) \in Nat
         /\ Cardinality(T) = Cardinality(S) + In(t, T) - In(t, S)
<1>1. IsFiniteSet(S) /\ IsFiniteSet(T) /\ Cardinality(S) \in Nat /\ Cardinality(T) \in Nat
  BY SyncChanAssumption, FS_Subset, FS_CardinalityType
<1>2. /\ IsFiniteSet(S \ {t}) /\ Cardinality(S \ {t}) \in Nat
      /\ Cardinality(S \ {t}) = IF t \in S THEN Cardinality(S) - 1 ELSE Cardinality(S)
  BY <1>1, FS_RemoveElement, FS_CardinalityType
<1>3. Cardinality(T \ {t}) = IF t \in T THEN Cardinality(T) - 1 ELSE Cardinality(T)
  BY <1>1, FS_RemoveElement
<1>4. S \ {t} = T \ {t}
  OBVIOUS
<1> DEFINE n == Cardinality(S)
           m == Cardinality(T)
           r == Cardinality(S \ {t})
<1>5. /\ n \in Nat /\ m \in Nat /\ r \in Nat
      /\ r = IF t \in S THEN n - 1 ELSE n
  BY <1>1, <1>2
<1>6. r = IF t \in T THEN m - 1 ELSE m
  BY <1>3, <1>4
<1> HIDE DEF n, m, r
<1>7. m = n + In(t, T) - In(t, S)
  BY <1>5, <1>6 DEF In
<1> QED
  BY <1>1, <1>7 DEF n, m

LEMMA ValueFinite ==
  ASSUME NEW S \in SUBSET Value
  PROVE  IsFiniteSet(S) /\ Cardinality(S) \in Nat
<1>1. MaxCalls \in Nat /\ IsFiniteSet(Thread)
  BY SyncChanAssumption
<1>2. IsFiniteSet(1 .. MaxCalls)
  BY <1>1, FS_Interval
<1>3. IsFiniteSet(Thread \X (1 .. MaxCalls))
  BY <1>1, <1>2, FS_Product
<1>4. IsFiniteSet((Thread \X (1 .. MaxCalls)) \cup {NoVal})
  BY <1>3, FS_AddElement
<1>5. Value = (Thread \X (1 .. MaxCalls)) \cup {NoVal}
  BY DEF Value
<1>6. IsFiniteSet(S)
  BY <1>4, <1>5, FS_Subset
<1> QED
  BY <1>6, FS_CardinalityType

(* What a step of t owes to the count of sends, except the claim of close. *)
DrainStep(t) ==
  /\ \A s \in Thread : sel[s].state \in {"scanning", "waiting"} => sel'[s].state \in {"scanning", "waiting"}
  /\ hist'.early = hist.early /\ ch'.close_claimed = ch.close_claimed
  /\ \/ /\ hist'.sent = hist.sent
        /\ hist'.claims + ch'.read_avail + In(t, Told) >= hist.claims + ch.read_avail + In(t, Told')
     \/ /\ t \in Told /\ t \notin Told'
        /\ hist'.sent = hist.sent \cup {obj[t]}
        /\ hist'.claims + ch'.read_avail = hist.claims + ch.read_avail
  /\ hist'.claims >= hist.claims
  /\ pc'[t] \in ReaderTok /\ pc[t] \notin ReaderTok => Cardinality(hist.early) <= hist.claims
  /\ hist'.undrained =>
       \/ hist.undrained
       \/ /\ hist.claims < Cardinality(hist.early)
          /\ fr[t].op \in PopOps /\ (fr[t].op # "pop" \/ pc[t] \in ReaderTok)

LEMMA DrainMove ==
  ASSUME TypeInv, TypeInv', DrainInv, use' = use, NEW t \in Thread, Cap > 0,
         Moves(t), DrainStep(t)
  PROVE  DrainInv'
<1>0. Cap' = Cap /\ hist \in HistType /\ hist' \in HistType
  BY DEF TypeInv, Types, Cap
<1>1. /\ hist.claims \in Nat /\ hist'.claims \in Nat /\ ch.read_avail \in Nat /\ ch'.read_avail \in Nat
      /\ hist.sent \in SUBSET Value /\ hist.early \in SUBSET Value /\ obj[t] \in Value
  <2>1. ch \in ChType /\ ch' \in ChType' /\ obj[t] \in Value
    BY DEF TypeInv, Types
  <2> QED
    BY <1>0, <2>1 DEF ChType, HistType
<1>2. \A u \in Thread : u # t => pc'[u] = pc[u] /\ fr'[u] = fr[u]
  BY DEF Moves
<1>3. SelIdle'
  BY <1>0, <1>2 DEF SelIdle, DrainInv, DrainStep
<1>4. (~ch'.close_claimed => hist'.early = {}) /\ hist'.early \subseteq hist'.sent
  BY DEF DrainInv, DrainStep
<1>5. Cardinality(hist'.sent) + Cardinality(Told') <= hist'.claims + ch'.read_avail
  <2>1. /\ Cardinality(Told) \in Nat /\ Cardinality(Told') \in Nat
        /\ Cardinality(Told') = Cardinality(Told) + In(t, Told') - In(t, Told)
    <3>1. Told \in SUBSET Thread /\ Told' \in SUBSET Thread
      BY DEF Told
    <3>2. \A u \in Thread : u # t => (u \in Told <=> u \in Told')
      BY <1>2 DEF Told
    <3> QED
      BY <3>1, <3>2, OneMoves
  <2>2. Cardinality(hist.sent) + Cardinality(Told) <= hist.claims + ch.read_avail
    BY DEF DrainInv
  <2>3. Cardinality(hist.sent) \in Nat /\ IsFiniteSet(hist.sent)
    BY <1>1, ValueFinite
  <2>4. CASE /\ hist'.sent = hist.sent
             /\ hist'.claims + ch'.read_avail + In(t, Told) >= hist.claims + ch.read_avail + In(t, Told')
    BY <1>1, <2>1, <2>2, <2>3, <2>4 DEF In
  <2>5. CASE /\ t \in Told /\ t \notin Told'
             /\ hist'.sent = hist.sent \cup {obj[t]}
             /\ hist'.claims + ch'.read_avail = hist.claims + ch.read_avail
    <3>0. Cardinality(hist.sent \cup {obj[t]})
            = IF obj[t] \in hist.sent THEN Cardinality(hist.sent) ELSE Cardinality(hist.sent) + 1
      BY <2>3, FS_AddElement
    <3>1. Cardinality(hist'.sent) <= Cardinality(hist.sent) + 1 /\ Cardinality(hist'.sent) \in Nat
      BY <2>3, <2>5, <3>0
    <3>2. Cardinality(Told') = Cardinality(Told) - 1
      BY <2>1, <2>5 DEF In
    <3> QED
      BY <1>1, <2>1, <2>2, <2>3, <2>5, <3>1, <3>2
  <2> QED
    BY <2>4, <2>5 DEF DrainStep
<1>6. Cardinality(hist.early) \in Nat
  BY <1>1, ValueFinite
<1>7. \A u \in Thread : pc'[u] \in ReaderTok => Cardinality(hist'.early) <= hist'.claims
  <2>1. hist'.early = hist.early /\ hist'.claims >= hist.claims
    BY DEF DrainStep
  <2>2. \A u \in Thread : pc[u] \in ReaderTok => Cardinality(hist.early) <= hist.claims
    BY DEF DrainInv
  <2>3. pc'[t] \in ReaderTok => Cardinality(hist.early) <= hist.claims
    BY <2>2 DEF DrainStep
  <2> QED
    BY <1>1, <1>2, <1>6, <2>1, <2>2, <2>3
<1>8. OnlyWaits(use) => ~hist'.undrained
  <2> SUFFICES ASSUME OnlyWaits(use), hist'.undrained PROVE FALSE
    OBVIOUS
  <2>1. /\ hist.claims < Cardinality(hist.early)
        /\ fr[t].op \in PopOps /\ (fr[t].op # "pop" \/ pc[t] \in ReaderTok)
    BY DEF DrainInv, DrainStep
  <2>2. pc[t] \notin ReaderTok
    BY <1>1, <1>6, <2>1 DEF DrainInv
  <2>3. hist.early # {}
    BY <1>1, <1>6, <2>1, FS_EmptySet
  <2>4. Closers(use) # {}
    BY <2>3 DEF DrainInv, TypeInv, CloseInv
  <2>5. fr[t].op \in use.may[t]
    BY <2>1 DEF TypeInv, PlaceInv, PlaceAt, Frame0, PopOps
  <2>6. use.cap > 0
    BY DEF Cap
  <2> QED
    BY <2>1, <2>2, <2>4, <2>5, <2>6 DEF OnlyWaits
<1>9. OnlyWaits(use)' => OnlyWaits(use)
  BY DEF OnlyWaits, Closers
<1> QED
  BY <1>0, <1>3, <1>4, <1>5, <1>7, <1>8, <1>9 DEF DrainInv

(* What callers are told by a return. *)
LEMMA ReturnDrain ==
  ASSUME TypeInv, NEW t \in Thread, NEW res \in Results, Return(t, res),
         pc[t] \notin {"idle", "sel_result", "sel_leave"}
  PROVE  /\ hist'.early = hist.early /\ hist'.claims = hist.claims
         /\ \/ fr[t].op \in PushOps /\ res = "success"
            \/ hist'.sent = hist.sent
         /\ hist'.undrained => \/ hist.undrained
                               \/ fr[t].op \in PopOps /\ res = "closed" /\ hist.claims < Cardinality(hist.early)
         /\ t \in Told' => fr[t].op \in PushOps /\ res = "success" /\ hist'.sent = hist.sent
         /\ fr[t].op \in PushOps /\ res = "success" =>
              \/ t \in Told' /\ hist'.sent = hist.sent
              \/ t \notin Told' /\ hist'.sent = hist.sent \cup {obj[t]}
         /\ pc'[t] \in {"sel_result", "idle"}
<1>0. Types
  BY DEF TypeInv
<1>1. CASE fr[t].op \in SelOps
  <2>1. fr'[t].op = fr[t].op /\ fr'[t].result = res /\ hist' = hist /\ pc'[t] = "sel_result"
    BY <1>0, <1>1, ReturnFacts, BackFacts DEF Back
  <2> QED
    BY <1>1, <2>1 DEF Told, ToldBy, SelOps, PushOps
<1>2. CASE fr[t].op \notin SelOps
  <2>1. Finish(t, res) /\ pc'[t] = "idle"
    BY <1>2, BackFacts DEF Return, Back
  <2>2. t \notin Told'
    BY <2>1 DEF Told, ToldBy
  <2> QED
    BY <1>0, <2>1, <2>2, FinishFacts
<1> QED
  BY <1>1, <1>2


ToldAt == {"p_readsem", "p_sub", "sel_result", "sel_leave"}

(* A step in the middle of a call. *)
LEMMA DrainQuiet ==
  ASSUME TypeInv, NEW t \in Thread, hist'.sent = hist.sent, hist'.early = hist.early,
         hist'.claims = hist.claims, hist'.undrained = hist.undrained,
         ch'.read_avail = ch.read_avail, ch'.close_claimed = ch.close_claimed,
         \A s \in Thread : sel[s].state \in {"scanning", "waiting"} => sel'[s].state \in {"scanning", "waiting"},
         pc[t] \notin ToldAt, pc'[t] \notin ToldAt,
         pc'[t] \in ReaderTok => pc[t] \in ReaderTok
  PROVE  DrainStep(t)
<1>1. hist.claims \in Nat /\ ch.read_avail \in Nat
  BY ChFacts DEF TypeInv, Types, HistType
<1>2. In(t, Told) = 0 /\ In(t, Told') = 0
  BY DEF In, Told, ToldBy, ToldAt
<1> QED
  BY <1>1, <1>2 DEF DrainStep

(* A return that is no success of a send. *)
LEMMA DrainReturn ==
  ASSUME TypeInv, NEW t \in Thread, NEW res \in Results, Return(t, res),
         ch'.read_avail = ch.read_avail, ch'.close_claimed = ch.close_claimed,
         \A s \in Thread : sel'[s].state = sel[s].state,
         pc[t] \notin ToldAt \cup {"idle"},
         fr[t].op \in PushOps => res # "success",
         fr[t].op \in PopOps /\ res = "closed" => fr[t].op # "pop" \/ pc[t] \in ReaderTok
  PROVE  DrainStep(t)
<1>1. hist.claims \in Nat /\ ch.read_avail \in Nat
  BY ChFacts DEF TypeInv, Types, HistType
<1>2. /\ hist'.early = hist.early /\ hist'.claims = hist.claims /\ hist'.sent = hist.sent
      /\ hist'.undrained => \/ hist.undrained
                            \/ fr[t].op \in PopOps /\ res = "closed" /\ hist.claims < Cardinality(hist.early)
      /\ t \notin Told' /\ pc'[t] \in {"sel_result", "idle"}
  BY ReturnDrain DEF ToldAt
<1>3. In(t, Told) = 0 /\ In(t, Told') = 0
  BY <1>2 DEF In, Told, ToldBy, ToldAt
<1> QED
  BY <1>1, <1>2, <1>3 DEF DrainStep, ReaderTok, ReaderSec

(* Every step of a call on a buffered channel but the claim of close. *)
LEMMA DrainBuffered ==
  ASSUME TypeInv, CountInv, DrainInv, use' = use, NEW t \in Thread, Cap > 0,
         Begin(t) \/ Step(t), ~CloseClaims(t)
  PROVE  DrainStep(t)
<1>0. /\ ch \in ChType /\ pc \in [Thread -> Labels] /\ fr \in [Thread -> FrameType]
      /\ sel \in [Thread -> [state : {"scanning", "waiting", "claimed", "served"}, sem : Nat]]
      /\ hist \in HistType /\ obj[t] \in Value
      /\ ~UnbufferedOnly(t) /\ Cap \in Nat /\ Types
  BY UnbufferedSteps, UseFacts DEF TypeInv, Types
<1>p. PlaceAt(t, pc[t], fr[t])
  BY DEF TypeInv, PlaceInv
<1>q. /\ pc[t] \in PushLabels => fr[t].op \in PushOps
      /\ pc[t] \in PopLabels => fr[t].op \in PopOps
      /\ pc[t] \in CloseLabels => fr[t].op = "close"
      /\ pc[t] = "r_closed" => fr[t].op # "pop"
      /\ pc[t] = "sel_leave" => fr[t].op \in SelOps
  BY <1>p DEF PlaceAt, SelLabels
<1>u. /\ ch.adr_written = NULL => pc[t] \notin ReaderTok
      /\ ch.adr_written \in {NULL, ClosedMark}
      /\ pc[t] # "p_post" /\ ~fr[t].have_swapped /\ NULL # ClosedMark
      /\ ClosedMark \notin Thread
  BY CountUse, UseFacts, <1>0 DEF Types
<1>v. \A s \in Thread : sel[s].state \in {"scanning", "waiting"}
  BY DEF DrainInv, SelIdle
<1>k. ch.read_avail \in Nat /\ hist.claims \in Nat
  BY <1>0, ChFacts DEF HistType
<1>1. CASE Begin(t)
  <2>1. UNCHANGED <<ch, sel, hist>> /\ pc[t] = "idle" /\ pc'[t] \in {"push", "pop", "close", "sel"}
    BY <1>0, <1>1, BeginFacts
  <2> QED
    BY <2>1, DrainQuiet DEF ToldAt, ReaderTok, ReaderSec
<1>2. CASE PushStart(t)
  <2>1. CASE ch.closed
    <3>1. Return(t, "closed") /\ ch'.read_avail = ch.read_avail /\ ch'.close_claimed = ch.close_claimed /\ sel' = sel
      BY <1>0, <1>2, <2>1 DEF PushStart, At, ChType, selVars
    <3>2. pc[t] = "push"
      BY <1>2 DEF PushStart, At
    <3> QED
      BY <1>q, <1>0, <2>1, <3>1, <3>2, DrainReturn DEF Results, PushLabels, PopLabels, ToldAt, ReaderTok, ReaderSec, PushOps, PopOps, WriterSec
  <2>2. CASE ~(ch.closed)
    <3>1. /\ CountsKept /\ sel' = sel
          /\ pc[t] \notin ToldAt /\ pc'[t] \notin ToldAt
          /\ pc'[t] \in ReaderTok => pc[t] \in ReaderTok
      BY <1>0, <1>2, <2>2 DEF PushStart, At, Goto, ChType, selVars, ToldAt, ReaderTok, ReaderSec
    <3> QED
      BY <3>1, DrainQuiet
  <2> QED
    BY <2>1, <2>2
<1>3. CASE PushTakes(t)
  <2>1. /\ CountsKept
        /\ \A s \in Thread : sel'[s].state \in {"scanning", "waiting"}
        /\ pc[t] \notin ToldAt /\ pc'[t] \notin ToldAt
        /\ pc'[t] \in ReaderTok => pc[t] \in ReaderTok
    BY <1>0, <1>v, <1>3 DEF PushTakes, At, Goto, ChType, selVars, ToldAt, ReaderTok, ReaderSec
  <2> QED
    BY <2>1, DrainQuiet
<1>4. CASE PushCopies(t)
  <2>1. /\ CountsKept
        /\ \A s \in Thread : sel'[s].state \in {"scanning", "waiting"}
        /\ pc[t] \notin ToldAt /\ pc'[t] \notin ToldAt
        /\ pc'[t] \in ReaderTok => pc[t] \in ReaderTok
    BY <1>0, <1>v, <1>4 DEF PushCopies, At, Goto, ChType, selVars, ToldAt, ReaderTok, ReaderSec
  <2> QED
    BY <2>1, DrainQuiet
<1>5. CASE PushPublishes(t)
  <2>1. /\ CountsKept
        /\ \A s \in Thread : sel'[s].state \in {"scanning", "waiting"}
        /\ pc[t] \notin ToldAt /\ pc'[t] \notin ToldAt
        /\ pc'[t] \in ReaderTok => pc[t] \in ReaderTok
    BY <1>0, <1>v, <1>5 DEF PushPublishes, At, Goto, ChType, selVars, ToldAt, ReaderTok, ReaderSec
  <2> QED
    BY <2>1, DrainQuiet
<1>6. CASE PushPosts(t)
  BY <1>u, <1>6 DEF PushPosts, At
<1>7. CASE PushNoReader(t)
  <2>1. /\ CountsKept
        /\ \A s \in Thread : sel'[s].state \in {"scanning", "waiting"}
        /\ pc[t] \notin ToldAt /\ pc'[t] \notin ToldAt
        /\ pc'[t] \in ReaderTok => pc[t] \in ReaderTok
    BY <1>0, <1>v, <1>7 DEF PushNoReader, At, Goto, ChType, selVars, ToldAt, ReaderTok, ReaderSec
  <2> QED
    BY <2>1, DrainQuiet
<1>8. CASE PushToken(t)
  <2>1. /\ CountsKept
        /\ \A s \in Thread : sel'[s].state \in {"scanning", "waiting"}
        /\ pc[t] \notin ToldAt /\ pc'[t] \notin ToldAt
        /\ pc'[t] \in ReaderTok => pc[t] \in ReaderTok
    BY <1>0, <1>v, <1>8 DEF PushToken, At, Goto, ChType, selVars, ToldAt, ReaderTok, ReaderSec
  <2> QED
    BY <2>1, DrainQuiet
<1>9. CASE PushNoToken(t)
  <2>1. TRUE
    OBVIOUS
  <2>2. DrainStep(t)
    <3>1. Return(t, "not_ready") /\ ch'.read_avail = ch.read_avail /\ ch'.close_claimed = ch.close_claimed /\ sel' = sel
      BY <1>0, <1>9, <2>1 DEF PushNoToken, At, ChType, selVars
    <3>2. pc[t] = "p_sem"
      BY <1>9 DEF PushNoToken, At
    <3> QED
      BY <1>q, <1>0, <2>1, <3>1, <3>2, DrainReturn DEF Results, PushLabels, PopLabels, ToldAt, ReaderTok, ReaderSec, PushOps, PopOps, WriterSec
  <2> QED
    BY <2>2
<1>10. CASE PushAfterToken(t)
  <2>1. CASE ch.closed
    <3>1. Return(t, "closed") /\ ch'.read_avail = ch.read_avail /\ ch'.close_claimed = ch.close_claimed /\ sel' = sel
      BY <1>0, <1>10, <2>1 DEF PushAfterToken, At, ChType, selVars
    <3>2. pc[t] = "p_closed"
      BY <1>10 DEF PushAfterToken, At
    <3> QED
      BY <1>q, <1>0, <2>1, <3>1, <3>2, DrainReturn DEF Results, PushLabels, PopLabels, ToldAt, ReaderTok, ReaderSec, PushOps, PopOps, WriterSec
  <2>2. CASE ~(ch.closed)
    <3>1. /\ CountsKept /\ sel' = sel
          /\ pc[t] \notin ToldAt /\ pc'[t] \notin ToldAt
          /\ pc'[t] \in ReaderTok => pc[t] \in ReaderTok
      BY <1>0, <1>10, <2>2 DEF PushAfterToken, At, Goto, ChType, selVars, ToldAt, ReaderTok, ReaderSec
    <3> QED
      BY <3>1, DrainQuiet
  <2> QED
    BY <2>1, <2>2
<1>11. CASE PushReserves(t)
  <2>1. CASE ~(ch.write_free > 0) /\ NoBlock(t)
    <3>1. Return(t, "not_ready") /\ ch'.read_avail = ch.read_avail /\ ch'.close_claimed = ch.close_claimed /\ sel' = sel
      BY <1>0, <1>11, <2>1 DEF PushReserves, At, ChType, selVars
    <3>2. pc[t] = "p_free"
      BY <1>11 DEF PushReserves, At
    <3> QED
      BY <1>q, <1>0, <2>1, <3>1, <3>2, DrainReturn DEF Results, PushLabels, PopLabels, ToldAt, ReaderTok, ReaderSec, PushOps, PopOps, WriterSec
  <2>2. CASE ch.write_free > 0 \/ ~NoBlock(t)
    <3>1. /\ CountsKept /\ sel' = sel
          /\ pc[t] \notin ToldAt /\ pc'[t] \notin ToldAt
          /\ pc'[t] \in ReaderTok => pc[t] \in ReaderTok
      BY <1>0, <1>11, <2>2 DEF PushReserves, At, Goto, ChType, selVars, ToldAt, ReaderTok, ReaderSec
    <3> QED
      BY <3>1, DrainQuiet
  <2> QED
    BY <2>1, <2>2
<1>12. CASE PushIndex(t)
  <2> DEFINE h == Append(hist.order, obj[t])
  <2>1. /\ hist' = [hist EXCEPT !.order = h] /\ sel' = sel
        /\ ch'.read_avail = ch.read_avail /\ ch'.close_claimed = ch.close_claimed
        /\ pc[t] \notin ToldAt /\ pc'[t] \notin ToldAt \cup ReaderTok
    BY <1>0, <1>12 DEF PushIndex, At, Goto, ChType, selVars, ToldAt, ReaderTok, ReaderSec
  <2> HIDE DEF h
  <2>2. /\ hist'.sent = hist.sent /\ hist'.early = hist.early
        /\ hist'.claims = hist.claims /\ hist'.undrained = hist.undrained
    BY <1>0, <2>1 DEF HistType
  <2> QED
    BY <2>1, <2>2, DrainQuiet
<1>13. CASE PushEntersSlot(t)
  <2>1. /\ CountsKept
        /\ \A s \in Thread : sel'[s].state \in {"scanning", "waiting"}
        /\ pc[t] \notin ToldAt /\ pc'[t] \notin ToldAt
        /\ pc'[t] \in ReaderTok => pc[t] \in ReaderTok
    BY <1>0, <1>v, <1>13 DEF PushEntersSlot, At, Goto, ChType, selVars, ToldAt, ReaderTok, ReaderSec
  <2> QED
    BY <2>1, DrainQuiet
<1>14. CASE PushStores(t)
  <2>1. /\ CountsKept
        /\ \A s \in Thread : sel'[s].state \in {"scanning", "waiting"}
        /\ pc[t] \notin ToldAt /\ pc'[t] \notin ToldAt
        /\ pc'[t] \in ReaderTok => pc[t] \in ReaderTok
    BY <1>0, <1>v, <1>14 DEF PushStores, At, Goto, ChType, selVars, ToldAt, ReaderTok, ReaderSec
  <2> QED
    BY <2>1, DrainQuiet
<1>15. CASE PushAvail(t)
  <2>1. /\ hist' = hist /\ ch'.read_avail = ch.read_avail + 1 /\ ch'.close_claimed = ch.close_claimed /\ sel' = sel
        /\ pc[t] = "p_avail" /\ pc'[t] = "p_readsem"
    BY <1>0, <1>15 DEF PushAvail, At, Goto, ChType, selVars
  <2>2. In(t, Told) = 0 /\ In(t, Told') = 1
    BY <2>1 DEF In, Told, ToldBy
  <2> QED
    BY <1>k, <1>v, <2>1, <2>2 DEF DrainStep, ReaderTok, ReaderSec
<1>16. CASE PushReadsem(t)
  <2>1. /\ CountsKept /\ sel' = sel
        /\ pc[t] = "p_readsem" /\ pc'[t] = "p_sub"
    BY <1>0, <1>16 DEF PushReadsem, At, Goto, ChType, selVars
  <2>2. In(t, Told) = 1 /\ In(t, Told') = 1
    BY <2>1 DEF In, Told, ToldBy
  <2> QED
    BY <1>k, <1>v, <2>1, <2>2 DEF DrainStep, ReaderTok, ReaderSec
<1>17. CASE PushSubscriber(t)
  <2>1. /\ Return(t, "success") /\ ch' = ch /\ pc[t] = "p_sub"
        /\ \A s \in Thread : sel'[s].state = sel[s].state
    BY <1>17, PostTyped DEF PushSubscriber, Directions, At
  <2>2. fr[t].op \in PushOps
    BY <1>q, <2>1 DEF PushLabels
  <2>3. /\ hist'.early = hist.early /\ hist'.claims = hist.claims /\ pc'[t] \in {"sel_result", "idle"}
        /\ hist'.undrained => hist.undrained
        /\ \/ t \in Told' /\ hist'.sent = hist.sent
           \/ t \notin Told' /\ hist'.sent = hist.sent \cup {obj[t]}
    BY <2>1, <2>2, ReturnDrain DEF Results
  <2>4. t \in Told
    BY <2>1 DEF Told, ToldBy
  <2> QED
    BY <1>k, <1>v, <2>1, <2>3, <2>4 DEF DrainStep, In, ReaderTok, ReaderSec
<1>18. CASE PopStart(t)
  <2>1. CASE fr[t].op = "sel_pop" /\ fr[t].tmo = "else" /\ ch.closed
    <3>1. Return(t, "closed") /\ ch'.read_avail = ch.read_avail /\ ch'.close_claimed = ch.close_claimed /\ sel' = sel
      BY <1>0, <1>18, <2>1 DEF PopStart, At, ChType, selVars
    <3>2. pc[t] = "pop"
      BY <1>18 DEF PopStart, At
    <3> QED
      BY <1>q, <1>0, <2>1, <3>1, <3>2, DrainReturn DEF Results, PushLabels, PopLabels, ToldAt, ReaderTok, ReaderSec, PushOps, PopOps, WriterSec
  <2>2. CASE ~(fr[t].op = "sel_pop" /\ fr[t].tmo = "else" /\ ch.closed)
    <3>1. /\ CountsKept /\ sel' = sel
          /\ pc[t] \notin ToldAt /\ pc'[t] \notin ToldAt
          /\ pc'[t] \in ReaderTok => pc[t] \in ReaderTok
      BY <1>0, <1>18, <2>2 DEF PopStart, At, Goto, ChType, selVars, ToldAt, ReaderTok, ReaderSec
    <3> QED
      BY <3>1, DrainQuiet
  <2> QED
    BY <2>1, <2>2
<1>19. CASE PopToken(t)
  <2>1. /\ CountsKept
        /\ \A s \in Thread : sel'[s].state \in {"scanning", "waiting"}
        /\ pc[t] \notin ToldAt /\ pc'[t] \notin ToldAt
        /\ pc'[t] \in ReaderTok => pc[t] \in ReaderTok
    BY <1>0, <1>v, <1>19 DEF PopToken, At, Goto, ChType, selVars, ToldAt, ReaderTok, ReaderSec
  <2> QED
    BY <2>1, DrainQuiet
<1>20. CASE PopNoToken(t)
  <2>1. /\ CountsKept
        /\ \A s \in Thread : sel'[s].state \in {"scanning", "waiting"}
        /\ pc[t] \notin ToldAt /\ pc'[t] \notin ToldAt
        /\ pc'[t] \in ReaderTok => pc[t] \in ReaderTok
    BY <1>0, <1>v, <1>20 DEF PopNoToken, At, Goto, ChType, selVars, ToldAt, ReaderTok, ReaderSec
  <2> QED
    BY <2>1, DrainQuiet
<1>21. CASE PopLooksClosed(t)
  <2>1. CASE ch.closed
    <3>1. Return(t, "closed") /\ ch'.read_avail = ch.read_avail /\ ch'.close_claimed = ch.close_claimed /\ sel' = sel
      BY <1>0, <1>21, <2>1 DEF PopLooksClosed, At, ChType, selVars
    <3>2. pc[t] = "r_closed"
      BY <1>21 DEF PopLooksClosed, At
    <3> QED
      BY <1>q, <1>0, <2>1, <3>1, <3>2, DrainReturn DEF Results, PushLabels, PopLabels, ToldAt, ReaderTok, ReaderSec, PushOps, PopOps, WriterSec
  <2>2. CASE ~ch.closed
    <3>1. Return(t, "not_ready") /\ ch'.read_avail = ch.read_avail /\ ch'.close_claimed = ch.close_claimed /\ sel' = sel
      BY <1>0, <1>21, <2>2 DEF PopLooksClosed, At, ChType, selVars
    <3>2. pc[t] = "r_closed"
      BY <1>21 DEF PopLooksClosed, At
    <3> QED
      BY <1>q, <1>0, <2>2, <3>1, <3>2, DrainReturn DEF Results, PushLabels, PopLabels, ToldAt, ReaderTok, ReaderSec, PushOps, PopOps, WriterSec
  <2> QED
    BY <2>1, <2>2
<1>22. CASE PopClaims(t)
  <2>0. pc[t] = "r_avail" /\ sel' = sel /\ fr' = fr
    BY <1>22 DEF PopClaims, At, selVars
  <2>1. CASE ch.read_avail > 0
    <3> DEFINE c == hist.claims + 1
    <3>1. /\ ch'.read_avail = ch.read_avail - 1 /\ ch'.close_claimed = ch.close_claimed
          /\ pc'[t] = "r_idx" /\ hist' = [hist EXCEPT !.claims = c]
      BY <1>0, <1>22, <2>1 DEF PopClaims, Goto, ChType
    <3> HIDE DEF c
    <3>2. /\ hist'.claims = c /\ hist'.early = hist.early /\ hist'.sent = hist.sent
          /\ hist'.undrained = hist.undrained
      BY <1>0, <3>1 DEF HistType
    <3>3. In(t, Told) = 0 /\ In(t, Told') = 0
      BY <2>0, <3>1 DEF In, Told, ToldBy
    <3> QED
      BY <1>k, <1>v, <2>0, <2>1, <3>1, <3>2, <3>3 DEF DrainStep, ReaderTok, ReaderSec, c
  <2>2. CASE ~(ch.read_avail > 0)
    <3>1. ch' = ch /\ hist' = hist /\ pc'[t] = "r_adv"
      BY <1>0, <1>22, <2>2 DEF PopClaims, Goto
    <3>2. In(t, Told) = 0 /\ In(t, Told') = 0
      BY <2>0, <3>1 DEF In, Told, ToldBy
    <3>3. Cardinality(hist.early) <= hist.claims
      <4>1. Cardinality(hist.sent) + Cardinality(Told) <= hist.claims + ch.read_avail /\ hist.early \subseteq hist.sent
        BY DEF DrainInv
      <4>2. /\ IsFiniteSet(hist.sent) /\ Cardinality(hist.sent) \in Nat
            /\ Cardinality(hist.early) \in Nat
        BY <1>0, ValueFinite DEF HistType
      <4>3. Cardinality(Told) \in Nat
        BY FS_Subset, FS_CardinalityType, SyncChanAssumption DEF Told
      <4>4. Cardinality(hist.early) <= Cardinality(hist.sent)
        BY <4>1, <4>2, FS_Subset
      <4> QED
        BY <1>k, <2>2, <4>1, <4>2, <4>3, <4>4
    <3> QED
      BY <1>k, <1>v, <2>0, <3>1, <3>2, <3>3 DEF DrainStep
  <2> QED
    BY <2>1, <2>2
<1>23. CASE PopIndex(t)
  <2> DEFINE h == hist.tickets + 1
  <2>1. /\ hist' = [hist EXCEPT !.tickets = h] /\ sel' = sel
        /\ ch'.read_avail = ch.read_avail /\ ch'.close_claimed = ch.close_claimed
        /\ pc[t] \notin ToldAt /\ pc'[t] \notin ToldAt \cup ReaderTok
    BY <1>0, <1>23 DEF PopIndex, At, Goto, ChType, selVars, ToldAt, ReaderTok, ReaderSec
  <2> HIDE DEF h
  <2>2. /\ hist'.sent = hist.sent /\ hist'.early = hist.early
        /\ hist'.claims = hist.claims /\ hist'.undrained = hist.undrained
    BY <1>0, <2>1 DEF HistType
  <2> QED
    BY <2>1, <2>2, DrainQuiet
<1>24. CASE PopEntersSlot(t)
  <2>1. /\ CountsKept
        /\ \A s \in Thread : sel'[s].state \in {"scanning", "waiting"}
        /\ pc[t] \notin ToldAt /\ pc'[t] \notin ToldAt
        /\ pc'[t] \in ReaderTok => pc[t] \in ReaderTok
    BY <1>0, <1>v, <1>24 DEF PopEntersSlot, At, Goto, ChType, selVars, ToldAt, ReaderTok, ReaderSec
  <2> QED
    BY <2>1, DrainQuiet
<1>25. CASE PopLoads(t)
  <2>1. /\ CountsKept
        /\ \A s \in Thread : sel'[s].state \in {"scanning", "waiting"}
        /\ pc[t] \notin ToldAt /\ pc'[t] \notin ToldAt
        /\ pc'[t] \in ReaderTok => pc[t] \in ReaderTok
    BY <1>0, <1>v, <1>25 DEF PopLoads, At, Goto, ChType, selVars, ToldAt, ReaderTok, ReaderSec
  <2> QED
    BY <2>1, DrainQuiet
<1>26. CASE PopFrees(t)
  <2>1. /\ CountsKept
        /\ \A s \in Thread : sel'[s].state \in {"scanning", "waiting"}
        /\ pc[t] \notin ToldAt /\ pc'[t] \notin ToldAt
        /\ pc'[t] \in ReaderTok => pc[t] \in ReaderTok
    BY <1>0, <1>v, <1>26 DEF PopFrees, At, Goto, ChType, selVars, ToldAt, ReaderTok, ReaderSec
  <2> QED
    BY <2>1, DrainQuiet
<1>27. CASE PopWritesem(t)
  <2>1. /\ CountsKept
        /\ \A s \in Thread : sel'[s].state \in {"scanning", "waiting"}
        /\ pc[t] \notin ToldAt /\ pc'[t] \notin ToldAt
        /\ pc'[t] \in ReaderTok => pc[t] \in ReaderTok
    BY <1>0, <1>v, <1>27 DEF PopWritesem, At, Goto, ChType, selVars, ToldAt, ReaderTok, ReaderSec
  <2> QED
    BY <2>1, DrainQuiet
<1>28. CASE PopSubscriber(t)
  <2>1. /\ Return(t, "success") /\ ch' = ch /\ pc[t] = "r_sub"
        /\ \A s \in Thread : sel'[s].state = sel[s].state
    BY <1>28, PostTyped DEF PopSubscriber, Directions, At
  <2>2. fr[t].op \in PopOps
    BY <1>q, <2>1 DEF PopLabels
  <2> QED
    BY <2>1, <2>2, DrainReturn DEF Results, ToldAt, PushOps, PopOps
<1>29. CASE PopAdvertises(t)
  <2>1. /\ CountsKept
        /\ \A s \in Thread : sel'[s].state \in {"scanning", "waiting"}
        /\ pc[t] \notin ToldAt /\ pc'[t] \notin ToldAt
        /\ pc'[t] \in ReaderTok => pc[t] \in ReaderTok
    BY <1>0, <1>v, <1>29 DEF PopAdvertises, At, Goto, ChType, selVars, ToldAt, ReaderTok, ReaderSec
  <2> QED
    BY <2>1, DrainQuiet
<1>30. CASE PopAwaits(t)
  <2>1. ch.adr_written = ClosedMark /\ ch.adr_written # t /\ ~fr[t].have_swapped
    BY <1>u, <1>30 DEF PopAwaits, At, ReaderTok, ReaderSec
  <2>2. DrainStep(t)
    <3>1. Return(t, "closed") /\ ch'.read_avail = ch.read_avail /\ ch'.close_claimed = ch.close_claimed /\ sel' = sel
      BY <1>0, <1>30, <2>1 DEF PopAwaits, At, ChType, selVars
    <3>2. pc[t] = "r_await"
      BY <1>30 DEF PopAwaits, At
    <3> QED
      BY <1>q, <1>0, <2>1, <3>1, <3>2, DrainReturn DEF Results, PushLabels, PopLabels, ToldAt, ReaderTok, ReaderSec, PushOps, PopOps, WriterSec
  <2> QED
    BY <2>2
<1>31. CASE PopImSem(t)
  <2>1. /\ CountsKept
        /\ \A s \in Thread : sel'[s].state \in {"scanning", "waiting"}
        /\ pc[t] \notin ToldAt /\ pc'[t] \notin ToldAt
        /\ pc'[t] \in ReaderTok => pc[t] \in ReaderTok
    BY <1>0, <1>v, <1>31 DEF PopImSem, At, Goto, ChType, selVars, ToldAt, ReaderTok, ReaderSec
  <2> QED
    BY <2>1, DrainQuiet
<1>32. CASE PopIsMine(t)
  <2>1. ch.adr_written = ClosedMark /\ ch.adr_written # t /\ ~fr[t].have_swapped
    BY <1>u, <1>32 DEF PopIsMine, At, ReaderTok, ReaderSec
  <2>2. DrainStep(t)
    <3>1. Return(t, "closed") /\ ch'.read_avail = ch.read_avail /\ ch'.close_claimed = ch.close_claimed /\ sel' = sel
      BY <1>0, <1>32, <2>1 DEF PopIsMine, At, ChType, selVars
    <3>2. pc[t] = "r_mine"
      BY <1>32 DEF PopIsMine, At
    <3> QED
      BY <1>q, <1>0, <2>1, <3>1, <3>2, DrainReturn DEF Results, PushLabels, PopLabels, ToldAt, ReaderTok, ReaderSec, PushOps, PopOps, WriterSec
  <2> QED
    BY <2>2
<1>33. CASE CloseWaits(t)
  <2>1. /\ Finish(t, "success") /\ pc[t] = "c_other" /\ sel' = sel
        /\ ch'.read_avail = ch.read_avail /\ ch'.close_claimed = ch.close_claimed
    BY <1>0, <1>33 DEF CloseWaits, At, selVars, ChType
  <2>2. fr[t].op = "close"
    BY <1>q, <2>1 DEF CloseLabels
  <2>3. /\ hist'.early = hist.early /\ hist'.claims = hist.claims /\ hist'.sent = hist.sent
        /\ hist'.undrained = hist.undrained /\ pc'[t] = "idle"
    BY <1>0, <2>1, <2>2, FinishFacts DEF Results, PushOps, PopOps, HistType
  <2>4. In(t, Told) = 0 /\ In(t, Told') = 0
    BY <2>1, <2>3 DEF In, Told, ToldBy
  <2> QED
    BY <1>k, <1>v, <2>1, <2>3, <2>4 DEF DrainStep, ReaderTok, ReaderSec
<1>34. CASE CloseSets(t)
  <2>1. /\ CountsKept
        /\ \A s \in Thread : sel'[s].state \in {"scanning", "waiting"}
        /\ pc[t] \notin ToldAt /\ pc'[t] \notin ToldAt
        /\ pc'[t] \in ReaderTok => pc[t] \in ReaderTok
    BY <1>0, <1>v, <1>34 DEF CloseSets, At, Goto, ChType, selVars, ToldAt, ReaderTok, ReaderSec
  <2> QED
    BY <2>1, DrainQuiet
<1>35. CASE CloseMarks(t)
  <2>1. /\ CountsKept
        /\ \A s \in Thread : sel'[s].state \in {"scanning", "waiting"}
        /\ pc[t] \notin ToldAt /\ pc'[t] \notin ToldAt
        /\ pc'[t] \in ReaderTok => pc[t] \in ReaderTok
    BY <1>0, <1>v, <1>35 DEF CloseMarks, At, Goto, ChType, selVars, ToldAt, ReaderTok, ReaderSec
  <2> QED
    BY <2>1, DrainQuiet
<1>36. CASE ClosePostsReaders(t)
  <2>1. /\ CountsKept
        /\ \A s \in Thread : sel'[s].state \in {"scanning", "waiting"}
        /\ pc[t] \notin ToldAt /\ pc'[t] \notin ToldAt
        /\ pc'[t] \in ReaderTok => pc[t] \in ReaderTok
    BY <1>0, <1>v, <1>36 DEF ClosePostsReaders, At, Goto, ChType, selVars, ToldAt, ReaderTok, ReaderSec
  <2> QED
    BY <2>1, DrainQuiet
<1>37. CASE ClosePostsReadSub(t)
  <2>0. \A s \in Thread : sel'[s].state = sel[s].state
    BY <1>37, PostTyped DEF ClosePostsReadSub, Directions
  <2>1. /\ hist' = hist /\ ch' = ch
        /\ pc[t] \notin ToldAt /\ pc'[t] \notin ToldAt \cup ReaderTok
    BY <1>0, <1>37 DEF ClosePostsReadSub, At, Goto, selVars, ToldAt, ReaderTok, ReaderSec
  <2> QED
    BY <2>0, <2>1, DrainQuiet
<1>38. CASE ClosePostsWriteSub(t)
  <2>0. \A s \in Thread : sel'[s].state = sel[s].state
    BY <1>38, PostTyped DEF ClosePostsWriteSub, Directions
  <2>1. /\ hist' = hist /\ ch' = ch
        /\ pc[t] \notin ToldAt /\ pc'[t] \notin ToldAt \cup ReaderTok
    BY <1>0, <1>38 DEF ClosePostsWriteSub, At, Goto, selVars, ToldAt, ReaderTok, ReaderSec
  <2> QED
    BY <2>0, <2>1, DrainQuiet
<1>39. CASE ClosePostsWriters(t)
  <2>1. /\ CountsKept
        /\ \A s \in Thread : sel'[s].state \in {"scanning", "waiting"}
        /\ pc[t] \notin ToldAt /\ pc'[t] \notin ToldAt
        /\ pc'[t] \in ReaderTok => pc[t] \in ReaderTok
    BY <1>0, <1>v, <1>39 DEF ClosePostsWriters, At, Goto, ChType, selVars, ToldAt, ReaderTok, ReaderSec
  <2> QED
    BY <2>1, DrainQuiet
<1>40. CASE CloseEnds(t)
  <2>1. /\ Finish(t, "success") /\ pc[t] = "c_im" /\ sel' = sel
        /\ ch'.read_avail = ch.read_avail /\ ch'.close_claimed = ch.close_claimed
    BY <1>0, <1>40 DEF CloseEnds, At, selVars, ChType
  <2>2. fr[t].op = "close"
    BY <1>q, <2>1 DEF CloseLabels
  <2>3. /\ hist'.early = hist.early /\ hist'.claims = hist.claims /\ hist'.sent = hist.sent
        /\ hist'.undrained = hist.undrained /\ pc'[t] = "idle"
    BY <1>0, <2>1, <2>2, FinishFacts DEF Results, PushOps, PopOps, HistType
  <2>4. In(t, Told) = 0 /\ In(t, Told') = 0
    BY <2>1, <2>3 DEF In, Told, ToldBy
  <2> QED
    BY <1>k, <1>v, <2>1, <2>3, <2>4 DEF DrainStep, ReaderTok, ReaderSec
<1>41. CASE SelSubscribes(t)
  <2>1. /\ CountsKept
        /\ \A s \in Thread : sel'[s].state \in {"scanning", "waiting"}
        /\ pc[t] \notin ToldAt /\ pc'[t] \notin ToldAt
        /\ pc'[t] \in ReaderTok => pc[t] \in ReaderTok
    BY <1>0, <1>v, <1>41 DEF SelSubscribes, At, Goto, ChType, selVars, ToldAt, ReaderTok, ReaderSec, Dir
  <2> QED
    BY <2>1, DrainQuiet
<1>42. CASE SelResult(t)
  <2>1. /\ hist' = hist /\ ch' = ch /\ pc[t] = "sel_result"
        /\ pc'[t] \in {"sel_leave", "sel_recheck", "sel_sleep"}
    BY <1>0, <1>42 DEF SelResult, At, Goto
  <2>2. \A s \in Thread : sel'[s].state \in {"scanning", "waiting"}
    BY <1>0, <1>v, <1>42 DEF SelResult
  <2>3. \/ pc'[t] = "sel_leave" /\ fr'[t] = fr[t]
        \/ pc'[t] = "sel_leave" /\ fr'[t].result = "timeout" /\ fr[t].result = "not_ready"
        \/ pc'[t] # "sel_leave" /\ fr[t].result = "not_ready"
    <3>1. CASE fr[t].result # "not_ready"
      BY <1>0, <1>42, <3>1 DEF SelResult, Goto
    <3>2. CASE fr[t].result = "not_ready" /\ fr[t].tmo = "else"
      <4>1. fr' = [fr EXCEPT ![t].result = "timeout"] /\ pc'[t] = "sel_leave"
        BY <1>0, <1>42, <3>2 DEF SelResult, Goto
      <4>2. fr[t] \in FrameType
        BY <1>0
      <4> QED
        BY <1>0, <3>2, <4>1, <4>2 DEF FrameType
    <3>3. CASE fr[t].result = "not_ready" /\ fr[t].tmo # "else"
      BY <1>0, <1>42, <3>3 DEF SelResult, Goto
    <3> QED
      BY <3>1, <3>2, <3>3
  <2>4. In(t, Told') = In(t, Told) /\ In(t, Told) \in {0, 1}
    BY <2>1, <2>3 DEF In, Told, ToldBy
  <2> QED
    BY <1>k, <2>1, <2>2, <2>4 DEF DrainStep, ReaderTok, ReaderSec
<1>43. CASE RecheckLock(t)
  <2>1. /\ CountsKept
        /\ \A s \in Thread : sel'[s].state \in {"scanning", "waiting"}
        /\ pc[t] \notin ToldAt /\ pc'[t] \notin ToldAt
        /\ pc'[t] \in ReaderTok => pc[t] \in ReaderTok
    BY <1>0, <1>v, <1>43 DEF RecheckLock, At, Goto, ChType, selVars, ToldAt, ReaderTok, ReaderSec
  <2> QED
    BY <2>1, DrainQuiet
<1>44. CASE RecheckPeer(t)
  <2>1. hist' = hist /\ ch' = ch /\ pc[t] = "sel_recheck_scan" /\ pc'[t] \in {"sel_recheck_scan", "sel_sleep"}
    BY <1>0, <1>44 DEF RecheckPeer, At, Goto
  <2>2. PICK s : sel' = [sel EXCEPT ![s].sem = @ + 1] \/ sel' = sel
    BY <1>44 DEF RecheckPeer
  <2>3. \A u \in Thread : sel'[u].state \in {"scanning", "waiting"}
    BY <1>0, <1>v, <2>2
  <2> QED
    BY <2>1, <2>3, DrainQuiet DEF ToldAt, ReaderTok, ReaderSec
<1>45. CASE RecheckEnds(t)
  <2>1. /\ CountsKept
        /\ \A s \in Thread : sel'[s].state \in {"scanning", "waiting"}
        /\ pc[t] \notin ToldAt /\ pc'[t] \notin ToldAt
        /\ pc'[t] \in ReaderTok => pc[t] \in ReaderTok
    BY <1>0, <1>v, <1>45 DEF RecheckEnds, At, Goto, ChType, selVars, ToldAt, ReaderTok, ReaderSec
  <2> QED
    BY <2>1, DrainQuiet
<1>46. CASE SelRescans(t)
  <2>1. /\ CountsKept
        /\ \A s \in Thread : sel'[s].state \in {"scanning", "waiting"}
        /\ pc[t] \notin ToldAt /\ pc'[t] \notin ToldAt
        /\ pc'[t] \in ReaderTok => pc[t] \in ReaderTok
    BY <1>0, <1>v, <1>46 DEF SelRescans, At, Goto, ChType, selVars, ToldAt, ReaderTok, ReaderSec, Dir
  <2> QED
    BY <2>1, DrainQuiet
<1>47. CASE SelWakes(t)
  <2>1. /\ CountsKept
        /\ \A s \in Thread : sel'[s].state \in {"scanning", "waiting"}
        /\ pc[t] \notin ToldAt /\ pc'[t] \notin ToldAt
        /\ pc'[t] \in ReaderTok => pc[t] \in ReaderTok
    BY <1>0, <1>v, <1>47 DEF SelWakes, At, Goto, ChType, selVars, ToldAt, ReaderTok, ReaderSec
  <2> QED
    BY <2>1, DrainQuiet
<1>48. CASE SelOutOfTime(t)
  <2>1. /\ hist' = hist /\ ch' = ch /\ pc[t] = "sel_sleep" /\ fr' = [fr EXCEPT ![t].result = "timeout"]
        /\ pc'[t] \in {"sel_leave", "push", "pop", "sel_claimed"}
    BY <1>0, <1>48 DEF SelOutOfTime, At, Goto, Dir
  <2>2. \A s \in Thread : sel'[s].state \in {"scanning", "waiting"}
    BY <1>0, <1>v, <1>48 DEF SelOutOfTime
  <2>3. pc'[t] = "sel_leave" => fr'[t].result = "timeout"
    <3>1. fr[t] \in FrameType
      BY <1>0
    <3> QED
      BY <1>0, <1>48, <2>1, <3>1 DEF SelOutOfTime, Goto, Dir, FrameType
  <2>4. In(t, Told) = 0 /\ In(t, Told') = 0
    BY <2>1, <2>3 DEF In, Told, ToldBy
  <2> QED
    BY <1>k, <2>1, <2>2, <2>4 DEF DrainStep, ReaderTok, ReaderSec
<1>49. CASE SelWoken(t)
  <2>1. /\ hist' = hist /\ ch' = ch /\ pc[t] = "sel_woken" /\ fr' = fr
        /\ pc'[t] \in {"sel_leave", "push", "pop", "sel_claimed"}
    BY <1>0, <1>49 DEF SelWoken, At, Goto, Dir
  <2>2. \A s \in Thread : sel'[s].state \in {"scanning", "waiting"}
    BY <1>0, <1>v, <1>49 DEF SelWoken
  <2>3. pc'[t] = "sel_leave" => fr'[t].result = "timeout"
    <3>1. fr[t] \in FrameType
      BY <1>0
    <3> QED
      BY <1>0, <1>49, <2>1, <3>1 DEF SelWoken, Goto, Dir, FrameType
  <2>4. In(t, Told) = 0 /\ In(t, Told') = 0
    BY <2>1, <2>3 DEF In, Told, ToldBy
  <2> QED
    BY <1>k, <2>1, <2>2, <2>4 DEF DrainStep, ReaderTok, ReaderSec
<1>50. CASE SelServed(t)
  BY <1>v, <1>50 DEF SelServed
<1>51. CASE SelLeaves(t)
  <2>1. Finish(t, fr[t].result) /\ pc[t] = "sel_leave" /\ ch' = ch
    BY <1>51 DEF SelLeaves, At
  <2>0. \A s \in Thread : sel'[s].state = sel[s].state
    <3> SUFFICES ASSUME NEW s \in Thread PROVE sel'[s].state = sel[s].state
      OBVIOUS
    <3>1. sel'[s] = [sel[s] EXCEPT !.sem = @ + 1] \/ sel'[s] = sel[s]
      BY <1>51 DEF SelLeaves
    <3> QED
      BY <1>0, <3>1
  <2>2. fr[t].op \in SelOps /\ fr[t].result \in Results
    BY <1>0, <1>q, <2>1 DEF FrameType
  <2>3. /\ hist'.early = hist.early /\ hist'.claims = hist.claims
        /\ hist'.sent = IF fr[t].op \in PushOps /\ fr[t].result = "success"
                        THEN hist.sent \cup {obj[t]} ELSE hist.sent
        /\ hist'.undrained = (\/ hist.undrained
                              \/ /\ fr[t].op \in PopOps /\ fr[t].result = "closed"
                                 /\ Cap > 0 /\ hist.claims < Cardinality(hist.early))
        /\ pc'[t] = "idle"
    BY <1>0, <2>1, <2>2, FinishFacts
  <2>4. t \notin Told' /\ (t \in Told <=> fr[t].op \in PushOps /\ fr[t].result = "success")
    BY <2>1, <2>2, <2>3 DEF Told, ToldBy, SelOps, PushOps
  <2>5. fr[t].op # "pop"
    BY <2>2 DEF SelOps
  <2> QED
    BY <1>k, <1>v, <2>0, <2>1, <2>3, <2>4, <2>5 DEF DrainStep, In, ReaderTok, ReaderSec
<1> QED
  BY <1>0, <1>1, <1>2, <1>3, <1>4, <1>5, <1>6, <1>7, <1>8, <1>9, <1>10, <1>11, <1>12, <1>13, <1>14, <1>15, <1>16, <1>17, <1>18, <1>19, <1>20, <1>21, <1>22, <1>23, <1>24, <1>25, <1>26, <1>27, <1>28, <1>29, <1>30, <1>31, <1>32, <1>33, <1>34, <1>35, <1>36, <1>37, <1>38, <1>39, <1>40, <1>41, <1>42, <1>43, <1>44, <1>45, <1>46, <1>47, <1>48, <1>49, <1>50, <1>51
     DEF UnbufferedOnly, Step, to_select, try_push_impl, push_unbuffered, push_buffered, try_pop_impl,
         pop_buffered, pop_waits, close, channel_select

(* What callers were told by a step on an unbuffered channel. *)
LEMMA ReturnKept ==
  ASSUME Types, NEW t \in Thread, NEW res \in Results, Return(t, res) \/ Finish(t, res), Cap = 0
  PROVE  /\ hist'.early = hist.early /\ (hist'.undrained => hist.undrained)
         /\ hist.sent \subseteq hist'.sent
<1>1. hist \in HistType
  BY DEF Types
<1>2. ASSUME Finish(t, res)
      PROVE  /\ hist'.early = hist.early /\ (hist'.undrained => hist.undrained)
             /\ hist.sent \subseteq hist'.sent
  <2>1. /\ hist'.early = hist.early
        /\ hist'.sent = IF fr[t].op \in PushOps /\ res = "success"
                        THEN hist.sent \cup {obj[t]} ELSE hist.sent
        /\ hist'.undrained = (\/ hist.undrained
                              \/ /\ fr[t].op \in PopOps /\ res = "closed"
                                 /\ Cap > 0 /\ hist.claims < Cardinality(hist.early))
    BY <1>2, FinishFacts
  <2>2. ~(Cap > 0)
    OBVIOUS
  <2> QED
    BY <2>1, <2>2, Zenon
<1>3. CASE Return(t, res) /\ fr[t].op \in SelOps
  BY <1>3 DEF Return
<1>4. CASE Return(t, res) /\ fr[t].op \notin SelOps
  BY <1>2, <1>4 DEF Return
<1> QED
  BY <1>2, <1>3, <1>4

LEMMA HistKept ==
  ASSUME TypeInv, NEW t \in Thread, Cap = 0, Begin(t) \/ Step(t), ~CloseClaims(t)
  PROVE  /\ hist'.early = hist.early /\ (hist'.undrained => hist.undrained)
         /\ hist.sent \subseteq hist'.sent /\ ch'.close_claimed = ch.close_claimed
<1>0. Types /\ ch \in ChType /\ ~BufferedOnly(t) /\ fr[t].result \in Results
  BY BufferedSteps DEF TypeInv, Types, FrameType
<1>1. CASE Begin(t)
  BY <1>1 DEF Begin
<1>2. CASE ToSelectLock(t)
  BY <1>0, <1>2 DEF ToSelectLock, ChType, selVars
<1>3. CASE ToSelectEnd(t)
  BY <1>0, <1>3, ReturnKept DEF ToSelectEnd, ChType, selVars, Results
<1>4. CASE ToSelectClaim(t)
  BY <1>0, <1>4 DEF ToSelectClaim, ChType, selVars
<1>5. CASE ToSelectCopy(t)
  BY <1>0, <1>5 DEF ToSelectCopy, ChType, selVars
<1>6. CASE ToSelectPost(t)
  BY <1>0, <1>6, ReturnKept DEF ToSelectPost, ChType, selVars, Results
<1>7. CASE PushStart(t)
  BY <1>0, <1>7, ReturnKept DEF PushStart, ChType, selVars, Results
<1>8. CASE PushTakes(t)
  BY <1>0, <1>8 DEF PushTakes, ChType, selVars
<1>9. CASE PushCopies(t)
  BY <1>0, <1>9 DEF PushCopies, ChType, selVars
<1>10. CASE PushPublishes(t)
  BY <1>0, <1>10 DEF PushPublishes, ChType, selVars
<1>11. CASE PushPosts(t)
  BY <1>0, <1>11, ReturnKept DEF PushPosts, ChType, selVars, Results
<1>12. CASE PushNoReader(t)
  BY <1>0, <1>12 DEF PushNoReader, ChType, selVars
<1>13. CASE PushToken(t)
  BY <1>0, <1>13 DEF PushToken, ChType, selVars
<1>14. CASE PushNoToken(t)
  BY <1>0, <1>14, ReturnKept DEF PushNoToken, ChType, selVars, Results
<1>15. CASE PushAfterToken(t)
  BY <1>0, <1>15, ReturnKept DEF PushAfterToken, ChType, selVars, Results
<1>16. CASE PushAdvertises(t)
  BY <1>0, <1>16 DEF PushAdvertises, ChType, selVars
<1>17. CASE PushChecks(t)
  BY <1>0, <1>17 DEF PushChecks, ChType, selVars
<1>18. CASE PushRetracts(t)
  BY <1>0, <1>18 DEF PushRetracts, ChType, selVars
<1>19. CASE PushNotifies(t)
  BY <1>0, <1>19 DEF PushNotifies, ChType, selVars
<1>20. CASE PushAwaits(t)
  BY <1>0, <1>20 DEF PushAwaits, ChType, selVars
<1>21. CASE PushImSem(t)
  BY <1>0, <1>21 DEF PushImSem, ChType, selVars
<1>22. CASE PushIsMine(t)
  BY <1>0, <1>22, ReturnKept DEF PushIsMine, ChType, selVars, Results, Collect
<1>23. CASE PopStart(t)
  BY <1>0, <1>23, ReturnKept DEF PopStart, ChType, selVars, Results
<1>24. CASE PopTakes(t)
  BY <1>0, <1>24 DEF PopTakes, ChType, selVars
<1>25. CASE PopCopies(t)
  BY <1>0, <1>25 DEF PopCopies, ChType, selVars
<1>26. CASE PopPublishes(t)
  BY <1>0, <1>26 DEF PopPublishes, ChType, selVars
<1>27. CASE PopPosts(t)
  BY <1>0, <1>27, ReturnKept DEF PopPosts, ChType, selVars, Results
<1>28. CASE PopNoWriter(t)
  BY <1>0, <1>28 DEF PopNoWriter, ChType, selVars
<1>29. CASE PopToken(t)
  BY <1>0, <1>29 DEF PopToken, ChType, selVars
<1>30. CASE PopNoToken(t)
  BY <1>0, <1>30 DEF PopNoToken, ChType, selVars
<1>31. CASE PopLooksClosed(t)
  BY <1>0, <1>31, ReturnKept DEF PopLooksClosed, ChType, selVars, Results
<1>32. CASE PopAdvertises(t)
  BY <1>0, <1>32 DEF PopAdvertises, ChType, selVars
<1>33. CASE PopChecks(t)
  BY <1>0, <1>33 DEF PopChecks, ChType, selVars
<1>34. CASE PopRetracts(t)
  BY <1>0, <1>34 DEF PopRetracts, ChType, selVars
<1>35. CASE PopNotifies(t)
  BY <1>0, <1>35 DEF PopNotifies, ChType, selVars
<1>36. CASE PopAwaits(t)
  BY <1>0, <1>36, ReturnKept DEF PopAwaits, ChType, selVars, Results
<1>37. CASE PopImSem(t)
  BY <1>0, <1>37 DEF PopImSem, ChType, selVars
<1>38. CASE PopIsMine(t)
  BY <1>0, <1>38, ReturnKept DEF PopIsMine, ChType, selVars, Results
<1>39. CASE CloseWaits(t)
  BY <1>0, <1>39, ReturnKept DEF CloseWaits, ChType, selVars, Results
<1>40. CASE CloseSets(t)
  BY <1>0, <1>40 DEF CloseSets, ChType, selVars
<1>41. CASE CloseMarks(t)
  BY <1>0, <1>41 DEF CloseMarks, ChType, selVars
<1>42. CASE ClosePostsReaders(t)
  BY <1>0, <1>42 DEF ClosePostsReaders, ChType, selVars
<1>43. CASE ClosePostsReadSub(t)
  BY <1>0, <1>43 DEF ClosePostsReadSub, ChType, selVars
<1>44. CASE ClosePostsWriteSub(t)
  BY <1>0, <1>44 DEF ClosePostsWriteSub, ChType, selVars
<1>45. CASE ClosePostsWriters(t)
  BY <1>0, <1>45 DEF ClosePostsWriters, ChType, selVars
<1>46. CASE CloseUnadvertises(t)
  BY <1>0, <1>46 DEF CloseUnadvertises, ChType, selVars
<1>47. CASE CloseEnds(t)
  BY <1>0, <1>47, ReturnKept DEF CloseEnds, ChType, selVars, Results
<1>48. CASE SelSubscribes(t)
  BY <1>0, <1>48 DEF SelSubscribes, ChType, selVars
<1>49. CASE SelResult(t)
  BY <1>0, <1>49 DEF SelResult, ChType, selVars
<1>50. CASE RecheckLock(t)
  BY <1>0, <1>50 DEF RecheckLock, ChType, selVars
<1>51. CASE RecheckPeer(t)
  BY <1>0, <1>51 DEF RecheckPeer, ChType, selVars
<1>52. CASE RecheckEnds(t)
  BY <1>0, <1>52 DEF RecheckEnds, ChType, selVars
<1>53. CASE SelRescans(t)
  BY <1>0, <1>53 DEF SelRescans, ChType, selVars
<1>54. CASE SelWakes(t)
  BY <1>0, <1>54 DEF SelWakes, ChType, selVars
<1>55. CASE SelOutOfTime(t)
  BY <1>0, <1>55 DEF SelOutOfTime, ChType, selVars
<1>56. CASE SelWoken(t)
  BY <1>0, <1>56 DEF SelWoken, ChType, selVars
<1>57. CASE SelServed(t)
  BY <1>0, <1>57 DEF SelServed, ChType, selVars
<1>58. CASE SelLeaves(t)
  BY <1>0, <1>58, ReturnKept DEF SelLeaves, ChType, selVars, Results
<1> QED
  BY <1>0, <1>1, <1>2, <1>3, <1>4, <1>5, <1>6, <1>7, <1>8, <1>9, <1>10, <1>11, <1>12, <1>13, <1>14, <1>15, <1>16, <1>17, <1>18, <1>19, <1>20, <1>21, <1>22, <1>23, <1>24, <1>25, <1>26, <1>27, <1>28, <1>29, <1>30, <1>31, <1>32, <1>33, <1>34, <1>35, <1>36, <1>37, <1>38, <1>39, <1>40, <1>41, <1>42, <1>43, <1>44, <1>45, <1>46, <1>47, <1>48, <1>49, <1>50, <1>51, <1>52, <1>53, <1>54, <1>55, <1>56, <1>57, <1>58
     DEF BufferedOnly, Step, to_select, try_push_impl, push_unbuffered, try_pop_impl, pop_waits, close,
         channel_select

LEMMA DrainInit ==
  ASSUME Init
  PROVE  DrainInv
<1>1. Told = {} /\ Cardinality(Told) = 0 /\ Cardinality({}) = 0
  BY FS_EmptySet DEF Init, Told, ToldBy
<1>2. SelIdle
  BY DEF Init, SelIdle
<1> QED
  BY <1>1, <1>2 DEF Init, DrainInv, ReaderTok, ReaderSec

LEMMA CloseClaimsDrain ==
  ASSUME TypeInv, TypeInv', CountInv, DrainInv, use' = use, NEW t \in Thread, CloseClaims(t)
  PROVE  DrainInv'
<1>0. /\ Cap' = Cap /\ OnlyWaits(use)' = OnlyWaits(use) /\ Cap \in Nat /\ hist \in HistType /\ ch \in ChType
      /\ pc \in [Thread -> Labels] /\ Moves(t)
  BY StepMoves, UseFacts DEF TypeInv, Types, Cap, OnlyWaits, Closers, Step, close
<1>1. /\ sel' = sel /\ fr' = fr /\ pc[t] = "close" /\ pc'[t] \in {"c_other", "c_set"}
      /\ ch'.read_avail = ch.read_avail
  BY <1>0 DEF CloseClaims, selVars, At, Goto, ChType
<1>2. Told' = Told
  BY <1>0, <1>1 DEF Told, ToldBy, Moves
<1>3. \A u \in Thread : pc'[u] \in ReaderTok => pc[u] \in ReaderTok
  BY <1>0, <1>1 DEF Moves, ReaderTok, ReaderSec
<1>4. CASE ch.close_claimed
  <2>1. ch' = ch /\ hist' = hist
    BY <1>4 DEF CloseClaims
  <2> QED
    BY <1>0, <1>1, <1>2, <1>3, <2>1 DEF DrainInv, SelIdle
<1>5. CASE ~ch.close_claimed
  <2>1. ch'.close_claimed /\ hist' = [hist EXCEPT !.early = hist.sent]
    BY <1>0, <1>5 DEF CloseClaims, ChType
  <2>2. /\ hist'.early = hist.sent /\ hist'.sent = hist.sent /\ hist'.claims = hist.claims
        /\ hist'.undrained = hist.undrained
    BY <1>0, <2>1 DEF HistType
  <2>3. Cap > 0 => \A u \in Thread : pc[u] \notin ReaderTok
    BY <1>5 DEF CountInv, LateInv, TypeInv, CloseInv
  <2> QED
    BY <1>0, <1>1, <1>2, <1>3, <2>1, <2>2, <2>3 DEF DrainInv, SelIdle
<1> QED
  BY <1>4, <1>5

LEMMA DrainSteps ==
  ASSUME TypeInv, TypeInv', CountInv, DrainInv, [Next]_vars
  PROVE  DrainInv'
<1>1. CASE UNCHANGED vars
  BY <1>1 DEF vars, DrainInv, SelIdle, Told, ToldBy, OnlyWaits, Closers, Cap
<1>2. ASSUME use' = use, NEW t \in Thread, Begin(t) \/ Step(t)
      PROVE  DrainInv'
  <2>0. Cap \in Nat /\ Cap' = Cap /\ OnlyWaits(use)' = OnlyWaits(use) /\ Moves(t)
    BY <1>2, StepMoves, UseFacts DEF TypeInv, Types, Cap, OnlyWaits, Closers
  <2>1. CASE CloseClaims(t)
    BY <1>2, <2>1, CloseClaimsDrain
  <2>2. CASE ~CloseClaims(t) /\ Cap = 0
    <3>1. /\ hist'.early = hist.early /\ (hist'.undrained => hist.undrained)
          /\ hist.sent \subseteq hist'.sent /\ ch'.close_claimed = ch.close_claimed
      BY <1>2, <2>2, HistKept
    <3> QED
      BY <2>0, <2>2, <3>1 DEF DrainInv, SelIdle
  <2>3. CASE ~CloseClaims(t) /\ Cap > 0
    BY <1>2, <2>0, <2>3, DrainBuffered, DrainMove
  <2> QED
    BY <2>0, <2>1, <2>2, <2>3
<1> QED
  BY <1>1, <1>2 DEF Next


-----------------------------------------------------------------------------
(* The hand-over *)

(* Two threads are not counted as one. *)
LEMMA OneOnly ==
  ASSUME TypeInv, NEW L, Num(L) <= 1, NEW t \in Thread, NEW u \in Thread, pc[t] \in L, pc[u] \in L
  PROVE  t = u /\ Num(L) = 1
<1> DEFINE S == {x \in Thread : pc[x] \in L}
<1>1. IsFiniteSet(S) /\ Cardinality(S) \in Nat /\ t \in S /\ u \in S
  BY SyncChanAssumption, FS_Subset, FS_CardinalityType
<1>2. Cardinality(S) = Num(L)
  BY DEF Num, Count
<1> HIDE DEF S
<1>3. Cardinality(S) # 0
  BY <1>1, FS_EmptySet
<1>4. Cardinality(S) = 1
  BY <1>1, <1>2, <1>3
<1>5. \A x, y \in S : x = y
  <2>1. IsFiniteSet(S \ {t}) /\ Cardinality(S \ {t}) = 0
    BY <1>1, <1>4, FS_RemoveElement
  <2>2. S \ {t} = {}
    BY <2>1, FS_EmptySet
  <2> QED
    BY <2>2
<1> QED
  BY <1>1, <1>2, <1>4, <1>5

(* A step that has nothing to do with the readers' hand-over. *)
ReaderQuiet(t) ==
  /\ ch'.readsem = ch.readsem /\ ch'.readsem_im = ch.readsem_im
  /\ ch'.write_adr = ch.write_adr /\ ch'.adr_written = ch.adr_written
  /\ pc'[t] \in ReaderTok <=> pc[t] \in ReaderTok
  /\ pc'[t] \in ReaderSec <=> pc[t] \in ReaderSec
  /\ pc'[t] = "r_mine" <=> pc[t] = "r_mine"
  /\ pc'[t] \in {"p_copy", "p_publish"} <=> pc[t] \in {"p_copy", "p_publish"}
  /\ pc'[t] = "p_post" <=> pc[t] = "p_post"
  /\ pc[t] \in ReaderSec => fr'[t].have_swapped = fr[t].have_swapped
  /\ pc[t] \in {"p_copy", "p_publish", "p_post"} => fr'[t].adr = fr[t].adr

LEMMA ReaderKept ==
  ASSUME TypeInv, TypeInv', ReaderHand, NEW t \in Thread, Moves(t), ReaderQuiet(t), Cap = 0
  PROVE  ReaderHand'
<1>0. /\ \A u \in Thread : u # t => pc'[u] = pc[u] /\ fr'[u] = fr[u]
      /\ ch.write_adr \in Thread \cup {NULL} /\ ch.adr_written \in Thread \cup {NULL, ClosedMark}
  BY ChFacts DEF Moves, TypeInv, Types
<1>1. \A q \in Thread : pc[q] \in {"p_copy", "p_publish", "p_post"} => fr[q].adr \in Thread
  BY DEF TypeInv, PlaceInv, PlaceAt
<1>2. /\ \A u \in Thread : pc'[u] \in ReaderSec <=> pc[u] \in ReaderSec
      /\ \A u \in Thread : pc'[u] = "r_mine" <=> pc[u] = "r_mine"
      /\ \A u \in Thread : pc'[u] \in {"p_copy", "p_publish"} <=> pc[u] \in {"p_copy", "p_publish"}
      /\ \A u \in Thread : pc'[u] = "p_post" <=> pc[u] = "p_post"
      /\ \A u \in Thread : pc[u] \in ReaderSec => fr'[u].have_swapped = fr[u].have_swapped
      /\ \A u \in Thread : pc[u] \in {"p_copy", "p_publish", "p_post"} => fr'[u].adr = fr[u].adr
  BY <1>0 DEF ReaderQuiet
<1>3. Num(ReaderTok)' = Num(ReaderTok)
  <2>1. {u \in Thread : pc'[u] \in ReaderTok} = {u \in Thread : pc[u] \in ReaderTok}
    BY <1>0 DEF ReaderQuiet
  <2> QED
    BY <2>1 DEF Num, Count
<1>4. /\ ch'.readsem = ch.readsem /\ ch'.readsem_im = ch.readsem_im
      /\ ch'.write_adr = ch.write_adr /\ ch'.adr_written = ch.adr_written
  BY DEF ReaderQuiet
<1>5. /\ ch'.readsem + Num(ReaderTok)' = 1
      /\ ch'.readsem_im \in {0, 1}
  BY <1>3, <1>4 DEF ReaderHand
<1>6. ch'.write_adr # NULL =>
       /\ pc'[ch'.write_adr] \in ReaderSec \ {"r_mine"}
       /\ ~fr'[ch'.write_adr].have_swapped
       /\ ch'.adr_written = NULL /\ ch'.readsem_im = 0
       /\ \A q \in Thread : pc'[q] \notin {"p_copy", "p_publish", "p_post"}
  BY <1>0, <1>2, <1>4 DEF ReaderHand
<1>7. ASSUME NEW q \in Thread, pc'[q] \in {"p_copy", "p_publish", "p_post"}
      PROVE  /\ pc'[fr'[q].adr] \in ReaderSec \ {"r_mine"}
             /\ ch'.readsem_im = 0
             /\ \A p \in Thread : pc'[p] \in {"p_copy", "p_publish", "p_post"} => p = q
             /\ pc'[q] # "p_post" => ch'.adr_written = NULL /\ ~fr'[fr'[q].adr].have_swapped
             /\ pc'[q] = "p_post" => ch'.adr_written # NULL \/ fr'[fr'[q].adr].have_swapped
  <2>1. pc[q] \in {"p_copy", "p_publish", "p_post"} /\ fr[q].adr \in Thread /\ fr'[q].adr = fr[q].adr
    BY <1>1, <1>2, <1>7
  <2>2. /\ pc[fr[q].adr] \in ReaderSec \ {"r_mine"}
        /\ ch.readsem_im = 0
        /\ \A p \in Thread : pc[p] \in {"p_copy", "p_publish", "p_post"} => p = q
        /\ pc[q] # "p_post" => ch.adr_written = NULL /\ ~fr[fr[q].adr].have_swapped
        /\ pc[q] = "p_post" => ch.adr_written # NULL \/ fr[fr[q].adr].have_swapped
    BY <2>1 DEF ReaderHand
  <2> QED
    BY <1>2, <1>4, <1>7, <2>1, <2>2
<1>8. ch'.adr_written # NULL =>
       ch'.adr_written # ClosedMark /\ pc'[ch'.adr_written] \in ReaderSec /\ ~fr'[ch'.adr_written].have_swapped
  BY <1>0, <1>2, <1>4 DEF ReaderHand
<1>9. ch'.readsem_im = 1 => \E a \in Thread :
       pc'[a] \in ReaderSec \ {"r_mine"} /\ (ch'.adr_written = a \/ fr'[a].have_swapped)
  BY <1>2, <1>4 DEF ReaderHand
<1>10. \A a \in Thread : pc'[a] = "r_mine" =>
       ch'.readsem_im = 0 /\ (ch'.adr_written = a \/ fr'[a].have_swapped)
  <2>1. \A a \in Thread : pc[a] = "r_mine" => pc[a] \in ReaderSec
    BY DEF ReaderSec
  <2> QED
    BY <1>2, <1>4, <2>1 DEF ReaderHand
<1> QED
  BY <1>5, <1>6, <1>7, <1>8, <1>9, <1>10 DEF ReaderHand


(* A step that has nothing to do with the writers' hand-over. *)
WriterQuiet(t) ==
  /\ ch'.writesem = ch.writesem /\ ch'.writesem_im = ch.writesem_im
  /\ ch'.read_adr = ch.read_adr /\ ch'.adr_read = ch.adr_read
  /\ pc'[t] \in WriterTok <=> pc[t] \in WriterTok
  /\ pc'[t] \in WriterSec <=> pc[t] \in WriterSec
  /\ pc'[t] = "p_mine" <=> pc[t] = "p_mine"
  /\ pc'[t] \in {"r_copy", "r_publish"} <=> pc[t] \in {"r_copy", "r_publish"}
  /\ pc'[t] = "r_post" <=> pc[t] = "r_post"
  /\ pc[t] \in WriterSec => fr'[t].have_swapped = fr[t].have_swapped
  /\ pc[t] \in {"r_copy", "r_publish", "r_post"} => fr'[t].adr = fr[t].adr

LEMMA WriterKept ==
  ASSUME TypeInv, TypeInv', WriterHand, NEW t \in Thread, Moves(t), WriterQuiet(t), Cap = 0
  PROVE  WriterHand'
<1>0. /\ \A u \in Thread : u # t => pc'[u] = pc[u] /\ fr'[u] = fr[u]
      /\ ch.read_adr \in Thread \cup {NULL} /\ ch.adr_read \in Thread \cup {NULL}
  BY ChFacts DEF Moves, TypeInv, Types
<1>1. \A q \in Thread : pc[q] \in {"r_copy", "r_publish", "r_post"} => fr[q].adr \in Thread
  BY DEF TypeInv, PlaceInv, PlaceAt
<1>2. /\ \A u \in Thread : pc'[u] \in WriterSec <=> pc[u] \in WriterSec
      /\ \A u \in Thread : pc'[u] = "p_mine" <=> pc[u] = "p_mine"
      /\ \A u \in Thread : pc'[u] \in {"r_copy", "r_publish"} <=> pc[u] \in {"r_copy", "r_publish"}
      /\ \A u \in Thread : pc'[u] = "r_post" <=> pc[u] = "r_post"
      /\ \A u \in Thread : pc[u] \in WriterSec => fr'[u].have_swapped = fr[u].have_swapped
      /\ \A u \in Thread : pc[u] \in {"r_copy", "r_publish", "r_post"} => fr'[u].adr = fr[u].adr
  BY <1>0 DEF WriterQuiet
<1>3. Num(WriterTok)' = Num(WriterTok)
  <2>1. {u \in Thread : pc'[u] \in WriterTok} = {u \in Thread : pc[u] \in WriterTok}
    BY <1>0 DEF WriterQuiet
  <2> QED
    BY <2>1 DEF Num, Count
<1>4. /\ ch'.writesem = ch.writesem /\ ch'.writesem_im = ch.writesem_im
      /\ ch'.read_adr = ch.read_adr /\ ch'.adr_read = ch.adr_read
  BY DEF WriterQuiet
<1>5. /\ ch'.writesem + Num(WriterTok)' = 1
      /\ ch'.writesem_im \in {0, 1}
  BY <1>3, <1>4 DEF WriterHand
<1>6. ch'.read_adr # NULL =>
       /\ pc'[ch'.read_adr] \in WriterSec \ {"p_mine"}
       /\ ~fr'[ch'.read_adr].have_swapped
       /\ ch'.adr_read = NULL /\ ch'.writesem_im = 0
       /\ \A q \in Thread : pc'[q] \notin {"r_copy", "r_publish", "r_post"}
  BY <1>0, <1>2, <1>4 DEF WriterHand
<1>7. ASSUME NEW q \in Thread, pc'[q] \in {"r_copy", "r_publish", "r_post"}
      PROVE  /\ pc'[fr'[q].adr] \in WriterSec \ {"p_mine"}
             /\ ch'.writesem_im = 0
             /\ \A p \in Thread : pc'[p] \in {"r_copy", "r_publish", "r_post"} => p = q
             /\ pc'[q] # "r_post" => ch'.adr_read = NULL /\ ~fr'[fr'[q].adr].have_swapped
             /\ pc'[q] = "r_post" => ch'.adr_read # NULL \/ fr'[fr'[q].adr].have_swapped
  <2>1. pc[q] \in {"r_copy", "r_publish", "r_post"} /\ fr[q].adr \in Thread /\ fr'[q].adr = fr[q].adr
    BY <1>1, <1>2, <1>7
  <2>2. /\ pc[fr[q].adr] \in WriterSec \ {"p_mine"}
        /\ ch.writesem_im = 0
        /\ \A p \in Thread : pc[p] \in {"r_copy", "r_publish", "r_post"} => p = q
        /\ pc[q] # "r_post" => ch.adr_read = NULL /\ ~fr[fr[q].adr].have_swapped
        /\ pc[q] = "r_post" => ch.adr_read # NULL \/ fr[fr[q].adr].have_swapped
    BY <2>1 DEF WriterHand
  <2> QED
    BY <1>2, <1>4, <1>7, <2>1, <2>2
<1>8. ch'.adr_read # NULL =>
       pc'[ch'.adr_read] \in WriterSec /\ ~fr'[ch'.adr_read].have_swapped
  BY <1>0, <1>2, <1>4 DEF WriterHand
<1>9. ch'.writesem_im = 1 => \E a \in Thread :
       pc'[a] \in WriterSec \ {"p_mine"} /\ (ch'.adr_read = a \/ fr'[a].have_swapped)
  BY <1>2, <1>4 DEF WriterHand
<1>10. \A a \in Thread : pc'[a] = "p_mine" =>
       ch'.writesem_im = 0 /\ (ch'.adr_read = a \/ fr'[a].have_swapped)
  <2>1. \A a \in Thread : pc[a] = "p_mine" => pc[a] \in WriterSec
    BY DEF WriterSec
  <2> QED
    BY <1>2, <1>4, <2>1 DEF WriterHand
<1> QED
  BY <1>5, <1>6, <1>7, <1>8, <1>9, <1>10 DEF WriterHand


LEMMA ReaderQuietSteps ==
  ASSUME TypeInv, NEW t \in Thread, Begin(t) \/ Step(t), Cap = 0, ~ch.closed, ~ch'.closed,
         ~PopAdvertises(t), ~PopAwaits(t), ~PopImSem(t), ~PopIsMine(t), ~PopRetracts(t),
         ~PopToken(t), ~PushPosts(t), ~PushPublishes(t), ~PushTakes(t)
  PROVE  ReaderQuiet(t)
<1>0. /\ ch \in ChType /\ pc \in [Thread -> Labels] /\ fr \in [Thread -> FrameType]
      /\ ~BufferedOnly(t) /\ pc[t] \notin Closing
  BY BufferedSteps DEF TypeInv, Types, CloseInv
<1>f. fr[t] \in FrameType
  BY <1>0
<1> USE DEF ReaderQuiet, ReaderTok, ReaderSec
<1>1. CASE Begin(t)
  <2>1. pc[t] = "idle" /\ pc'[t] \in {"push", "pop", "close", "sel"} /\ ch' = ch
    BY <1>1, BeginFacts
  <2> QED
    BY <2>1
<1>2. CASE ToSelectLock(t)
  BY <1>0, <1>f, <1>2 DEF ToSelectLock, At, Goto, ChType, FrameType, selVars
<1>3. CASE ToSelectEnd(t)
  BY <1>0, <1>f, <1>3, BackFacts DEF ToSelectEnd, At, Goto, ChType, FrameType
<1>4. CASE ToSelectClaim(t)
  BY <1>0, <1>f, <1>4 DEF ToSelectClaim, At, Goto, ChType, FrameType, selVars
<1>5. CASE ToSelectCopy(t)
  BY <1>0, <1>f, <1>5 DEF ToSelectCopy, At, Goto, ChType, FrameType, selVars
<1>6. CASE ToSelectPost(t)
  BY <1>0, <1>f, <1>6, BackFacts DEF ToSelectPost, At, Goto, ChType, FrameType
<1>7. CASE PushStart(t)
  BY <1>0, <1>f, <1>7, BackFacts DEF PushStart, At, Goto, ChType, FrameType
<1>8. CASE PushCopies(t)
  BY <1>0, <1>f, <1>8 DEF PushCopies, At, Goto, ChType, FrameType, selVars
<1>9. CASE PushNoReader(t)
  BY <1>0, <1>f, <1>9 DEF PushNoReader, At, Goto, ChType, FrameType, selVars
<1>10. CASE PushToken(t)
  BY <1>0, <1>f, <1>10 DEF PushToken, At, Goto, ChType, FrameType, selVars
<1>11. CASE PushNoToken(t)
  BY <1>0, <1>f, <1>11, BackFacts DEF PushNoToken, At, Goto, ChType, FrameType
<1>12. CASE PushAfterToken(t)
  BY <1>0, <1>f, <1>12, BackFacts DEF PushAfterToken, At, Goto, ChType, FrameType
<1>13. CASE PushAdvertises(t)
  BY <1>0, <1>f, <1>13 DEF PushAdvertises, At, Goto, ChType, FrameType, selVars
<1>14. CASE PushChecks(t)
  BY <1>0, <1>f, <1>14 DEF PushChecks, At, Goto, ChType, FrameType, selVars
<1>15. CASE PushRetracts(t)
  <2>1. /\ ch'.readsem = ch.readsem /\ ch'.readsem_im = ch.readsem_im
        /\ ch'.write_adr = ch.write_adr /\ ch'.adr_written = ch.adr_written
    BY <1>0, <1>15 DEF PushRetracts, ChType
  <2>2. pc[t] = "p_retract" /\ pc'[t] \in {"p_adr", "p_await"}
    BY <1>0, <1>15 DEF PushRetracts, At, Goto
  <2> QED
    BY <2>1, <2>2
<1>16. CASE PushNotifies(t)
  BY <1>0, <1>f, <1>16 DEF PushNotifies, At, Goto, ChType, FrameType, selVars
<1>17. CASE PushAwaits(t)
  BY <1>0, <1>f, <1>17 DEF PushAwaits, At, Goto, ChType, FrameType, selVars
<1>18. CASE PushImSem(t)
  BY <1>0, <1>f, <1>18 DEF PushImSem, At, Goto, ChType, FrameType, selVars
<1>19. CASE PushIsMine(t)
  BY <1>0, <1>f, <1>19, BackFacts DEF PushIsMine, At, Goto, ChType, FrameType, Collect
<1>20. CASE PopStart(t)
  BY <1>0, <1>f, <1>20, BackFacts DEF PopStart, At, Goto, ChType, FrameType
<1>21. CASE PopTakes(t)
  BY <1>0, <1>f, <1>21 DEF PopTakes, At, Goto, ChType, FrameType, selVars
<1>22. CASE PopCopies(t)
  BY <1>0, <1>f, <1>22 DEF PopCopies, At, Goto, ChType, FrameType, selVars
<1>23. CASE PopPublishes(t)
  BY <1>0, <1>f, <1>23 DEF PopPublishes, At, Goto, ChType, FrameType, selVars
<1>24. CASE PopPosts(t)
  BY <1>0, <1>f, <1>24, BackFacts DEF PopPosts, At, Goto, ChType, FrameType
<1>25. CASE PopNoWriter(t)
  BY <1>0, <1>f, <1>25 DEF PopNoWriter, At, Goto, ChType, FrameType, selVars
<1>26. CASE PopNoToken(t)
  BY <1>0, <1>f, <1>26 DEF PopNoToken, At, Goto, ChType, FrameType, selVars
<1>27. CASE PopLooksClosed(t)
  BY <1>0, <1>f, <1>27, BackFacts DEF PopLooksClosed, At, Goto, ChType, FrameType
<1>28. CASE PopChecks(t)
  BY <1>0, <1>f, <1>28 DEF PopChecks, At, Goto, ChType, FrameType, selVars
<1>29. CASE PopNotifies(t)
  BY <1>0, <1>f, <1>29 DEF PopNotifies, At, Goto, ChType, FrameType, selVars
<1>30. CASE CloseClaims(t)
  BY <1>0, <1>f, <1>30 DEF CloseClaims, At, Goto, ChType, FrameType, selVars
<1>31. CASE CloseWaits(t)
  BY <1>0, <1>f, <1>31, EndFacts DEF CloseWaits, At, Goto, ChType, FrameType
<1>32. CASE CloseSets(t)
  BY <1>0, <1>32 DEF CloseSets, ChType
<1>33. CASE CloseMarks(t)
  BY <1>0, <1>33 DEF CloseMarks, At, Closing
<1>34. CASE ClosePostsReaders(t)
  BY <1>0, <1>34 DEF ClosePostsReaders, At, Closing
<1>35. CASE ClosePostsReadSub(t)
  BY <1>0, <1>35 DEF ClosePostsReadSub, At, Closing
<1>36. CASE ClosePostsWriteSub(t)
  BY <1>0, <1>36 DEF ClosePostsWriteSub, At, Closing
<1>37. CASE ClosePostsWriters(t)
  BY <1>0, <1>37 DEF ClosePostsWriters, At, Closing
<1>38. CASE CloseUnadvertises(t)
  BY <1>0, <1>38 DEF CloseUnadvertises, At, Closing
<1>39. CASE CloseEnds(t)
  BY <1>0, <1>39 DEF CloseEnds, At, Closing
<1>40. CASE SelSubscribes(t)
  BY <1>0, <1>f, <1>40 DEF SelSubscribes, At, Goto, ChType, FrameType, selVars, Dir
<1>41. CASE SelResult(t)
  BY <1>0, <1>f, <1>41 DEF SelResult, At, Goto, ChType, FrameType, selVars
<1>42. CASE RecheckLock(t)
  BY <1>0, <1>f, <1>42 DEF RecheckLock, At, Goto, ChType, FrameType, selVars
<1>43. CASE RecheckPeer(t)
  BY <1>0, <1>f, <1>43 DEF RecheckPeer, At, Goto, ChType, FrameType, selVars
<1>44. CASE RecheckEnds(t)
  BY <1>0, <1>f, <1>44 DEF RecheckEnds, At, Goto, ChType, FrameType, selVars
<1>45. CASE SelRescans(t)
  BY <1>0, <1>f, <1>45 DEF SelRescans, At, Goto, ChType, FrameType, selVars, Dir
<1>46. CASE SelWakes(t)
  BY <1>0, <1>f, <1>46 DEF SelWakes, At, Goto, ChType, FrameType, selVars
<1>47. CASE SelOutOfTime(t)
  BY <1>0, <1>f, <1>47 DEF SelOutOfTime, At, Goto, ChType, FrameType, selVars
<1>48. CASE SelWoken(t)
  BY <1>0, <1>f, <1>48 DEF SelWoken, At, Goto, ChType, FrameType, selVars, Dir
<1>49. CASE SelServed(t)
  BY <1>0, <1>f, <1>49 DEF SelServed, At, Goto, ChType, FrameType, selVars
<1>50. CASE SelLeaves(t)
  BY <1>0, <1>f, <1>50, EndFacts DEF SelLeaves, At, Goto, ChType, FrameType
<1> QED
  BY <1>0, <1>1, <1>2, <1>3, <1>4, <1>5, <1>6, <1>7, <1>8, <1>9, <1>10, <1>11, <1>12, <1>13, <1>14, <1>15, <1>16, <1>17, <1>18, <1>19, <1>20, <1>21, <1>22, <1>23, <1>24, <1>25, <1>26, <1>27, <1>28, <1>29, <1>30, <1>31, <1>32, <1>33, <1>34, <1>35, <1>36, <1>37, <1>38, <1>39, <1>40, <1>41, <1>42, <1>43, <1>44, <1>45, <1>46, <1>47, <1>48, <1>49, <1>50
     DEF BufferedOnly, Step, to_select, try_push_impl, push_unbuffered, try_pop_impl, pop_waits, close,
         channel_select

LEMMA WriterQuietSteps ==
  ASSUME TypeInv, NEW t \in Thread, Begin(t) \/ Step(t), Cap = 0, ~ch.closed, ~ch'.closed,
         ~PopPosts(t), ~PopPublishes(t), ~PopTakes(t), ~PushAdvertises(t), ~PushAwaits(t),
         ~PushImSem(t), ~PushIsMine(t), ~PushRetracts(t), ~PushToken(t)
  PROVE  WriterQuiet(t)
<1>0. /\ ch \in ChType /\ pc \in [Thread -> Labels] /\ fr \in [Thread -> FrameType]
      /\ ~BufferedOnly(t) /\ pc[t] \notin Closing
  BY BufferedSteps DEF TypeInv, Types, CloseInv
<1>f. fr[t] \in FrameType
  BY <1>0
<1> USE DEF WriterQuiet, WriterTok, WriterSec
<1>1. CASE Begin(t)
  <2>1. pc[t] = "idle" /\ pc'[t] \in {"push", "pop", "close", "sel"} /\ ch' = ch
    BY <1>1, BeginFacts
  <2> QED
    BY <2>1
<1>2. CASE ToSelectLock(t)
  BY <1>0, <1>f, <1>2 DEF ToSelectLock, At, Goto, ChType, FrameType, selVars
<1>3. CASE ToSelectEnd(t)
  BY <1>0, <1>f, <1>3, BackFacts DEF ToSelectEnd, At, Goto, ChType, FrameType
<1>4. CASE ToSelectClaim(t)
  BY <1>0, <1>f, <1>4 DEF ToSelectClaim, At, Goto, ChType, FrameType, selVars
<1>5. CASE ToSelectCopy(t)
  BY <1>0, <1>f, <1>5 DEF ToSelectCopy, At, Goto, ChType, FrameType, selVars
<1>6. CASE ToSelectPost(t)
  BY <1>0, <1>f, <1>6, BackFacts DEF ToSelectPost, At, Goto, ChType, FrameType
<1>7. CASE PushStart(t)
  BY <1>0, <1>f, <1>7, BackFacts DEF PushStart, At, Goto, ChType, FrameType
<1>8. CASE PushTakes(t)
  BY <1>0, <1>f, <1>8 DEF PushTakes, At, Goto, ChType, FrameType, selVars
<1>9. CASE PushCopies(t)
  BY <1>0, <1>f, <1>9 DEF PushCopies, At, Goto, ChType, FrameType, selVars
<1>10. CASE PushPublishes(t)
  BY <1>0, <1>f, <1>10 DEF PushPublishes, At, Goto, ChType, FrameType, selVars
<1>11. CASE PushPosts(t)
  BY <1>0, <1>f, <1>11, BackFacts DEF PushPosts, At, Goto, ChType, FrameType
<1>12. CASE PushNoReader(t)
  BY <1>0, <1>f, <1>12 DEF PushNoReader, At, Goto, ChType, FrameType, selVars
<1>13. CASE PushNoToken(t)
  BY <1>0, <1>f, <1>13, BackFacts DEF PushNoToken, At, Goto, ChType, FrameType
<1>14. CASE PushAfterToken(t)
  BY <1>0, <1>f, <1>14, BackFacts DEF PushAfterToken, At, Goto, ChType, FrameType
<1>15. CASE PushChecks(t)
  BY <1>0, <1>f, <1>15 DEF PushChecks, At, Goto, ChType, FrameType, selVars
<1>16. CASE PushNotifies(t)
  BY <1>0, <1>f, <1>16 DEF PushNotifies, At, Goto, ChType, FrameType, selVars
<1>17. CASE PopStart(t)
  BY <1>0, <1>f, <1>17, BackFacts DEF PopStart, At, Goto, ChType, FrameType
<1>18. CASE PopCopies(t)
  BY <1>0, <1>f, <1>18 DEF PopCopies, At, Goto, ChType, FrameType, selVars
<1>19. CASE PopNoWriter(t)
  BY <1>0, <1>f, <1>19 DEF PopNoWriter, At, Goto, ChType, FrameType, selVars
<1>20. CASE PopToken(t)
  BY <1>0, <1>f, <1>20 DEF PopToken, At, Goto, ChType, FrameType, selVars
<1>21. CASE PopNoToken(t)
  BY <1>0, <1>f, <1>21 DEF PopNoToken, At, Goto, ChType, FrameType, selVars
<1>22. CASE PopLooksClosed(t)
  BY <1>0, <1>f, <1>22, BackFacts DEF PopLooksClosed, At, Goto, ChType, FrameType
<1>23. CASE PopAdvertises(t)
  BY <1>0, <1>f, <1>23 DEF PopAdvertises, At, Goto, ChType, FrameType, selVars
<1>24. CASE PopChecks(t)
  BY <1>0, <1>f, <1>24 DEF PopChecks, At, Goto, ChType, FrameType, selVars
<1>25. CASE PopRetracts(t)
  <2>1. /\ ch'.writesem = ch.writesem /\ ch'.writesem_im = ch.writesem_im
        /\ ch'.read_adr = ch.read_adr /\ ch'.adr_read = ch.adr_read
    BY <1>0, <1>25 DEF PopRetracts, ChType
  <2>2. pc[t] = "r_retract" /\ pc'[t] \in {"pop", "r_adr", "r_sem", "r_await"}
    BY <1>0, <1>25 DEF PopRetracts, At, Goto
  <2> QED
    BY <2>1, <2>2
<1>26. CASE PopNotifies(t)
  BY <1>0, <1>f, <1>26 DEF PopNotifies, At, Goto, ChType, FrameType, selVars
<1>27. CASE PopAwaits(t)
  BY <1>0, <1>f, <1>27, BackFacts DEF PopAwaits, At, Goto, ChType, FrameType
<1>28. CASE PopImSem(t)
  BY <1>0, <1>f, <1>28 DEF PopImSem, At, Goto, ChType, FrameType, selVars
<1>29. CASE PopIsMine(t)
  <2>1. /\ ch'.writesem = ch.writesem /\ ch'.writesem_im = ch.writesem_im
        /\ ch'.read_adr = ch.read_adr /\ ch'.adr_read = ch.adr_read
    BY <1>0, <1>29 DEF PopIsMine, ChType
  <2>2. pc[t] = "r_mine" /\ pc'[t] \in {"sel_result", "idle", "r_im"}
    BY <1>0, <1>29, BackFacts DEF PopIsMine, At, Goto
  <2> QED
    BY <2>1, <2>2
<1>30. CASE CloseClaims(t)
  BY <1>0, <1>f, <1>30 DEF CloseClaims, At, Goto, ChType, FrameType, selVars
<1>31. CASE CloseWaits(t)
  BY <1>0, <1>f, <1>31, EndFacts DEF CloseWaits, At, Goto, ChType, FrameType
<1>32. CASE CloseSets(t)
  BY <1>0, <1>32 DEF CloseSets, ChType
<1>33. CASE CloseMarks(t)
  BY <1>0, <1>33 DEF CloseMarks, At, Closing
<1>34. CASE ClosePostsReaders(t)
  BY <1>0, <1>34 DEF ClosePostsReaders, At, Closing
<1>35. CASE ClosePostsReadSub(t)
  BY <1>0, <1>35 DEF ClosePostsReadSub, At, Closing
<1>36. CASE ClosePostsWriteSub(t)
  BY <1>0, <1>36 DEF ClosePostsWriteSub, At, Closing
<1>37. CASE ClosePostsWriters(t)
  BY <1>0, <1>37 DEF ClosePostsWriters, At, Closing
<1>38. CASE CloseUnadvertises(t)
  BY <1>0, <1>38 DEF CloseUnadvertises, At, Closing
<1>39. CASE CloseEnds(t)
  BY <1>0, <1>39 DEF CloseEnds, At, Closing
<1>40. CASE SelSubscribes(t)
  BY <1>0, <1>f, <1>40 DEF SelSubscribes, At, Goto, ChType, FrameType, selVars, Dir
<1>41. CASE SelResult(t)
  BY <1>0, <1>f, <1>41 DEF SelResult, At, Goto, ChType, FrameType, selVars
<1>42. CASE RecheckLock(t)
  BY <1>0, <1>f, <1>42 DEF RecheckLock, At, Goto, ChType, FrameType, selVars
<1>43. CASE RecheckPeer(t)
  BY <1>0, <1>f, <1>43 DEF RecheckPeer, At, Goto, ChType, FrameType, selVars
<1>44. CASE RecheckEnds(t)
  BY <1>0, <1>f, <1>44 DEF RecheckEnds, At, Goto, ChType, FrameType, selVars
<1>45. CASE SelRescans(t)
  BY <1>0, <1>f, <1>45 DEF SelRescans, At, Goto, ChType, FrameType, selVars, Dir
<1>46. CASE SelWakes(t)
  BY <1>0, <1>f, <1>46 DEF SelWakes, At, Goto, ChType, FrameType, selVars
<1>47. CASE SelOutOfTime(t)
  BY <1>0, <1>f, <1>47 DEF SelOutOfTime, At, Goto, ChType, FrameType, selVars
<1>48. CASE SelWoken(t)
  BY <1>0, <1>f, <1>48 DEF SelWoken, At, Goto, ChType, FrameType, selVars, Dir
<1>49. CASE SelServed(t)
  BY <1>0, <1>f, <1>49 DEF SelServed, At, Goto, ChType, FrameType, selVars
<1>50. CASE SelLeaves(t)
  BY <1>0, <1>f, <1>50, EndFacts DEF SelLeaves, At, Goto, ChType, FrameType
<1> QED
  BY <1>0, <1>1, <1>2, <1>3, <1>4, <1>5, <1>6, <1>7, <1>8, <1>9, <1>10, <1>11, <1>12, <1>13, <1>14, <1>15, <1>16, <1>17, <1>18, <1>19, <1>20, <1>21, <1>22, <1>23, <1>24, <1>25, <1>26, <1>27, <1>28, <1>29, <1>30, <1>31, <1>32, <1>33, <1>34, <1>35, <1>36, <1>37, <1>38, <1>39, <1>40, <1>41, <1>42, <1>43, <1>44, <1>45, <1>46, <1>47, <1>48, <1>49, <1>50
     DEF BufferedOnly, Step, to_select, try_push_impl, push_unbuffered, try_pop_impl, pop_waits, close,
         channel_select


(* A reader that has the token is the only one. *)
LEMMA ReaderAlone ==
  ASSUME TypeInv, ReaderHand, NEW a \in Thread, pc[a] \in ReaderTok
  PROVE  /\ ch.readsem = 0 /\ Num(ReaderTok) = 1
         /\ \A b \in Thread : pc[b] \in ReaderTok => b = a
         /\ ch.write_adr \in {NULL, a}
         /\ ch.adr_written \in {NULL, a}
         /\ \A q \in Thread : pc[q] \in {"p_copy", "p_publish", "p_post"} => fr[q].adr = a
<1>0. /\ ch.readsem \in Nat /\ Num(ReaderTok) \in Nat
      /\ ch.write_adr \in Thread \cup {NULL} /\ ch.adr_written \in Thread \cup {NULL, ClosedMark}
  BY ChFacts, Counted DEF TypeInv, Types, Num
<1>1. \A q \in Thread : pc[q] \in {"p_copy", "p_publish", "p_post"} => fr[q].adr \in Thread
  BY DEF TypeInv, PlaceInv, PlaceAt
<1>2. Num(ReaderTok) <= 1 /\ ch.readsem + Num(ReaderTok) = 1
  BY <1>0 DEF ReaderHand
<1>3. Num(ReaderTok) = 1 /\ \A b \in Thread : pc[b] \in ReaderTok => b = a
  BY <1>2, OneOnly
<1>4. ReaderSec \subseteq ReaderTok
  BY DEF ReaderTok
<1> QED
  BY <1>0, <1>1, <1>2, <1>3, <1>4 DEF ReaderHand

LEMMA ReaderTaken ==
  ASSUME TypeInv, TypeInv', ReaderHand, NEW t \in Thread, Cap = 0, PushTakes(t)
  PROVE  ReaderHand'
<1>0. /\ WellTyped(t)
      /\ ch.write_adr \in Thread \cup {NULL} /\ ch.adr_written \in Thread \cup {NULL, ClosedMark}
      /\ ch.readsem \in Nat /\ ch.readsem_im \in Nat
      /\ NULL \notin Thread /\ ClosedMark \notin Thread /\ NULL # ClosedMark
  BY ChFacts, UseFacts DEF TypeInv, Types
<1>1. \A q \in Thread : pc[q] \in {"p_copy", "p_publish", "p_post"} => fr[q].adr \in Thread
  BY DEF TypeInv, PlaceInv, PlaceAt
<1>2. Moves(t)
  BY StepMoves DEF Step, try_push_impl
<1>3. \A u \in Thread : u # t => pc'[u] = pc[u] /\ fr'[u] = fr[u]
  BY <1>2 DEF Moves
<1>4. /\ pc[t] = "p_adr" /\ pc'[t] = "p_copy" /\ fr'[t].adr = ch.write_adr /\ ch.write_adr \in Thread
      /\ ch'.write_adr = NULL /\ ch'.readsem = ch.readsem /\ ch'.readsem_im = ch.readsem_im /\ ch'.adr_written = ch.adr_written
  BY <1>0 DEF PushTakes, At, Goto, ChType, FrameType, selVars
<1>n. /\ Num(ReaderTok)' = Num(ReaderTok) /\ Num(ReaderTok) \in Nat
  <2>1. /\ Num(ReaderTok) \in Nat
        /\ Num(ReaderTok)' = Num(ReaderTok) + In(pc'[t], ReaderTok) - In(pc[t], ReaderTok)
    BY <1>2, NumMoves DEF Moves
  <2> QED
    BY <2>1, <1>4 DEF In, ReaderTok, ReaderSec
<1> DEFINE a == ch.write_adr
<1>5. /\ pc[a] \in ReaderSec \ {"r_mine"} /\ ~fr[a].have_swapped
      /\ ch.adr_written = NULL /\ ch.readsem_im = 0
      /\ \A q \in Thread : pc[q] \notin {"p_copy", "p_publish", "p_post"}
  BY <1>0, <1>4 DEF ReaderHand
<1>6. a # t /\ a \in Thread
  BY <1>4, <1>5 DEF ReaderSec
<1>7. pc'[a] \in ReaderSec \ {"r_mine"} /\ ~fr'[a].have_swapped /\ fr'[t].adr = a
  BY <1>3, <1>4, <1>5, <1>6
<1>8. \A q \in Thread : pc'[q] \in {"p_copy", "p_publish", "p_post"} => q = t
  BY <1>3, <1>5
<1>10. ASSUME NEW r \in Thread PROVE pc'[r] # "r_mine"
  <2>1. \A b \in Thread : pc[b] \in ReaderTok => b = a
    BY <1>5, <1>6, ReaderAlone DEF ReaderTok
  <2> QED
    BY <1>3, <1>4, <1>5, <2>1 DEF ReaderTok, ReaderSec
<1> HIDE DEF a
<1> QED
  BY <1>0, <1>4, <1>5, <1>7, <1>8, <1>10, <1>n DEF ReaderHand

LEMMA ReaderPublished ==
  ASSUME TypeInv, TypeInv', ReaderHand, NEW t \in Thread, Cap = 0, PushPublishes(t)
  PROVE  ReaderHand'
<1>0. /\ WellTyped(t)
      /\ ch.write_adr \in Thread \cup {NULL} /\ ch.adr_written \in Thread \cup {NULL, ClosedMark}
      /\ ch.readsem \in Nat /\ ch.readsem_im \in Nat
      /\ NULL \notin Thread /\ ClosedMark \notin Thread /\ NULL # ClosedMark
  BY ChFacts, UseFacts DEF TypeInv, Types
<1>1. \A q \in Thread : pc[q] \in {"p_copy", "p_publish", "p_post"} => fr[q].adr \in Thread
  BY DEF TypeInv, PlaceInv, PlaceAt
<1>2. Moves(t)
  BY StepMoves DEF Step, try_push_impl
<1>3. \A u \in Thread : u # t => pc'[u] = pc[u] /\ fr'[u] = fr[u]
  BY <1>2 DEF Moves
<1>4. /\ pc[t] = "p_publish" /\ pc'[t] = "p_post" /\ fr'[t] = fr[t] /\ ch.adr_written = NULL
      /\ ch'.adr_written = fr[t].adr /\ ch'.readsem = ch.readsem /\ ch'.readsem_im = ch.readsem_im /\ ch'.write_adr = ch.write_adr
  BY <1>0 DEF PushPublishes, At, Goto, ChType, FrameType, selVars
<1>n. /\ Num(ReaderTok)' = Num(ReaderTok) /\ Num(ReaderTok) \in Nat
  <2>1. /\ Num(ReaderTok) \in Nat
        /\ Num(ReaderTok)' = Num(ReaderTok) + In(pc'[t], ReaderTok) - In(pc[t], ReaderTok)
    BY <1>2, NumMoves DEF Moves
  <2> QED
    BY <2>1, <1>4 DEF In, ReaderTok, ReaderSec
<1> DEFINE a == fr[t].adr
<1>5. /\ a \in Thread /\ pc[a] \in ReaderSec \ {"r_mine"} /\ ~fr[a].have_swapped /\ ch.readsem_im = 0
      /\ ch.write_adr = NULL
      /\ \A q \in Thread : pc[q] \in {"p_copy", "p_publish", "p_post"} => q = t
  BY <1>1, <1>4 DEF ReaderHand
<1>6. a # t
  BY <1>4, <1>5 DEF ReaderSec
<1>7. pc'[a] \in ReaderSec \ {"r_mine"} /\ ~fr'[a].have_swapped /\ fr'[t].adr = a /\ ch'.adr_written = a
  BY <1>3, <1>4, <1>5, <1>6
<1>8. \A q \in Thread : pc'[q] \in {"p_copy", "p_publish", "p_post"} => q = t
  BY <1>3, <1>5
<1>10. ASSUME NEW r \in Thread PROVE pc'[r] # "r_mine"
  <2>1. \A b \in Thread : pc[b] \in ReaderTok => b = a
    BY <1>5, <1>6, ReaderAlone DEF ReaderTok
  <2> QED
    BY <1>3, <1>4, <1>5, <2>1 DEF ReaderTok, ReaderSec
<1>9. a \in Thread /\ a # NULL /\ a # ClosedMark
  BY <1>0, <1>5
<1> HIDE DEF a
<1> QED
  BY <1>0, <1>4, <1>5, <1>7, <1>8, <1>9, <1>10, <1>n DEF ReaderHand

LEMMA ReaderPosted ==
  ASSUME TypeInv, TypeInv', ReaderHand, NEW t \in Thread, Cap = 0, PushPosts(t)
  PROVE  ReaderHand'
<1>0. /\ WellTyped(t)
      /\ ch.write_adr \in Thread \cup {NULL} /\ ch.adr_written \in Thread \cup {NULL, ClosedMark}
      /\ ch.readsem \in Nat /\ ch.readsem_im \in Nat
      /\ NULL \notin Thread /\ ClosedMark \notin Thread /\ NULL # ClosedMark
  BY ChFacts, UseFacts DEF TypeInv, Types
<1>1. \A q \in Thread : pc[q] \in {"p_copy", "p_publish", "p_post"} => fr[q].adr \in Thread
  BY DEF TypeInv, PlaceInv, PlaceAt
<1>2. Moves(t)
  BY StepMoves DEF Step, try_push_impl
<1>3. \A u \in Thread : u # t => pc'[u] = pc[u] /\ fr'[u] = fr[u]
  BY <1>2 DEF Moves
<1>4. /\ pc[t] = "p_post" /\ pc'[t] \in {"sel_result", "idle"}
      /\ ch'.readsem_im = ch.readsem_im + 1 /\ ch'.readsem = ch.readsem /\ ch'.adr_written = ch.adr_written /\ ch'.write_adr = ch.write_adr
  BY <1>0, BackFacts DEF PushPosts, At, Goto, ChType, FrameType, selVars
<1>n. /\ Num(ReaderTok)' = Num(ReaderTok) /\ Num(ReaderTok) \in Nat
  <2>1. /\ Num(ReaderTok) \in Nat
        /\ Num(ReaderTok)' = Num(ReaderTok) + In(pc'[t], ReaderTok) - In(pc[t], ReaderTok)
    BY <1>2, NumMoves DEF Moves
  <2> QED
    BY <2>1, <1>4 DEF In, ReaderTok, ReaderSec
<1> DEFINE a == fr[t].adr
<1>5. /\ a \in Thread /\ pc[a] \in ReaderSec \ {"r_mine"} /\ ch.readsem_im = 0
      /\ ch.adr_written # NULL \/ fr[a].have_swapped
      /\ ch.write_adr = NULL
      /\ \A q \in Thread : pc[q] \in {"p_copy", "p_publish", "p_post"} => q = t
  BY <1>1, <1>4 DEF ReaderHand
<1>6. a # t
  BY <1>4, <1>5 DEF ReaderSec
<1>7. pc'[a] \in ReaderSec \ {"r_mine"} /\ fr'[a] = fr[a]
  BY <1>3, <1>4, <1>5, <1>6
<1>8. \A q \in Thread : pc'[q] \notin {"p_copy", "p_publish", "p_post"}
  BY <1>3, <1>4, <1>5
<1>9. ch.adr_written \in {NULL, a} /\ \A b \in Thread : pc[b] \in ReaderTok => b = a
  BY <1>5, ReaderAlone DEF ReaderTok
<1>10. ASSUME NEW r \in Thread PROVE pc'[r] # "r_mine"
  BY <1>3, <1>4, <1>5, <1>9 DEF ReaderTok, ReaderSec
<1>11. ch'.adr_written # NULL => ch'.adr_written = a /\ a # ClosedMark /\ ~fr'[a].have_swapped
  BY <1>0, <1>4, <1>5, <1>7, <1>9 DEF ReaderHand
<1>12. ch'.readsem_im = 1 /\ ch'.write_adr = NULL
  BY <1>4, <1>5
<1>13. a \in Thread /\ (ch'.adr_written = a \/ fr'[a].have_swapped)
  BY <1>4, <1>5, <1>7, <1>9
<1> HIDE DEF a
<1> QED
  BY <1>4, <1>7, <1>8, <1>10, <1>11, <1>12, <1>13, <1>n DEF ReaderHand

LEMMA ReaderToken ==
  ASSUME TypeInv, TypeInv', ReaderHand, NEW t \in Thread, Cap = 0, PopToken(t)
  PROVE  ReaderHand'
<1>0. /\ WellTyped(t)
      /\ ch.write_adr \in Thread \cup {NULL} /\ ch.adr_written \in Thread \cup {NULL, ClosedMark}
      /\ ch.readsem \in Nat /\ ch.readsem_im \in Nat
      /\ NULL \notin Thread /\ ClosedMark \notin Thread /\ NULL # ClosedMark
  BY ChFacts, UseFacts DEF TypeInv, Types
<1>1. \A q \in Thread : pc[q] \in {"p_copy", "p_publish", "p_post"} => fr[q].adr \in Thread
  BY DEF TypeInv, PlaceInv, PlaceAt
<1>2. Moves(t)
  BY StepMoves DEF Step, try_pop_impl
<1>3. \A u \in Thread : u # t => pc'[u] = pc[u] /\ fr'[u] = fr[u]
  BY <1>2 DEF Moves
<1>4. /\ pc[t] = "r_sem" /\ pc'[t] = "r_adv" /\ ch.readsem > 0 /\ fr' = fr
      /\ ch'.readsem = ch.readsem - 1 /\ ch'.readsem_im = ch.readsem_im /\ ch'.adr_written = ch.adr_written /\ ch'.write_adr = ch.write_adr
  BY <1>0 DEF PopToken, At, Goto, ChType, FrameType, selVars
<1>n. /\ Num(ReaderTok)' = Num(ReaderTok) + 1 /\ Num(ReaderTok) \in Nat
  <2>1. /\ Num(ReaderTok) \in Nat
        /\ Num(ReaderTok)' = Num(ReaderTok) + In(pc'[t], ReaderTok) - In(pc[t], ReaderTok)
    BY <1>2, NumMoves DEF Moves
  <2> QED
    BY <2>1, <1>4 DEF In, ReaderTok, ReaderSec
<1>5. ch'.readsem + Num(ReaderTok)' = 1
  BY <1>0, <1>4, <1>n DEF ReaderHand
<1>6. ASSUME NEW u \in Thread PROVE pc[u] \notin ReaderSec /\ pc'[u] \notin ReaderSec
  <2>1. pc[u] \notin ReaderTok
    BY <1>4, ReaderAlone
  <2> QED
    BY <1>3, <1>4, <2>1 DEF ReaderTok, ReaderSec
<1>7. /\ ch'.write_adr = NULL /\ ch'.adr_written = NULL /\ ch'.readsem_im = 0
      /\ \A q \in Thread : pc[q] \notin {"p_copy", "p_publish", "p_post"}
  BY <1>0, <1>1, <1>4, <1>6 DEF ReaderHand
<1>8. \A q \in Thread : pc'[q] \notin {"p_copy", "p_publish", "p_post"}
  BY <1>3, <1>4, <1>7
<1> QED
  BY <1>5, <1>6, <1>7, <1>8 DEF ReaderHand, ReaderSec

LEMMA ReaderAdvertised ==
  ASSUME TypeInv, TypeInv', ReaderHand, NEW t \in Thread, Cap = 0, PopAdvertises(t)
  PROVE  ReaderHand'
<1>0. /\ WellTyped(t)
      /\ ch.write_adr \in Thread \cup {NULL} /\ ch.adr_written \in Thread \cup {NULL, ClosedMark}
      /\ ch.readsem \in Nat /\ ch.readsem_im \in Nat
      /\ NULL \notin Thread /\ ClosedMark \notin Thread /\ NULL # ClosedMark
  BY ChFacts, UseFacts DEF TypeInv, Types
<1>1. \A q \in Thread : pc[q] \in {"p_copy", "p_publish", "p_post"} => fr[q].adr \in Thread
  BY DEF TypeInv, PlaceInv, PlaceAt
<1>2. Moves(t)
  BY StepMoves DEF Step, pop_waits, try_pop_impl
<1>3. \A u \in Thread : u # t => pc'[u] = pc[u] /\ fr'[u] = fr[u]
  BY <1>2 DEF Moves
<1>4. /\ pc[t] = "r_adv" /\ pc'[t] = "r_check" /\ fr' = fr
      /\ ch'.write_adr = t /\ ch'.readsem_im = ch.readsem_im /\ ch'.adr_written = ch.adr_written /\ ch'.readsem = ch.readsem
  BY <1>0 DEF PopAdvertises, At, Goto, ChType, FrameType, selVars
<1>n. /\ Num(ReaderTok)' = Num(ReaderTok) /\ Num(ReaderTok) \in Nat
  <2>1. /\ Num(ReaderTok) \in Nat
        /\ Num(ReaderTok)' = Num(ReaderTok) + In(pc'[t], ReaderTok) - In(pc[t], ReaderTok)
    BY <1>2, NumMoves DEF Moves
  <2> QED
    BY <2>1, <1>4 DEF In, ReaderTok, ReaderSec
<1>5. ch.readsem + Num(ReaderTok) = 1 /\ \A b \in Thread : pc[b] \in ReaderTok => b = t
  BY <1>4, ReaderAlone DEF ReaderHand, ReaderTok
<1>6. ASSUME NEW u \in Thread PROVE pc[u] \notin ReaderSec
  BY <1>4, <1>5 DEF ReaderTok, ReaderSec
<1>7. /\ ch.adr_written = NULL /\ ch.readsem_im = 0
      /\ \A q \in Thread : pc[q] \notin {"p_copy", "p_publish", "p_post"}
  BY <1>0, <1>1, <1>6 DEF ReaderHand
<1>8. \A q \in Thread : pc'[q] \notin {"p_copy", "p_publish", "p_post"} /\ pc'[q] # "r_mine"
  BY <1>3, <1>4, <1>6, <1>7 DEF ReaderSec
<1>9. ~fr[t].have_swapped
  BY <1>4 DEF TypeInv, PlaceInv, PlaceAt
<1> QED
  BY <1>4, <1>5, <1>7, <1>8, <1>9, <1>n DEF ReaderHand, ReaderSec

LEMMA ReaderRetracted ==
  ASSUME TypeInv, TypeInv', ReaderHand, NEW t \in Thread, Cap = 0, ch.write_adr = t, PopRetracts(t)
  PROVE  ReaderHand'
<1>0. /\ WellTyped(t)
      /\ ch.write_adr \in Thread \cup {NULL} /\ ch.adr_written \in Thread \cup {NULL, ClosedMark}
      /\ ch.readsem \in Nat /\ ch.readsem_im \in Nat
      /\ NULL \notin Thread /\ ClosedMark \notin Thread /\ NULL # ClosedMark
  BY ChFacts, UseFacts DEF TypeInv, Types
<1>1. \A q \in Thread : pc[q] \in {"p_copy", "p_publish", "p_post"} => fr[q].adr \in Thread
  BY DEF TypeInv, PlaceInv, PlaceAt
<1>2. Moves(t)
  BY StepMoves DEF Step, pop_waits, try_pop_impl
<1>3. \A u \in Thread : u # t => pc'[u] = pc[u] /\ fr'[u] = fr[u]
  BY <1>2 DEF Moves
<1> DEFINE n == ch.readsem + 1
<1>d. /\ pc[t] = "r_retract" /\ pc' = [pc EXCEPT ![t] = "r_adr"] /\ fr' = fr
      /\ ch' = [ch EXCEPT !.write_adr = NULL, !.readsem = n]
  BY DEF PopRetracts, At, Goto
<1> HIDE DEF n
<1>r. /\ ch'.write_adr = NULL /\ ch'.readsem = n /\ ch'.readsem_im = ch.readsem_im /\ ch'.adr_written = ch.adr_written /\ pc'[t] = "r_adr"
  BY <1>0, <1>d DEF ChType
<1>4. /\ pc[t] = "r_retract" /\ pc'[t] = "r_adr" /\ fr' = fr
      /\ ch'.write_adr = NULL /\ ch'.readsem = ch.readsem + 1 /\ ch'.readsem_im = ch.readsem_im /\ ch'.adr_written = ch.adr_written
  BY <1>d, <1>r DEF PopRetracts, n
<1>n. /\ Num(ReaderTok)' = Num(ReaderTok) - 1 /\ Num(ReaderTok) \in Nat
  <2>1. /\ Num(ReaderTok) \in Nat
        /\ Num(ReaderTok)' = Num(ReaderTok) + In(pc'[t], ReaderTok) - In(pc[t], ReaderTok)
    BY <1>2, NumMoves DEF Moves
  <2> QED
    BY <2>1, <1>4 DEF In, ReaderTok, ReaderSec
<1>5. ch'.readsem + Num(ReaderTok)' = 1 /\ \A b \in Thread : pc[b] \in ReaderTok => b = t
  BY <1>0, <1>4, <1>n, ReaderAlone DEF ReaderHand, ReaderTok, ReaderSec
<1>7. /\ ch.adr_written = NULL /\ ch.readsem_im = 0
      /\ \A q \in Thread : pc[q] \notin {"p_copy", "p_publish", "p_post"}
  BY <1>0 DEF ReaderHand
<1>8. \A q \in Thread : pc'[q] \notin {"p_copy", "p_publish", "p_post"} /\ pc'[q] # "r_mine"
  BY <1>3, <1>4, <1>5, <1>7 DEF ReaderSec, ReaderTok
<1> QED
  BY <1>4, <1>5, <1>7, <1>8 DEF ReaderHand

LEMMA ReaderServed ==
  ASSUME TypeInv, TypeInv', ReaderHand, NEW t \in Thread, Cap = 0, ch.adr_written = t, PopAwaits(t)
  PROVE  ReaderHand'
<1>0. /\ WellTyped(t)
      /\ ch.write_adr \in Thread \cup {NULL} /\ ch.adr_written \in Thread \cup {NULL, ClosedMark}
      /\ ch.readsem \in Nat /\ ch.readsem_im \in Nat
      /\ NULL \notin Thread /\ ClosedMark \notin Thread /\ NULL # ClosedMark
  BY ChFacts, UseFacts DEF TypeInv, Types
<1>1. \A q \in Thread : pc[q] \in {"p_copy", "p_publish", "p_post"} => fr[q].adr \in Thread
  BY DEF TypeInv, PlaceInv, PlaceAt
<1>2. Moves(t)
  BY StepMoves DEF Step, pop_waits, try_pop_impl
<1>3. \A u \in Thread : u # t => pc'[u] = pc[u] /\ fr'[u] = fr[u]
  BY <1>2 DEF Moves
<1>4. /\ pc[t] = "r_await" /\ pc'[t] = "r_im" /\ fr'[t].have_swapped
      /\ ch'.adr_written = NULL /\ ch'.readsem = ch.readsem /\ ch'.readsem_im = ch.readsem_im /\ ch'.write_adr = ch.write_adr
  BY <1>0 DEF PopAwaits, At, Goto, ChType, FrameType, selVars
<1>n. /\ Num(ReaderTok)' = Num(ReaderTok) /\ Num(ReaderTok) \in Nat
  <2>1. /\ Num(ReaderTok) \in Nat
        /\ Num(ReaderTok)' = Num(ReaderTok) + In(pc'[t], ReaderTok) - In(pc[t], ReaderTok)
    BY <1>2, NumMoves DEF Moves
  <2> QED
    BY <2>1, <1>4 DEF In, ReaderTok, ReaderSec
<1>5. /\ ch.readsem + Num(ReaderTok) = 1 /\ \A b \in Thread : pc[b] \in ReaderTok => b = t
      /\ \A q \in Thread : pc[q] \in {"p_copy", "p_publish", "p_post"} => fr[q].adr = t
  BY <1>4, ReaderAlone DEF ReaderHand, ReaderTok, ReaderSec
<1>6. ch.write_adr = NULL /\ ch.readsem_im \in {0, 1}
  BY <1>0 DEF ReaderHand
<1>7. \A q \in Thread : pc'[q] \in {"p_copy", "p_publish", "p_post"} =>
        /\ q # t /\ pc[q] = pc'[q] /\ fr'[q].adr = t
        /\ ch.readsem_im = 0 /\ pc[q] = "p_post"
        /\ \A p \in Thread : pc[p] \in {"p_copy", "p_publish", "p_post"} => p = q
  BY <1>0, <1>3, <1>4, <1>5 DEF ReaderHand
<1>8. \A q \in Thread : pc'[q] # "r_mine"
  BY <1>3, <1>4, <1>5 DEF ReaderSec, ReaderTok
<1>9. \A q \in Thread : pc'[q] \in {"p_copy", "p_publish", "p_post"} =>
       /\ pc'[fr'[q].adr] \in ReaderSec \ {"r_mine"}
       /\ ch'.readsem_im = 0
       /\ \A p \in Thread : pc'[p] \in {"p_copy", "p_publish", "p_post"} => p = q
       /\ pc'[q] = "p_post" /\ fr'[fr'[q].adr].have_swapped
  BY <1>3, <1>4, <1>7 DEF ReaderSec
<1> QED
  BY <1>4, <1>5, <1>6, <1>8, <1>9, <1>n DEF ReaderHand, ReaderSec

LEMMA ReaderImSem ==
  ASSUME TypeInv, TypeInv', ReaderHand, NEW t \in Thread, Cap = 0, PopImSem(t)
  PROVE  ReaderHand'
<1>0. /\ WellTyped(t)
      /\ ch.write_adr \in Thread \cup {NULL} /\ ch.adr_written \in Thread \cup {NULL, ClosedMark}
      /\ ch.readsem \in Nat /\ ch.readsem_im \in Nat
      /\ NULL \notin Thread /\ ClosedMark \notin Thread /\ NULL # ClosedMark
  BY ChFacts, UseFacts DEF TypeInv, Types
<1>1. \A q \in Thread : pc[q] \in {"p_copy", "p_publish", "p_post"} => fr[q].adr \in Thread
  BY DEF TypeInv, PlaceInv, PlaceAt
<1>2. Moves(t)
  BY StepMoves DEF Step, pop_waits, try_pop_impl
<1>3. \A u \in Thread : u # t => pc'[u] = pc[u] /\ fr'[u] = fr[u]
  BY <1>2 DEF Moves
<1>4. /\ pc[t] = "r_im" /\ pc'[t] = "r_mine" /\ fr' = fr /\ ch.readsem_im > 0
      /\ ch'.readsem_im = ch.readsem_im - 1 /\ ch'.readsem = ch.readsem /\ ch'.adr_written = ch.adr_written /\ ch'.write_adr = ch.write_adr
  BY <1>0 DEF PopImSem, At, Goto, ChType, FrameType, selVars
<1>n. /\ Num(ReaderTok)' = Num(ReaderTok) /\ Num(ReaderTok) \in Nat
  <2>1. /\ Num(ReaderTok) \in Nat
        /\ Num(ReaderTok)' = Num(ReaderTok) + In(pc'[t], ReaderTok) - In(pc[t], ReaderTok)
    BY <1>2, NumMoves DEF Moves
  <2> QED
    BY <2>1, <1>4 DEF In, ReaderTok, ReaderSec
<1>5. /\ ch.readsem + Num(ReaderTok) = 1 /\ \A b \in Thread : pc[b] \in ReaderTok => b = t
      /\ ch.adr_written \in {NULL, t}
  BY <1>4, ReaderAlone DEF ReaderHand, ReaderTok, ReaderSec
<1>6. /\ ch.write_adr = NULL /\ ch.readsem_im = 1
      /\ \A q \in Thread : pc[q] \notin {"p_copy", "p_publish", "p_post"}
  BY <1>0, <1>4 DEF ReaderHand
<1>7. ch.adr_written = t \/ fr[t].have_swapped
  BY <1>5, <1>6 DEF ReaderHand, ReaderTok
<1>8. /\ \A q \in Thread : pc'[q] \notin {"p_copy", "p_publish", "p_post"}
      /\ \A q \in Thread : pc'[q] = "r_mine" => q = t
  BY <1>3, <1>4, <1>5, <1>6 DEF ReaderSec, ReaderTok
<1>9. ch'.readsem_im = 0 /\ ch'.write_adr = NULL
  BY <1>4, <1>6
<1>10. ch.adr_written # NULL => ch.adr_written = t /\ t # ClosedMark /\ ~fr[t].have_swapped
  BY <1>0, <1>5 DEF ReaderHand
<1> QED
  BY <1>4, <1>5, <1>7, <1>8, <1>9, <1>10, <1>n DEF ReaderHand, ReaderSec

LEMMA ReaderMine ==
  ASSUME TypeInv, TypeInv', ReaderHand, NEW t \in Thread, Cap = 0, PopIsMine(t)
  PROVE  ReaderHand'
<1>0. /\ WellTyped(t)
      /\ ch.write_adr \in Thread \cup {NULL} /\ ch.adr_written \in Thread \cup {NULL, ClosedMark}
      /\ ch.readsem \in Nat /\ ch.readsem_im \in Nat
      /\ NULL \notin Thread /\ ClosedMark \notin Thread /\ NULL # ClosedMark
  BY ChFacts, UseFacts DEF TypeInv, Types
<1>1. \A q \in Thread : pc[q] \in {"p_copy", "p_publish", "p_post"} => fr[q].adr \in Thread
  BY DEF TypeInv, PlaceInv, PlaceAt
<1>2. Moves(t)
  BY StepMoves DEF Step, pop_waits, try_pop_impl
<1>3. \A u \in Thread : u # t => pc'[u] = pc[u] /\ fr'[u] = fr[u]
  BY <1>2 DEF Moves
<1>a. /\ pc[t] = "r_mine" /\ ch.readsem_im = 0 /\ (ch.adr_written = t \/ fr[t].have_swapped)
      /\ ch.adr_written \in {NULL, t} /\ \A b \in Thread : pc[b] \in ReaderTok => b = t
      /\ (fr[t].have_swapped => ch.adr_written = NULL)
  <2>1. pc[t] = "r_mine"
    BY DEF PopIsMine, At
  <2>2. ch.adr_written \in {NULL, t} /\ \A b \in Thread : pc[b] \in ReaderTok => b = t
    BY <2>1, ReaderAlone DEF ReaderTok, ReaderSec
  <2> QED
    BY <1>0, <2>1, <2>2 DEF ReaderHand
<1> DEFINE n == ch.readsem + 1
<1>d. ch' = [ch EXCEPT !.readsem = n, !.adr_written = NULL] /\ Return(t, "success")
  <2>1. fr[t].have_swapped => ch' = [ch EXCEPT !.readsem = n, !.adr_written = ch.adr_written] /\ ch.adr_written = NULL
    BY <1>a DEF PopIsMine
  <2>2. ~fr[t].have_swapped => ch' = [ch EXCEPT !.readsem = n, !.adr_written = NULL]
    BY <1>a DEF PopIsMine
  <2>3. Return(t, "success")
    BY <1>a DEF PopIsMine
  <2> QED
    BY <2>1, <2>2, <2>3
<1> HIDE DEF n
<1>r. /\ ch'.adr_written = NULL /\ ch'.readsem = n /\ ch'.readsem_im = ch.readsem_im /\ ch'.write_adr = ch.write_adr
      /\ pc'[t] \in {"sel_result", "idle"}
  BY <1>0, <1>d, BackFacts DEF ChType
<1>4. /\ pc[t] = "r_mine" /\ pc'[t] \in {"sel_result", "idle"}
      /\ ch'.readsem = ch.readsem + 1 /\ ch'.adr_written = NULL /\ ch'.readsem_im = ch.readsem_im /\ ch'.write_adr = ch.write_adr
  BY <1>a, <1>r DEF PopIsMine, n
<1>n. /\ Num(ReaderTok)' = Num(ReaderTok) - 1 /\ Num(ReaderTok) \in Nat
  <2>1. /\ Num(ReaderTok) \in Nat
        /\ Num(ReaderTok)' = Num(ReaderTok) + In(pc'[t], ReaderTok) - In(pc[t], ReaderTok)
    BY <1>2, NumMoves DEF Moves
  <2> QED
    BY <2>1, <1>4 DEF In, ReaderTok, ReaderSec
<1>5. ch'.readsem + Num(ReaderTok)' = 1
  BY <1>0, <1>4, <1>n DEF ReaderHand
<1>6. ch.write_adr = NULL /\ \A q \in Thread : pc[q] \notin {"p_copy", "p_publish", "p_post"}
  BY <1>0, <1>1, <1>a DEF ReaderHand, ReaderTok
<1>8. \A q \in Thread : pc'[q] \notin {"p_copy", "p_publish", "p_post"} /\ pc'[q] # "r_mine"
  BY <1>3, <1>4, <1>6, <1>a DEF ReaderSec, ReaderTok
<1> QED
  BY <1>4, <1>5, <1>6, <1>8, <1>a DEF ReaderHand

(* A writer that has the token is the only one. *)
LEMMA WriterAlone ==
  ASSUME TypeInv, WriterHand, NEW a \in Thread, pc[a] \in WriterTok
  PROVE  /\ ch.writesem = 0 /\ Num(WriterTok) = 1
         /\ \A b \in Thread : pc[b] \in WriterTok => b = a
         /\ ch.read_adr \in {NULL, a}
         /\ ch.adr_read \in {NULL, a}
         /\ \A q \in Thread : pc[q] \in {"r_copy", "r_publish", "r_post"} => fr[q].adr = a
<1>0. /\ ch.writesem \in Nat /\ Num(WriterTok) \in Nat
      /\ ch.read_adr \in Thread \cup {NULL} /\ ch.adr_read \in Thread \cup {NULL}
  BY ChFacts, Counted DEF TypeInv, Types, Num
<1>1. \A q \in Thread : pc[q] \in {"r_copy", "r_publish", "r_post"} => fr[q].adr \in Thread
  BY DEF TypeInv, PlaceInv, PlaceAt
<1>2. Num(WriterTok) <= 1 /\ ch.writesem + Num(WriterTok) = 1
  BY <1>0 DEF WriterHand
<1>3. Num(WriterTok) = 1 /\ \A b \in Thread : pc[b] \in WriterTok => b = a
  BY <1>2, OneOnly
<1>4. WriterSec \subseteq WriterTok
  BY DEF WriterTok
<1> QED
  BY <1>0, <1>1, <1>2, <1>3, <1>4 DEF WriterHand

LEMMA WriterTaken ==
  ASSUME TypeInv, TypeInv', WriterHand, NEW t \in Thread, Cap = 0, PopTakes(t)
  PROVE  WriterHand'
<1>0. /\ WellTyped(t)
      /\ ch.read_adr \in Thread \cup {NULL} /\ ch.adr_read \in Thread \cup {NULL}
      /\ ch.writesem \in Nat /\ ch.writesem_im \in Nat
      /\ NULL \notin Thread /\ ClosedMark \notin Thread /\ NULL # ClosedMark
  BY ChFacts, UseFacts DEF TypeInv, Types
<1>1. \A q \in Thread : pc[q] \in {"r_copy", "r_publish", "r_post"} => fr[q].adr \in Thread
  BY DEF TypeInv, PlaceInv, PlaceAt
<1>2. Moves(t)
  BY StepMoves DEF Step, try_pop_impl
<1>3. \A u \in Thread : u # t => pc'[u] = pc[u] /\ fr'[u] = fr[u]
  BY <1>2 DEF Moves
<1>4. /\ pc[t] = "r_adr" /\ pc'[t] = "r_copy" /\ fr'[t].adr = ch.read_adr /\ ch.read_adr \in Thread
      /\ ch'.read_adr = NULL /\ ch'.writesem = ch.writesem /\ ch'.writesem_im = ch.writesem_im /\ ch'.adr_read = ch.adr_read
  BY <1>0 DEF PopTakes, At, Goto, ChType, FrameType, selVars
<1>n. /\ Num(WriterTok)' = Num(WriterTok) /\ Num(WriterTok) \in Nat
  <2>1. /\ Num(WriterTok) \in Nat
        /\ Num(WriterTok)' = Num(WriterTok) + In(pc'[t], WriterTok) - In(pc[t], WriterTok)
    BY <1>2, NumMoves DEF Moves
  <2> QED
    BY <2>1, <1>4 DEF In, WriterTok, WriterSec
<1> DEFINE a == ch.read_adr
<1>5. /\ pc[a] \in WriterSec \ {"p_mine"} /\ ~fr[a].have_swapped
      /\ ch.adr_read = NULL /\ ch.writesem_im = 0
      /\ \A q \in Thread : pc[q] \notin {"r_copy", "r_publish", "r_post"}
  BY <1>0, <1>4 DEF WriterHand
<1>6. a # t /\ a \in Thread
  BY <1>4, <1>5 DEF WriterSec
<1>7. pc'[a] \in WriterSec \ {"p_mine"} /\ ~fr'[a].have_swapped /\ fr'[t].adr = a
  BY <1>3, <1>4, <1>5, <1>6
<1>8. \A q \in Thread : pc'[q] \in {"r_copy", "r_publish", "r_post"} => q = t
  BY <1>3, <1>5
<1>10. ASSUME NEW r \in Thread PROVE pc'[r] # "p_mine"
  <2>1. \A b \in Thread : pc[b] \in WriterTok => b = a
    BY <1>5, <1>6, WriterAlone DEF WriterTok
  <2> QED
    BY <1>3, <1>4, <1>5, <2>1 DEF WriterTok, WriterSec
<1> HIDE DEF a
<1> QED
  BY <1>0, <1>4, <1>5, <1>7, <1>8, <1>10, <1>n DEF WriterHand

LEMMA WriterPublished ==
  ASSUME TypeInv, TypeInv', WriterHand, NEW t \in Thread, Cap = 0, PopPublishes(t)
  PROVE  WriterHand'
<1>0. /\ WellTyped(t)
      /\ ch.read_adr \in Thread \cup {NULL} /\ ch.adr_read \in Thread \cup {NULL}
      /\ ch.writesem \in Nat /\ ch.writesem_im \in Nat
      /\ NULL \notin Thread /\ ClosedMark \notin Thread /\ NULL # ClosedMark
  BY ChFacts, UseFacts DEF TypeInv, Types
<1>1. \A q \in Thread : pc[q] \in {"r_copy", "r_publish", "r_post"} => fr[q].adr \in Thread
  BY DEF TypeInv, PlaceInv, PlaceAt
<1>2. Moves(t)
  BY StepMoves DEF Step, try_pop_impl
<1>3. \A u \in Thread : u # t => pc'[u] = pc[u] /\ fr'[u] = fr[u]
  BY <1>2 DEF Moves
<1>4. /\ pc[t] = "r_publish" /\ pc'[t] = "r_post" /\ fr'[t] = fr[t] /\ ch.adr_read = NULL
      /\ ch'.adr_read = fr[t].adr /\ ch'.writesem = ch.writesem /\ ch'.writesem_im = ch.writesem_im /\ ch'.read_adr = ch.read_adr
  BY <1>0 DEF PopPublishes, At, Goto, ChType, FrameType, selVars
<1>n. /\ Num(WriterTok)' = Num(WriterTok) /\ Num(WriterTok) \in Nat
  <2>1. /\ Num(WriterTok) \in Nat
        /\ Num(WriterTok)' = Num(WriterTok) + In(pc'[t], WriterTok) - In(pc[t], WriterTok)
    BY <1>2, NumMoves DEF Moves
  <2> QED
    BY <2>1, <1>4 DEF In, WriterTok, WriterSec
<1> DEFINE a == fr[t].adr
<1>5. /\ a \in Thread /\ pc[a] \in WriterSec \ {"p_mine"} /\ ~fr[a].have_swapped /\ ch.writesem_im = 0
      /\ ch.read_adr = NULL
      /\ \A q \in Thread : pc[q] \in {"r_copy", "r_publish", "r_post"} => q = t
  BY <1>1, <1>4 DEF WriterHand
<1>6. a # t
  BY <1>4, <1>5 DEF WriterSec
<1>7. pc'[a] \in WriterSec \ {"p_mine"} /\ ~fr'[a].have_swapped /\ fr'[t].adr = a /\ ch'.adr_read = a
  BY <1>3, <1>4, <1>5, <1>6
<1>8. \A q \in Thread : pc'[q] \in {"r_copy", "r_publish", "r_post"} => q = t
  BY <1>3, <1>5
<1>10. ASSUME NEW r \in Thread PROVE pc'[r] # "p_mine"
  <2>1. \A b \in Thread : pc[b] \in WriterTok => b = a
    BY <1>5, <1>6, WriterAlone DEF WriterTok
  <2> QED
    BY <1>3, <1>4, <1>5, <2>1 DEF WriterTok, WriterSec
<1>9. a \in Thread /\ a # NULL /\ a # ClosedMark
  BY <1>0, <1>5
<1> HIDE DEF a
<1> QED
  BY <1>0, <1>4, <1>5, <1>7, <1>8, <1>9, <1>10, <1>n DEF WriterHand

LEMMA WriterPosted ==
  ASSUME TypeInv, TypeInv', WriterHand, NEW t \in Thread, Cap = 0, PopPosts(t)
  PROVE  WriterHand'
<1>0. /\ WellTyped(t)
      /\ ch.read_adr \in Thread \cup {NULL} /\ ch.adr_read \in Thread \cup {NULL}
      /\ ch.writesem \in Nat /\ ch.writesem_im \in Nat
      /\ NULL \notin Thread /\ ClosedMark \notin Thread /\ NULL # ClosedMark
  BY ChFacts, UseFacts DEF TypeInv, Types
<1>1. \A q \in Thread : pc[q] \in {"r_copy", "r_publish", "r_post"} => fr[q].adr \in Thread
  BY DEF TypeInv, PlaceInv, PlaceAt
<1>2. Moves(t)
  BY StepMoves DEF Step, try_pop_impl
<1>3. \A u \in Thread : u # t => pc'[u] = pc[u] /\ fr'[u] = fr[u]
  BY <1>2 DEF Moves
<1>4. /\ pc[t] = "r_post" /\ pc'[t] \in {"sel_result", "idle"}
      /\ ch'.writesem_im = ch.writesem_im + 1 /\ ch'.writesem = ch.writesem /\ ch'.adr_read = ch.adr_read /\ ch'.read_adr = ch.read_adr
  BY <1>0, BackFacts DEF PopPosts, At, Goto, ChType, FrameType, selVars
<1>n. /\ Num(WriterTok)' = Num(WriterTok) /\ Num(WriterTok) \in Nat
  <2>1. /\ Num(WriterTok) \in Nat
        /\ Num(WriterTok)' = Num(WriterTok) + In(pc'[t], WriterTok) - In(pc[t], WriterTok)
    BY <1>2, NumMoves DEF Moves
  <2> QED
    BY <2>1, <1>4 DEF In, WriterTok, WriterSec
<1> DEFINE a == fr[t].adr
<1>5. /\ a \in Thread /\ pc[a] \in WriterSec \ {"p_mine"} /\ ch.writesem_im = 0
      /\ ch.adr_read # NULL \/ fr[a].have_swapped
      /\ ch.read_adr = NULL
      /\ \A q \in Thread : pc[q] \in {"r_copy", "r_publish", "r_post"} => q = t
  BY <1>1, <1>4 DEF WriterHand
<1>6. a # t
  BY <1>4, <1>5 DEF WriterSec
<1>7. pc'[a] \in WriterSec \ {"p_mine"} /\ fr'[a] = fr[a]
  BY <1>3, <1>4, <1>5, <1>6
<1>8. \A q \in Thread : pc'[q] \notin {"r_copy", "r_publish", "r_post"}
  BY <1>3, <1>4, <1>5
<1>9. ch.adr_read \in {NULL, a} /\ \A b \in Thread : pc[b] \in WriterTok => b = a
  BY <1>5, WriterAlone DEF WriterTok
<1>10. ASSUME NEW r \in Thread PROVE pc'[r] # "p_mine"
  BY <1>3, <1>4, <1>5, <1>9 DEF WriterTok, WriterSec
<1>11. ch'.adr_read # NULL => ch'.adr_read = a /\ a # ClosedMark /\ ~fr'[a].have_swapped
  BY <1>0, <1>4, <1>5, <1>7, <1>9 DEF WriterHand
<1>12. ch'.writesem_im = 1 /\ ch'.read_adr = NULL
  BY <1>4, <1>5
<1>13. a \in Thread /\ (ch'.adr_read = a \/ fr'[a].have_swapped)
  BY <1>4, <1>5, <1>7, <1>9
<1> HIDE DEF a
<1> QED
  BY <1>4, <1>7, <1>8, <1>10, <1>11, <1>12, <1>13, <1>n DEF WriterHand

LEMMA WriterToken ==
  ASSUME TypeInv, TypeInv', WriterHand, NEW t \in Thread, Cap = 0, PushToken(t)
  PROVE  WriterHand'
<1>0. /\ WellTyped(t)
      /\ ch.read_adr \in Thread \cup {NULL} /\ ch.adr_read \in Thread \cup {NULL}
      /\ ch.writesem \in Nat /\ ch.writesem_im \in Nat
      /\ NULL \notin Thread /\ ClosedMark \notin Thread /\ NULL # ClosedMark
  BY ChFacts, UseFacts DEF TypeInv, Types
<1>1. \A q \in Thread : pc[q] \in {"r_copy", "r_publish", "r_post"} => fr[q].adr \in Thread
  BY DEF TypeInv, PlaceInv, PlaceAt
<1>2. Moves(t)
  BY StepMoves DEF Step, try_push_impl
<1>3. \A u \in Thread : u # t => pc'[u] = pc[u] /\ fr'[u] = fr[u]
  BY <1>2 DEF Moves
<1>4. /\ pc[t] = "p_sem" /\ pc'[t] = "p_closed" /\ ch.writesem > 0 /\ fr' = fr
      /\ ch'.writesem = ch.writesem - 1 /\ ch'.writesem_im = ch.writesem_im /\ ch'.adr_read = ch.adr_read /\ ch'.read_adr = ch.read_adr
  BY <1>0 DEF PushToken, At, Goto, ChType, FrameType, selVars
<1>n. /\ Num(WriterTok)' = Num(WriterTok) + 1 /\ Num(WriterTok) \in Nat
  <2>1. /\ Num(WriterTok) \in Nat
        /\ Num(WriterTok)' = Num(WriterTok) + In(pc'[t], WriterTok) - In(pc[t], WriterTok)
    BY <1>2, NumMoves DEF Moves
  <2> QED
    BY <2>1, <1>4 DEF In, WriterTok, WriterSec
<1>5. ch'.writesem + Num(WriterTok)' = 1
  BY <1>0, <1>4, <1>n DEF WriterHand
<1>6. ASSUME NEW u \in Thread PROVE pc[u] \notin WriterSec /\ pc'[u] \notin WriterSec
  <2>1. pc[u] \notin WriterTok
    BY <1>4, WriterAlone
  <2> QED
    BY <1>3, <1>4, <2>1 DEF WriterTok, WriterSec
<1>7. /\ ch'.read_adr = NULL /\ ch'.adr_read = NULL /\ ch'.writesem_im = 0
      /\ \A q \in Thread : pc[q] \notin {"r_copy", "r_publish", "r_post"}
  BY <1>0, <1>1, <1>4, <1>6 DEF WriterHand
<1>8. \A q \in Thread : pc'[q] \notin {"r_copy", "r_publish", "r_post"}
  BY <1>3, <1>4, <1>7
<1> QED
  BY <1>5, <1>6, <1>7, <1>8 DEF WriterHand, WriterSec

LEMMA WriterAdvertised ==
  ASSUME TypeInv, TypeInv', WriterHand, NEW t \in Thread, Cap = 0, PushAdvertises(t)
  PROVE  WriterHand'
<1>0. /\ WellTyped(t)
      /\ ch.read_adr \in Thread \cup {NULL} /\ ch.adr_read \in Thread \cup {NULL}
      /\ ch.writesem \in Nat /\ ch.writesem_im \in Nat
      /\ NULL \notin Thread /\ ClosedMark \notin Thread /\ NULL # ClosedMark
  BY ChFacts, UseFacts DEF TypeInv, Types
<1>1. \A q \in Thread : pc[q] \in {"r_copy", "r_publish", "r_post"} => fr[q].adr \in Thread
  BY DEF TypeInv, PlaceInv, PlaceAt
<1>2. Moves(t)
  BY StepMoves DEF Step, push_unbuffered, try_push_impl
<1>3. \A u \in Thread : u # t => pc'[u] = pc[u] /\ fr'[u] = fr[u]
  BY <1>2 DEF Moves
<1>4. /\ pc[t] = "p_adv" /\ pc'[t] = "p_check" /\ fr' = fr
      /\ ch'.read_adr = t /\ ch'.writesem_im = ch.writesem_im /\ ch'.adr_read = ch.adr_read /\ ch'.writesem = ch.writesem
  BY <1>0 DEF PushAdvertises, At, Goto, ChType, FrameType, selVars
<1>n. /\ Num(WriterTok)' = Num(WriterTok) /\ Num(WriterTok) \in Nat
  <2>1. /\ Num(WriterTok) \in Nat
        /\ Num(WriterTok)' = Num(WriterTok) + In(pc'[t], WriterTok) - In(pc[t], WriterTok)
    BY <1>2, NumMoves DEF Moves
  <2> QED
    BY <2>1, <1>4 DEF In, WriterTok, WriterSec
<1>5. ch.writesem + Num(WriterTok) = 1 /\ \A b \in Thread : pc[b] \in WriterTok => b = t
  BY <1>4, WriterAlone DEF WriterHand, WriterTok
<1>6. ASSUME NEW u \in Thread PROVE pc[u] \notin WriterSec
  BY <1>4, <1>5 DEF WriterTok, WriterSec
<1>7. /\ ch.adr_read = NULL /\ ch.writesem_im = 0
      /\ \A q \in Thread : pc[q] \notin {"r_copy", "r_publish", "r_post"}
  BY <1>0, <1>1, <1>6 DEF WriterHand
<1>8. \A q \in Thread : pc'[q] \notin {"r_copy", "r_publish", "r_post"} /\ pc'[q] # "p_mine"
  BY <1>3, <1>4, <1>6, <1>7 DEF WriterSec
<1>9. ~fr[t].have_swapped
  BY <1>4 DEF TypeInv, PlaceInv, PlaceAt
<1> QED
  BY <1>4, <1>5, <1>7, <1>8, <1>9, <1>n DEF WriterHand, WriterSec

LEMMA WriterRetracted ==
  ASSUME TypeInv, TypeInv', WriterHand, NEW t \in Thread, Cap = 0, ch.read_adr = t, PushRetracts(t)
  PROVE  WriterHand'
<1>0. /\ WellTyped(t)
      /\ ch.read_adr \in Thread \cup {NULL} /\ ch.adr_read \in Thread \cup {NULL}
      /\ ch.writesem \in Nat /\ ch.writesem_im \in Nat
      /\ NULL \notin Thread /\ ClosedMark \notin Thread /\ NULL # ClosedMark
  BY ChFacts, UseFacts DEF TypeInv, Types
<1>1. \A q \in Thread : pc[q] \in {"r_copy", "r_publish", "r_post"} => fr[q].adr \in Thread
  BY DEF TypeInv, PlaceInv, PlaceAt
<1>2. Moves(t)
  BY StepMoves DEF Step, push_unbuffered, try_push_impl
<1>3. \A u \in Thread : u # t => pc'[u] = pc[u] /\ fr'[u] = fr[u]
  BY <1>2 DEF Moves
<1> DEFINE n == ch.writesem + 1
<1>d. /\ pc[t] = "p_retract" /\ pc' = [pc EXCEPT ![t] = "p_adr"] /\ fr' = fr
      /\ ch' = [ch EXCEPT !.read_adr = NULL, !.writesem = n]
  BY DEF PushRetracts, At, Goto
<1> HIDE DEF n
<1>r. /\ ch'.read_adr = NULL /\ ch'.writesem = n /\ ch'.writesem_im = ch.writesem_im /\ ch'.adr_read = ch.adr_read /\ pc'[t] = "p_adr"
  BY <1>0, <1>d DEF ChType
<1>4. /\ pc[t] = "p_retract" /\ pc'[t] = "p_adr" /\ fr' = fr
      /\ ch'.read_adr = NULL /\ ch'.writesem = ch.writesem + 1 /\ ch'.writesem_im = ch.writesem_im /\ ch'.adr_read = ch.adr_read
  BY <1>d, <1>r DEF PushRetracts, n
<1>n. /\ Num(WriterTok)' = Num(WriterTok) - 1 /\ Num(WriterTok) \in Nat
  <2>1. /\ Num(WriterTok) \in Nat
        /\ Num(WriterTok)' = Num(WriterTok) + In(pc'[t], WriterTok) - In(pc[t], WriterTok)
    BY <1>2, NumMoves DEF Moves
  <2> QED
    BY <2>1, <1>4 DEF In, WriterTok, WriterSec
<1>5. ch'.writesem + Num(WriterTok)' = 1 /\ \A b \in Thread : pc[b] \in WriterTok => b = t
  BY <1>0, <1>4, <1>n, WriterAlone DEF WriterHand, WriterTok, WriterSec
<1>7. /\ ch.adr_read = NULL /\ ch.writesem_im = 0
      /\ \A q \in Thread : pc[q] \notin {"r_copy", "r_publish", "r_post"}
  BY <1>0 DEF WriterHand
<1>8. \A q \in Thread : pc'[q] \notin {"r_copy", "r_publish", "r_post"} /\ pc'[q] # "p_mine"
  BY <1>3, <1>4, <1>5, <1>7 DEF WriterSec, WriterTok
<1> QED
  BY <1>4, <1>5, <1>7, <1>8 DEF WriterHand

LEMMA WriterServed ==
  ASSUME TypeInv, TypeInv', WriterHand, NEW t \in Thread, Cap = 0, ch.adr_read = t, PushAwaits(t)
  PROVE  WriterHand'
<1>0. /\ WellTyped(t)
      /\ ch.read_adr \in Thread \cup {NULL} /\ ch.adr_read \in Thread \cup {NULL}
      /\ ch.writesem \in Nat /\ ch.writesem_im \in Nat
      /\ NULL \notin Thread /\ ClosedMark \notin Thread /\ NULL # ClosedMark
  BY ChFacts, UseFacts DEF TypeInv, Types
<1>1. \A q \in Thread : pc[q] \in {"r_copy", "r_publish", "r_post"} => fr[q].adr \in Thread
  BY DEF TypeInv, PlaceInv, PlaceAt
<1>2. Moves(t)
  BY StepMoves DEF Step, push_unbuffered, try_push_impl
<1>3. \A u \in Thread : u # t => pc'[u] = pc[u] /\ fr'[u] = fr[u]
  BY <1>2 DEF Moves
<1>4. /\ pc[t] = "p_await" /\ pc'[t] = "p_im" /\ fr'[t].have_swapped
      /\ ch'.adr_read = NULL /\ ch'.writesem = ch.writesem /\ ch'.writesem_im = ch.writesem_im /\ ch'.read_adr = ch.read_adr
  BY <1>0 DEF PushAwaits, At, Goto, ChType, FrameType, selVars
<1>n. /\ Num(WriterTok)' = Num(WriterTok) /\ Num(WriterTok) \in Nat
  <2>1. /\ Num(WriterTok) \in Nat
        /\ Num(WriterTok)' = Num(WriterTok) + In(pc'[t], WriterTok) - In(pc[t], WriterTok)
    BY <1>2, NumMoves DEF Moves
  <2> QED
    BY <2>1, <1>4 DEF In, WriterTok, WriterSec
<1>5. /\ ch.writesem + Num(WriterTok) = 1 /\ \A b \in Thread : pc[b] \in WriterTok => b = t
      /\ \A q \in Thread : pc[q] \in {"r_copy", "r_publish", "r_post"} => fr[q].adr = t
  BY <1>4, WriterAlone DEF WriterHand, WriterTok, WriterSec
<1>6. ch.read_adr = NULL /\ ch.writesem_im \in {0, 1}
  BY <1>0 DEF WriterHand
<1>7. \A q \in Thread : pc'[q] \in {"r_copy", "r_publish", "r_post"} =>
        /\ q # t /\ pc[q] = pc'[q] /\ fr'[q].adr = t
        /\ ch.writesem_im = 0 /\ pc[q] = "r_post"
        /\ \A p \in Thread : pc[p] \in {"r_copy", "r_publish", "r_post"} => p = q
  BY <1>0, <1>3, <1>4, <1>5 DEF WriterHand
<1>8. \A q \in Thread : pc'[q] # "p_mine"
  BY <1>3, <1>4, <1>5 DEF WriterSec, WriterTok
<1>9. \A q \in Thread : pc'[q] \in {"r_copy", "r_publish", "r_post"} =>
       /\ pc'[fr'[q].adr] \in WriterSec \ {"p_mine"}
       /\ ch'.writesem_im = 0
       /\ \A p \in Thread : pc'[p] \in {"r_copy", "r_publish", "r_post"} => p = q
       /\ pc'[q] = "r_post" /\ fr'[fr'[q].adr].have_swapped
  BY <1>3, <1>4, <1>7 DEF WriterSec
<1> QED
  BY <1>4, <1>5, <1>6, <1>8, <1>9, <1>n DEF WriterHand, WriterSec

LEMMA WriterImSem ==
  ASSUME TypeInv, TypeInv', WriterHand, NEW t \in Thread, Cap = 0, PushImSem(t)
  PROVE  WriterHand'
<1>0. /\ WellTyped(t)
      /\ ch.read_adr \in Thread \cup {NULL} /\ ch.adr_read \in Thread \cup {NULL}
      /\ ch.writesem \in Nat /\ ch.writesem_im \in Nat
      /\ NULL \notin Thread /\ ClosedMark \notin Thread /\ NULL # ClosedMark
  BY ChFacts, UseFacts DEF TypeInv, Types
<1>1. \A q \in Thread : pc[q] \in {"r_copy", "r_publish", "r_post"} => fr[q].adr \in Thread
  BY DEF TypeInv, PlaceInv, PlaceAt
<1>2. Moves(t)
  BY StepMoves DEF Step, push_unbuffered, try_push_impl
<1>3. \A u \in Thread : u # t => pc'[u] = pc[u] /\ fr'[u] = fr[u]
  BY <1>2 DEF Moves
<1>4. /\ pc[t] = "p_im" /\ pc'[t] = "p_mine" /\ fr' = fr /\ ch.writesem_im > 0
      /\ ch'.writesem_im = ch.writesem_im - 1 /\ ch'.writesem = ch.writesem /\ ch'.adr_read = ch.adr_read /\ ch'.read_adr = ch.read_adr
  BY <1>0 DEF PushImSem, At, Goto, ChType, FrameType, selVars
<1>n. /\ Num(WriterTok)' = Num(WriterTok) /\ Num(WriterTok) \in Nat
  <2>1. /\ Num(WriterTok) \in Nat
        /\ Num(WriterTok)' = Num(WriterTok) + In(pc'[t], WriterTok) - In(pc[t], WriterTok)
    BY <1>2, NumMoves DEF Moves
  <2> QED
    BY <2>1, <1>4 DEF In, WriterTok, WriterSec
<1>5. /\ ch.writesem + Num(WriterTok) = 1 /\ \A b \in Thread : pc[b] \in WriterTok => b = t
      /\ ch.adr_read \in {NULL, t}
  BY <1>4, WriterAlone DEF WriterHand, WriterTok, WriterSec
<1>6. /\ ch.read_adr = NULL /\ ch.writesem_im = 1
      /\ \A q \in Thread : pc[q] \notin {"r_copy", "r_publish", "r_post"}
  BY <1>0, <1>4 DEF WriterHand
<1>7. ch.adr_read = t \/ fr[t].have_swapped
  BY <1>5, <1>6 DEF WriterHand, WriterTok
<1>8. /\ \A q \in Thread : pc'[q] \notin {"r_copy", "r_publish", "r_post"}
      /\ \A q \in Thread : pc'[q] = "p_mine" => q = t
  BY <1>3, <1>4, <1>5, <1>6 DEF WriterSec, WriterTok
<1>9. ch'.writesem_im = 0 /\ ch'.read_adr = NULL
  BY <1>4, <1>6
<1>10. ch.adr_read # NULL => ch.adr_read = t /\ t # ClosedMark /\ ~fr[t].have_swapped
  BY <1>0, <1>5 DEF WriterHand
<1> QED
  BY <1>4, <1>5, <1>7, <1>8, <1>9, <1>10, <1>n DEF WriterHand, WriterSec

LEMMA WriterMine ==
  ASSUME TypeInv, TypeInv', WriterHand, NEW t \in Thread, Cap = 0, PushIsMine(t)
  PROVE  WriterHand'
<1>0. /\ WellTyped(t)
      /\ ch.read_adr \in Thread \cup {NULL} /\ ch.adr_read \in Thread \cup {NULL}
      /\ ch.writesem \in Nat /\ ch.writesem_im \in Nat
      /\ NULL \notin Thread /\ ClosedMark \notin Thread /\ NULL # ClosedMark
  BY ChFacts, UseFacts DEF TypeInv, Types
<1>1. \A q \in Thread : pc[q] \in {"r_copy", "r_publish", "r_post"} => fr[q].adr \in Thread
  BY DEF TypeInv, PlaceInv, PlaceAt
<1>2. Moves(t)
  BY StepMoves DEF Step, push_unbuffered, try_push_impl
<1>3. \A u \in Thread : u # t => pc'[u] = pc[u] /\ fr'[u] = fr[u]
  BY <1>2 DEF Moves
<1>a. /\ pc[t] = "p_mine" /\ ch.writesem_im = 0 /\ (ch.adr_read = t \/ fr[t].have_swapped)
      /\ ch.adr_read \in {NULL, t} /\ \A b \in Thread : pc[b] \in WriterTok => b = t
      /\ (fr[t].have_swapped => ch.adr_read = NULL)
  <2>1. pc[t] = "p_mine"
    BY DEF PushIsMine, At
  <2>2. ch.adr_read \in {NULL, t} /\ \A b \in Thread : pc[b] \in WriterTok => b = t
    BY <2>1, WriterAlone DEF WriterTok, WriterSec
  <2> QED
    BY <1>0, <2>1, <2>2 DEF WriterHand
<1> DEFINE n == ch.writesem + 1
<1>d. ch' = [ch EXCEPT !.adr_read = NULL, !.writesem = n] /\ Return(t, "success")
  <2>1. fr[t].have_swapped => ch' = [ch EXCEPT !.writesem = n] /\ ch.adr_read = NULL
    BY <1>a DEF PushIsMine
  <2>2. ~fr[t].have_swapped => ch' = [[ch EXCEPT !.adr_read = NULL] EXCEPT !.writesem = n]
    BY <1>0, <1>a DEF PushIsMine, Collect, ChType
  <2>3. Return(t, "success")
    BY <1>a DEF PushIsMine
  <2> HIDE DEF n
  <2>4. ch' = [ch EXCEPT !.adr_read = NULL, !.writesem = n]
    <3>1. CASE fr[t].have_swapped
      <4>1. ch = [ch EXCEPT !.adr_read = NULL]
        BY <1>0, <2>1, <3>1 DEF ChType
      <4>2. ch' = [[ch EXCEPT !.adr_read = NULL] EXCEPT !.writesem = n]
        BY <2>1, <3>1, <4>1
      <4> QED
        BY <4>2
    <3>2. CASE ~fr[t].have_swapped
      BY <2>2, <3>2
    <3> QED
      BY <3>1, <3>2
  <2> QED
    BY <2>3, <2>4
<1> HIDE DEF n
<1>r. /\ ch'.adr_read = NULL /\ ch'.writesem = n /\ ch'.writesem_im = ch.writesem_im /\ ch'.read_adr = ch.read_adr
      /\ pc'[t] \in {"sel_result", "idle"}
  BY <1>0, <1>d, BackFacts DEF ChType
<1>4. /\ pc[t] = "p_mine" /\ pc'[t] \in {"sel_result", "idle"}
      /\ ch'.writesem = ch.writesem + 1 /\ ch'.adr_read = NULL /\ ch'.writesem_im = ch.writesem_im /\ ch'.read_adr = ch.read_adr
  BY <1>a, <1>r DEF PushIsMine, n
<1>n. /\ Num(WriterTok)' = Num(WriterTok) - 1 /\ Num(WriterTok) \in Nat
  <2>1. /\ Num(WriterTok) \in Nat
        /\ Num(WriterTok)' = Num(WriterTok) + In(pc'[t], WriterTok) - In(pc[t], WriterTok)
    BY <1>2, NumMoves DEF Moves
  <2> QED
    BY <2>1, <1>4 DEF In, WriterTok, WriterSec
<1>5. ch'.writesem + Num(WriterTok)' = 1
  BY <1>0, <1>4, <1>n DEF WriterHand
<1>6. ch.read_adr = NULL /\ \A q \in Thread : pc[q] \notin {"r_copy", "r_publish", "r_post"}
  BY <1>0, <1>1, <1>a DEF WriterHand, WriterTok
<1>8. \A q \in Thread : pc'[q] \notin {"r_copy", "r_publish", "r_post"} /\ pc'[q] # "p_mine"
  BY <1>3, <1>4, <1>6, <1>a DEF WriterSec, WriterTok
<1> QED
  BY <1>4, <1>5, <1>6, <1>8, <1>a DEF WriterHand


(* A closed channel stays closed. *)
LEMMA ClosedStays ==
  ASSUME TypeInv, NEW t \in Thread, Begin(t) \/ Step(t), ch.closed
  PROVE  ch'.closed
<1>0. ch \in ChType
  BY DEF TypeInv, Types
<1>1. CASE Begin(t)
  BY <1>1, BeginFacts
<1>2. CASE ToSelectLock(t)
  BY <1>0, <1>2 DEF ToSelectLock, ChType, selVars
<1>3. CASE ToSelectEnd(t)
  BY <1>0, <1>3 DEF ToSelectEnd, ChType, selVars
<1>4. CASE ToSelectClaim(t)
  BY <1>0, <1>4 DEF ToSelectClaim, ChType, selVars
<1>5. CASE ToSelectCopy(t)
  BY <1>0, <1>5 DEF ToSelectCopy, ChType, selVars
<1>6. CASE ToSelectPost(t)
  BY <1>0, <1>6 DEF ToSelectPost, ChType, selVars
<1>7. CASE PushStart(t)
  BY <1>0, <1>7 DEF PushStart, ChType, selVars
<1>8. CASE PushTakes(t)
  BY <1>0, <1>8 DEF PushTakes, ChType, selVars
<1>9. CASE PushCopies(t)
  BY <1>0, <1>9 DEF PushCopies, ChType, selVars
<1>10. CASE PushPublishes(t)
  BY <1>0, <1>10 DEF PushPublishes, ChType, selVars
<1>11. CASE PushPosts(t)
  BY <1>0, <1>11 DEF PushPosts, ChType, selVars
<1>12. CASE PushNoReader(t)
  BY <1>0, <1>12 DEF PushNoReader, ChType, selVars
<1>13. CASE PushToken(t)
  BY <1>0, <1>13 DEF PushToken, ChType, selVars
<1>14. CASE PushNoToken(t)
  BY <1>0, <1>14 DEF PushNoToken, ChType, selVars
<1>15. CASE PushAfterToken(t)
  BY <1>0, <1>15 DEF PushAfterToken, ChType, selVars
<1>16. CASE PushAdvertises(t)
  BY <1>0, <1>16 DEF PushAdvertises, ChType, selVars
<1>17. CASE PushChecks(t)
  BY <1>0, <1>17 DEF PushChecks, ChType, selVars
<1>18. CASE PushRetracts(t)
  BY <1>0, <1>18 DEF PushRetracts, ChType, selVars
<1>19. CASE PushNotifies(t)
  BY <1>0, <1>19 DEF PushNotifies, ChType, selVars
<1>20. CASE PushAwaits(t)
  BY <1>0, <1>20 DEF PushAwaits, ChType, selVars
<1>21. CASE PushImSem(t)
  BY <1>0, <1>21 DEF PushImSem, ChType, selVars
<1>22. CASE PushIsMine(t)
  BY <1>0, <1>22 DEF PushIsMine, ChType, selVars, Collect
<1>23. CASE PushReserves(t)
  BY <1>0, <1>23 DEF PushReserves, ChType, selVars
<1>24. CASE PushIndex(t)
  BY <1>0, <1>24 DEF PushIndex, ChType, selVars
<1>25. CASE PushEntersSlot(t)
  BY <1>0, <1>25 DEF PushEntersSlot, ChType, selVars
<1>26. CASE PushStores(t)
  BY <1>0, <1>26 DEF PushStores, ChType, selVars
<1>27. CASE PushAvail(t)
  BY <1>0, <1>27 DEF PushAvail, ChType, selVars
<1>28. CASE PushReadsem(t)
  BY <1>0, <1>28 DEF PushReadsem, ChType, selVars
<1>29. CASE PushSubscriber(t)
  BY <1>0, <1>29 DEF PushSubscriber, ChType, selVars
<1>30. CASE PopStart(t)
  BY <1>0, <1>30 DEF PopStart, ChType, selVars
<1>31. CASE PopTakes(t)
  BY <1>0, <1>31 DEF PopTakes, ChType, selVars
<1>32. CASE PopCopies(t)
  BY <1>0, <1>32 DEF PopCopies, ChType, selVars
<1>33. CASE PopPublishes(t)
  BY <1>0, <1>33 DEF PopPublishes, ChType, selVars
<1>34. CASE PopPosts(t)
  BY <1>0, <1>34 DEF PopPosts, ChType, selVars
<1>35. CASE PopNoWriter(t)
  BY <1>0, <1>35 DEF PopNoWriter, ChType, selVars
<1>36. CASE PopToken(t)
  BY <1>0, <1>36 DEF PopToken, ChType, selVars
<1>37. CASE PopNoToken(t)
  BY <1>0, <1>37 DEF PopNoToken, ChType, selVars
<1>38. CASE PopLooksClosed(t)
  BY <1>0, <1>38 DEF PopLooksClosed, ChType, selVars
<1>39. CASE PopClaims(t)
  BY <1>0, <1>39 DEF PopClaims, ChType, selVars
<1>40. CASE PopIndex(t)
  BY <1>0, <1>40 DEF PopIndex, ChType, selVars
<1>41. CASE PopEntersSlot(t)
  BY <1>0, <1>41 DEF PopEntersSlot, ChType, selVars
<1>42. CASE PopLoads(t)
  BY <1>0, <1>42 DEF PopLoads, ChType, selVars
<1>43. CASE PopFrees(t)
  BY <1>0, <1>43 DEF PopFrees, ChType, selVars
<1>44. CASE PopWritesem(t)
  BY <1>0, <1>44 DEF PopWritesem, ChType, selVars
<1>45. CASE PopSubscriber(t)
  BY <1>0, <1>45 DEF PopSubscriber, ChType, selVars
<1>46. CASE PopAdvertises(t)
  BY <1>0, <1>46 DEF PopAdvertises, ChType, selVars
<1>47. CASE PopChecks(t)
  BY <1>0, <1>47 DEF PopChecks, ChType, selVars
<1>48. CASE PopRetracts(t)
  BY <1>0, <1>48 DEF PopRetracts, ChType, selVars
<1>49. CASE PopNotifies(t)
  BY <1>0, <1>49 DEF PopNotifies, ChType, selVars
<1>50. CASE PopAwaits(t)
  BY <1>0, <1>50 DEF PopAwaits, ChType, selVars
<1>51. CASE PopImSem(t)
  BY <1>0, <1>51 DEF PopImSem, ChType, selVars
<1>52. CASE PopIsMine(t)
  BY <1>0, <1>52 DEF PopIsMine, ChType, selVars
<1>53. CASE CloseClaims(t)
  BY <1>0, <1>53 DEF CloseClaims, ChType, selVars
<1>54. CASE CloseWaits(t)
  BY <1>0, <1>54 DEF CloseWaits, ChType, selVars
<1>55. CASE CloseSets(t)
  BY <1>0, <1>55 DEF CloseSets, ChType, selVars
<1>56. CASE CloseMarks(t)
  BY <1>0, <1>56 DEF CloseMarks, ChType, selVars
<1>57. CASE ClosePostsReaders(t)
  BY <1>0, <1>57 DEF ClosePostsReaders, ChType, selVars
<1>58. CASE ClosePostsReadSub(t)
  BY <1>0, <1>58 DEF ClosePostsReadSub, ChType, selVars
<1>59. CASE ClosePostsWriteSub(t)
  BY <1>0, <1>59 DEF ClosePostsWriteSub, ChType, selVars
<1>60. CASE ClosePostsWriters(t)
  BY <1>0, <1>60 DEF ClosePostsWriters, ChType, selVars
<1>61. CASE CloseUnadvertises(t)
  BY <1>0, <1>61 DEF CloseUnadvertises, ChType, selVars
<1>62. CASE CloseEnds(t)
  BY <1>0, <1>62 DEF CloseEnds, ChType, selVars
<1>63. CASE SelSubscribes(t)
  BY <1>0, <1>63 DEF SelSubscribes, ChType, selVars
<1>64. CASE SelResult(t)
  BY <1>0, <1>64 DEF SelResult, ChType, selVars
<1>65. CASE RecheckLock(t)
  BY <1>0, <1>65 DEF RecheckLock, ChType, selVars
<1>66. CASE RecheckPeer(t)
  BY <1>0, <1>66 DEF RecheckPeer, ChType, selVars
<1>67. CASE RecheckEnds(t)
  BY <1>0, <1>67 DEF RecheckEnds, ChType, selVars
<1>68. CASE SelRescans(t)
  BY <1>0, <1>68 DEF SelRescans, ChType, selVars
<1>69. CASE SelWakes(t)
  BY <1>0, <1>69 DEF SelWakes, ChType, selVars
<1>70. CASE SelOutOfTime(t)
  BY <1>0, <1>70 DEF SelOutOfTime, ChType, selVars
<1>71. CASE SelWoken(t)
  BY <1>0, <1>71 DEF SelWoken, ChType, selVars
<1>72. CASE SelServed(t)
  BY <1>0, <1>72 DEF SelServed, ChType, selVars
<1>73. CASE SelLeaves(t)
  BY <1>0, <1>73 DEF SelLeaves, ChType, selVars
<1> QED
  BY <1>1, <1>2, <1>3, <1>4, <1>5, <1>6, <1>7, <1>8, <1>9, <1>10, <1>11, <1>12, <1>13, <1>14, <1>15, <1>16, <1>17, <1>18, <1>19, <1>20, <1>21, <1>22, <1>23, <1>24, <1>25, <1>26, <1>27, <1>28, <1>29, <1>30, <1>31, <1>32, <1>33, <1>34, <1>35, <1>36, <1>37, <1>38, <1>39, <1>40, <1>41, <1>42, <1>43, <1>44, <1>45, <1>46, <1>47, <1>48, <1>49, <1>50, <1>51, <1>52, <1>53, <1>54, <1>55, <1>56, <1>57, <1>58, <1>59, <1>60, <1>61, <1>62, <1>63, <1>64, <1>65, <1>66, <1>67, <1>68, <1>69, <1>70, <1>71, <1>72, <1>73
     DEF Step, to_select, try_push_impl, push_unbuffered, push_buffered, try_pop_impl, pop_buffered,
         pop_waits, close, channel_select

(* A reader that did not get its address back, or whose time to spin is over. *)
LEMMA ReaderRest ==
  ASSUME TypeInv, ReaderHand, NEW t \in Thread, Cap = 0,
         (PopRetracts(t) /\ ch.write_adr # t) \/ (PopAwaits(t) /\ ch.adr_written # t)
  PROVE  ReaderQuiet(t)
<1>0. /\ WellTyped(t)
      /\ NULL # ClosedMark
  BY UseFacts DEF TypeInv, Types
<1>1. CASE PopRetracts(t) /\ ch.write_adr # t
  BY <1>0, <1>1 DEF PopRetracts, At, Goto, ChType, FrameType, ReaderQuiet, ReaderTok, ReaderSec
<1>2. CASE PopAwaits(t) /\ ch.adr_written # t
  <2>1. ch.adr_written # ClosedMark
    BY <1>0 DEF ReaderHand
  <2> QED
    BY <1>0, <1>2, <2>1 DEF PopAwaits, At, Goto, ChType, FrameType, ReaderQuiet, ReaderTok, ReaderSec
<1> QED
  BY <1>1, <1>2

LEMMA ReaderHandSteps ==
  ASSUME TypeInv, TypeInv', ReaderHand, NEW t \in Thread, Begin(t) \/ Step(t),
         Cap = 0, ~ch.closed, ~ch'.closed
  PROVE  ReaderHand'
<1>0. Moves(t)
  BY StepMoves
<1>1. CASE PushTakes(t)
  BY <1>1, ReaderTaken
<1>2. CASE PushPublishes(t)
  BY <1>2, ReaderPublished
<1>3. CASE PushPosts(t)
  BY <1>3, ReaderPosted
<1>4. CASE PopToken(t)
  BY <1>4, ReaderToken
<1>5. CASE PopAdvertises(t)
  BY <1>5, ReaderAdvertised
<1>6. CASE PopRetracts(t)
  <2>1. CASE ch.write_adr = t
    BY <1>6, <2>1, ReaderRetracted
  <2>2. CASE ch.write_adr # t
    <3>1. ReaderQuiet(t)
      BY <1>6, <2>2, ReaderRest
    <3> QED
      BY <1>0, <3>1, ReaderKept
  <2> QED
    BY <2>1, <2>2
<1>7. CASE PopAwaits(t)
  BY <1>0, <1>7, ReaderServed, ReaderRest, ReaderKept
<1>8. CASE PopImSem(t)
  BY <1>8, ReaderImSem
<1>9. CASE PopIsMine(t)
  BY <1>9, ReaderMine
<1> QED
  BY <1>0, <1>1, <1>2, <1>3, <1>4, <1>5, <1>6, <1>7, <1>8, <1>9, ReaderQuietSteps, ReaderKept


(* A writer that did not get its address back, or whose time to spin is over. *)
LEMMA WriterRest ==
  ASSUME TypeInv, WriterHand, NEW t \in Thread, Cap = 0,
         (PushRetracts(t) /\ ch.read_adr # t) \/ (PushAwaits(t) /\ ch.adr_read # t)
  PROVE  WriterQuiet(t)
<1>0. /\ WellTyped(t)
      /\ NULL # ClosedMark
  BY UseFacts DEF TypeInv, Types
<1>1. CASE PushRetracts(t) /\ ch.read_adr # t
  BY <1>0, <1>1 DEF PushRetracts, At, Goto, ChType, FrameType, WriterQuiet, WriterTok, WriterSec
<1>2. CASE PushAwaits(t) /\ ch.adr_read # t
  BY <1>0, <1>2 DEF PushAwaits, At, Goto, ChType, FrameType, WriterQuiet, WriterTok, WriterSec
<1> QED
  BY <1>1, <1>2

LEMMA WriterHandSteps ==
  ASSUME TypeInv, TypeInv', WriterHand, NEW t \in Thread, Begin(t) \/ Step(t),
         Cap = 0, ~ch.closed, ~ch'.closed
  PROVE  WriterHand'
<1>0. Moves(t)
  BY StepMoves
<1>1. CASE PopTakes(t)
  BY <1>1, WriterTaken
<1>2. CASE PopPublishes(t)
  BY <1>2, WriterPublished
<1>3. CASE PopPosts(t)
  BY <1>3, WriterPosted
<1>4. CASE PushToken(t)
  BY <1>4, WriterToken
<1>5. CASE PushAdvertises(t)
  BY <1>5, WriterAdvertised
<1>6. CASE PushRetracts(t)
  <2>1. CASE ch.read_adr = t
    BY <1>6, <2>1, WriterRetracted
  <2>2. CASE ch.read_adr # t
    <3>1. WriterQuiet(t)
      BY <1>6, <2>2, WriterRest
    <3> QED
      BY <1>0, <3>1, WriterKept
  <2> QED
    BY <2>1, <2>2
<1>7. CASE PushAwaits(t)
  BY <1>0, <1>7, WriterServed, WriterRest, WriterKept
<1>8. CASE PushImSem(t)
  BY <1>8, WriterImSem
<1>9. CASE PushIsMine(t)
  BY <1>9, WriterMine
<1> QED
  BY <1>0, <1>1, <1>2, <1>3, <1>4, <1>5, <1>6, <1>7, <1>8, <1>9, WriterQuietSteps, WriterKept


LEMMA HandInit ==
  ASSUME Init
  PROVE  HandInv
<1>2. ASSUME NEW L, "idle" \notin L PROVE Num(L) = 0
  <2>1. {t \in Thread : pc[t] \in L} = {}
    BY <1>2 DEF Init
  <2> QED
    BY <2>1, FS_EmptySet DEF Num, Count
<1>3. Num(ReaderTok) = 0 /\ Num(WriterTok) = 0
  BY <1>2 DEF ReaderTok, WriterTok, ReaderSec, WriterSec
<1>4. Cap = 0 => ReaderHand
  BY <1>3 DEF Init, ReaderHand, NULL
<1>5. Cap = 0 => WriterHand
  BY <1>3 DEF Init, WriterHand, NULL
<1> QED
  BY <1>4, <1>5 DEF HandInv

LEMMA HandSteps ==
  ASSUME TypeInv, TypeInv', HandInv, [Next]_vars
  PROVE  HandInv'
<1>1. CASE UNCHANGED vars
  BY <1>1 DEF vars, HandInv, ReaderHand, WriterHand, Num, Count, Cap
<1>2. ASSUME use' = use, NEW t \in Thread, Begin(t) \/ Step(t), Cap' = 0, ~ch'.closed
      PROVE  ReaderHand' /\ WriterHand'
  <2>1. ~ch.closed /\ Cap = 0
    BY <1>2, ClosedStays DEF Cap
  <2>2. ReaderHand /\ WriterHand
    BY <2>1 DEF HandInv
  <2> QED
    BY <1>2, <2>1, <2>2, ReaderHandSteps, WriterHandSteps
<1> QED
  BY <1>1, <1>2 DEF Next, HandInv


-----------------------------------------------------------------------------
(* The ring *)

(* Slots of tickets. *)
LEMMA SlotFacts ==
  ASSUME Cap \in Nat, Cap > 0
  PROVE  /\ \A k \in Nat \ {0} : SlotOf(k) \in Slot
         /\ \A i, j \in Nat \ {0} : SlotOf(i) = SlotOf(j) /\ i < j + Cap /\ j < i + Cap => i = j
         /\ \A n \in Nat : ((n % Cap) + 1) % Cap = (n + 1) % Cap /\ SlotOf(n + 1) = n % Cap
<1>0. Cap \in Nat \ {0}
  OBVIOUS
<1>1. ASSUME NEW k \in Nat \ {0} PROVE SlotOf(k) \in Slot
  <2>1. (k - 1) % Cap \in 0 .. (Cap - 1)
    BY <1>0, DivMod
  <2> QED
    BY <2>1 DEF SlotOf, Slot
<1>2. ASSUME NEW i \in Nat \ {0}, NEW j \in Nat \ {0}, SlotOf(i) = SlotOf(j), i < j + Cap, j < i + Cap
      PROVE  i = j
  <2>1. /\ (i - 1) % Cap = (j - 1) % Cap /\ i - 1 \in Int /\ j - 1 \in Int
        /\ i - 1 < (j - 1) + Cap /\ j - 1 < (i - 1) + Cap
    BY <1>0, <1>2 DEF SlotOf
  <2>2. i - 1 = j - 1
    BY <1>0, <2>1, ModClose
  <2> QED
    BY <2>2
<1>3. ASSUME NEW n \in Nat PROVE ((n % Cap) + 1) % Cap = (n + 1) % Cap /\ SlotOf(n + 1) = n % Cap
  <2> DEFINE e == n \div Cap
             r == n % Cap
  <2>1. e \in Int /\ r \in 0 .. (Cap - 1) /\ n = Cap * e + r
    BY <1>0, DivMod
  <2> HIDE DEF e, r
  <2>2. ((r + 1) + Cap * e) % Cap = (r + 1) % Cap
    BY <1>0, <2>1, ModShift
  <2>3. (r + 1) + Cap * e = n + 1
    BY <1>0, <2>1
  <2>4. SlotOf(n + 1) = n % Cap
    <3>1. (n + 1) - 1 = n
      OBVIOUS
    <3> QED
      BY <3>1 DEF SlotOf
  <2> QED
    BY <2>2, <2>3, <2>4 DEF r
<1> QED
  BY <1>1, <1>2, <1>3

(* How the tickets and the counters of the ring belong together. *)
LEMMA RingNumbers ==
  ASSUME TypeInv, CountInv, TicketInv, Cap > 0
  PROVE  /\ Puts \in Nat /\ Takes \in Nat /\ Cap \in Nat /\ ch.read_avail \in Nat /\ ch.write_free \in Nat
         /\ Num({"r_idx"}) \in Nat /\ Num({"p_idx"}) \in Nat /\ Num(Reading) \in Nat /\ Num({"r_free"}) \in Nat
         /\ Num(Writing \cup {"p_avail"}) \in Nat /\ Num(Filling) \in Nat /\ Num(Draining) \in Nat
         /\ Num(Filling) = Num({"p_idx"}) + Num(Writing \cup {"p_avail"})
         /\ Num(Draining) = Num({"r_idx"}) + Num(Reading) + Num({"r_free"})
         /\ ch.write_free + Num(Filling) + ch.read_avail + Num(Draining) = Cap
         /\ Puts = Takes + Num({"r_idx"}) + ch.read_avail + Num(Writing \cup {"p_avail"})
         /\ Puts + Num({"p_idx"}) + ch.write_free + Num(Reading) + Num({"r_free"}) = Takes + Cap
<1>0. pc \in [Thread -> Labels] /\ Cap \in Nat /\ hist \in HistType /\ use \in Uses
  BY UseFacts DEF TypeInv, Types
<1>1. ch.read_avail \in Nat /\ ch.write_free \in Nat
  BY ChFacts DEF TypeInv, Types
<1>2. Puts \in Nat /\ Takes \in Nat /\ hist.claims \in Nat
  BY <1>0 DEF Puts, Takes, HistType
<1>3. \A L : Num(L) \in Nat
  <2> SUFFICES ASSUME NEW L PROVE Num(L) \in Nat
    OBVIOUS
  <2>1. IsFiniteSet({u \in Thread : pc[u] \in L})
    BY SyncChanAssumption, FS_Subset
  <2> QED
    BY <2>1, FS_CardinalityType DEF Num, Count
<1>4. ASSUME NEW L, NEW M, L \cap M = {}
      PROVE  Num(L \cup M) = Num(L) + Num(M)
  <2> DEFINE S == {u \in Thread : pc[u] \in L}
             T == {u \in Thread : pc[u] \in M}
  <2>1. IsFiniteSet(S) /\ IsFiniteSet(T)
    BY SyncChanAssumption, FS_Subset
  <2>2. S \cap T = {} /\ {u \in Thread : pc[u] \in L \cup M} = S \cup T
    BY <1>4
  <2>3. Cardinality(S \cup T) = Cardinality(S) + Cardinality(T) - Cardinality(S \cap T)
    BY <2>1, FS_Union
  <2>4. Cardinality(S) \in Nat /\ Cardinality(T) \in Nat /\ Cardinality(S \cap T) = 0
    BY <2>1, <2>2, FS_CardinalityType, FS_EmptySet
  <2>5. Num(L) = Cardinality(S) /\ Num(M) = Cardinality(T)
    BY DEF Num, Count
  <2>6. Num(L \cup M) = Cardinality(S \cup T)
    BY <2>2 DEF Num, Count
  <2> HIDE DEF S, T
  <2> QED
    BY <2>3, <2>4, <2>5, <2>6
<1>5. Num(Filling) = Num({"p_idx"}) + Num(Writing \cup {"p_avail"})
  <2>1. Filling = {"p_idx"} \cup (Writing \cup {"p_avail"}) /\ {"p_idx"} \cap (Writing \cup {"p_avail"}) = {}
    BY DEF Filling, Writing
  <2> QED
    BY <1>4, <2>1
<1>6. Num(Draining) = Num({"r_idx"}) + Num(Reading) + Num({"r_free"})
  <2>1. Draining = ({"r_idx"} \cup Reading) \cup {"r_free"} /\ ({"r_idx"} \cup Reading) \cap {"r_free"} = {}
    BY DEF Draining, Reading
  <2>2. {"r_idx"} \cap Reading = {}
    BY DEF Reading
  <2>3. Num({"r_idx"} \cup Reading) = Num({"r_idx"}) + Num(Reading)
    BY <1>4, <2>2
  <2>4. Num(({"r_idx"} \cup Reading) \cup {"r_free"}) = Num({"r_idx"} \cup Reading) + Num({"r_free"})
    BY <1>4, <2>1
  <2> QED
    BY <2>1, <2>3, <2>4
<1> DEFINE ri == Num({"r_idx"})
           pi == Num({"p_idx"})
           rd == Num(Reading)
           rf == Num({"r_free"})
           wr == Num(Writing \cup {"p_avail"})
           fi == Num(Filling)
           dr == Num(Draining)
           av == ch.read_avail
           wf == ch.write_free
           p == Puts
           k == Takes
           c == Cap
<1>7. /\ ri \in Nat /\ pi \in Nat /\ rd \in Nat /\ rf \in Nat /\ wr \in Nat /\ fi \in Nat /\ dr \in Nat
      /\ av \in Nat /\ wf \in Nat /\ p \in Nat /\ k \in Nat /\ c \in Nat
      /\ fi = pi + wr /\ dr = ri + rd + rf
  BY <1>0, <1>1, <1>2, <1>3, <1>5, <1>6
<1>8. wf + fi + av + dr = c
  BY DEF CountInv, RingCount
<1>9. p = k + ri + av + wr
  BY <1>1, <1>2, <1>3 DEF TicketInv
<1> HIDE DEF ri, pi, rd, rf, wr, fi, dr, av, wf, p, k, c
<1>10. p + pi + wf + rd + rf = k + c
  BY <1>7, <1>8, <1>9
<1> QED
  BY <1>7, <1>8, <1>9, <1>10 DEF ri, pi, rd, rf, wr, fi, dr, av, wf, p, k, c

-----------------------------------------------------------------------------
(* Steps that have nothing to do with tickets and slots *)

RingAt == {"r_idx", "p_avail"} \cup Writing \cup Reading

RingQuiet(t) ==
  /\ RingSame
  /\ HistoryKept
  /\ pc[t] \notin RingAt /\ pc'[t] \notin RingAt
  /\ \A u \in Thread : pc[u] \in Writing => obj'[u] = obj[u]

LEMMA RingKept ==
  ASSUME TypeInv, TypeInv', use' = use, NEW t \in Thread, Moves(t), RingQuiet(t), Cap > 0,
         TicketInv, AloneInv, InOrder(use) => SlotInv
  PROVE  TicketInv' /\ AloneInv' /\ (InOrder(use)' => SlotInv')
<1>0. /\ Cap' = Cap /\ Slot' = Slot /\ InOrder(use)' = InOrder(use)
      /\ Senders(use)' = Senders(use) /\ Receivers(use)' = Receivers(use)
  BY DEF Cap, Slot, InOrder, Senders, Receivers
<1>1. Puts' = Puts /\ Takes' = Takes
  BY DEF RingQuiet, Puts, Takes
<1>2. \A u \in Thread : /\ pc'[u] \in RingAt <=> pc[u] \in RingAt
                        /\ pc[u] \in RingAt => pc'[u] = pc[u] /\ fr'[u] = fr[u]
  BY DEF RingQuiet, Moves
<1>3. /\ \A u \in Thread : pc'[u] \in Writing <=> pc[u] \in Writing
      /\ \A u \in Thread : pc'[u] \in Reading <=> pc[u] \in Reading
      /\ \A u \in Thread : pc'[u] = "p_store" <=> pc[u] = "p_store"
      /\ \A u \in Thread : pc'[u] = "r_load" <=> pc[u] = "r_load"
      /\ \A u \in Thread : pc[u] \in Writing \cup Reading => fr'[u] = fr[u]
      /\ \A u \in Thread : pc[u] \in {"p_store", "r_load"} => fr'[u] = fr[u]
  BY <1>2 DEF RingAt, Writing, Reading
<1>4. \A k : (Unstored(k)' <=> Unstored(k)) /\ (Unloaded(k)' <=> Unloaded(k))
  BY <1>3 DEF Unstored, Unloaded
<1>5. \A k : Stored(k)' <=> Stored(k)
  BY <1>1, <1>4 DEF Stored
<1>6. \A k : SlotOf(k)' = SlotOf(k)
  BY <1>0 DEF SlotOf
<1>7. Num({"r_idx"})' = Num({"r_idx"}) /\ Num(Writing \cup {"p_avail"})' = Num(Writing \cup {"p_avail"})
  <2>1. /\ {u \in Thread : pc'[u] \in {"r_idx"}} = {u \in Thread : pc[u] \in {"r_idx"}}
        /\ {u \in Thread : pc'[u] \in Writing \cup {"p_avail"}} = {u \in Thread : pc[u] \in Writing \cup {"p_avail"}}
    BY <1>2 DEF RingAt, Writing, Reading
  <2> QED
    BY <2>1 DEF Num, Count
<1>8. TicketInv'
  BY <1>0, <1>1, <1>3, <1>6, <1>7 DEF TicketInv, RingQuiet
<1>9. AloneInv'
  BY <1>0, <1>1, <1>3 DEF AloneInv
<1>10. ASSUME InOrder(use) PROVE SlotInv'
  <2>0. SlotInv /\ ch'.statusbuf = ch.statusbuf /\ ch'.ringbuf = ch.ringbuf /\ hist'.order = hist.order
    BY <1>10 DEF RingQuiet
  <2>1. WritersNear' /\ ReadersNear'
    BY <1>0, <1>1, <1>3, <2>0 DEF SlotInv, WritersNear, ReadersNear
  <2>3. ReaderFirst'
    BY <1>0, <1>1, <1>3, <2>0 DEF SlotInv, ReaderFirst, Unstored
  <2>4. WriterFirst'
    BY <1>1, <1>3, <2>0 DEF SlotInv, WriterFirst, Unloaded
  <2>5. SlotHolds'
    BY <1>1, <1>5, <1>6, <2>0 DEF SlotInv, SlotHolds
  <2>6. StoreLock'
    BY <1>3, <2>0 DEF SlotInv, StoreLock
  <2>7. LoadLock'
    <3> SUFFICES ASSUME NEW u \in Thread, pc'[u] = "r_load"
                 PROVE  Stored(fr[u].ticket)' /\ ch'.statusbuf[fr'[u].adr] = "reading"
      BY DEF LoadLock
    <3>1. pc[u] = "r_load" /\ fr'[u] = fr[u]
      BY <1>3
    <3>2. Stored(fr[u].ticket) /\ ch.statusbuf[fr[u].adr] = "reading"
      BY <2>0, <3>1 DEF SlotInv, LoadLock
    <3>3. PICK k : k = fr[u].ticket
      OBVIOUS
    <3>4. Stored(k)'
      BY <1>5, <3>2, <3>3
    <3> QED
      BY <2>0, <3>1, <3>2, <3>3, <3>4 DEF Stored, Unstored, Unloaded
  <2>8. SlotFull'
    BY <1>0, <1>1, <1>5, <1>6, <2>0 DEF SlotInv, SlotFull
  <2> QED
    BY <2>1, <2>3, <2>4, <2>5, <2>6, <2>7, <2>8 DEF SlotInv
<1> QED
  BY <1>0, <1>8, <1>9, <1>10


-----------------------------------------------------------------------------
(* Tickets *)

(* Who sends and who receives. *)
LEMMA Parties ==
  ASSUME TypeInv, NEW t \in Thread
  PROVE  /\ pc[t] \in PushLabels => t \in Senders(use)
         /\ pc[t] \in PopLabels => t \in Receivers(use)
<1>1. PlaceAt(t, pc[t], fr[t])
  BY DEF TypeInv, PlaceInv
<1>2. "idle" \notin PushLabels \cup PopLabels
  BY DEF PushLabels, PopLabels, WriterSec, ReaderSec
<1> QED
  BY <1>1, <1>2 DEF PlaceAt, Senders, Receivers

LEMMA OnlyOne ==
  ASSUME NEW S \in SUBSET Thread, Cardinality(S) <= 1, NEW x \in S, NEW y \in S
  PROVE  x = y
<1>1. IsFiniteSet(S) /\ Cardinality(S) \in Nat
  BY SyncChanAssumption, FS_Subset, FS_CardinalityType
<1>2. IsFiniteSet(S \ {x}) /\ Cardinality(S \ {x}) = Cardinality(S) - 1
  BY <1>1, FS_RemoveElement
<1>3. Cardinality(S \ {x}) \in Nat
  BY <1>2, FS_CardinalityType
<1>4. Cardinality(S \ {x}) = 0
  BY <1>1, <1>2, <1>3
<1>5. S \ {x} = {}
  BY <1>2, <1>4, FS_EmptySet
<1> QED
  BY <1>5

(* What a step of t owes to the tickets. *)
TicketStep(t) ==
  /\ ch'.buf_elem_write_idx = Puts' % Cap /\ ch'.buf_elem_read_idx = Takes' % Cap
  /\ \/ Puts' = Puts
     \/ Puts' = Puts + 1 /\ pc[t] = "p_idx"
  /\ \/ Takes' = Takes
     \/ Takes' = Takes + 1 /\ pc[t] = "r_idx"
  /\ \A k \in 1 .. Puts : hist'.order[k] = hist.order[k]
  /\ hist'.claims + Takes + In(pc[t], {"r_idx"}) = hist.claims + Takes' + In(pc'[t], {"r_idx"})
  /\ hist'.claims + ch'.read_avail + In(pc'[t], Writing \cup {"p_avail"}) + Puts
       = hist.claims + ch.read_avail + In(pc[t], Writing \cup {"p_avail"}) + Puts'
  /\ pc'[t] \in Writing =>
       \/ pc[t] \in Writing /\ fr'[t] = fr[t]
       \/ /\ Puts' = Puts + 1 /\ fr'[t].ticket = Puts' /\ fr'[t].adr = SlotOf(Puts')
          /\ hist'.order[Puts'] = obj[t]
  /\ pc'[t] \in Reading =>
       \/ pc[t] \in Reading /\ fr'[t] = fr[t]
       \/ Takes' = Takes + 1 /\ fr'[t].ticket = Takes' /\ fr'[t].adr = SlotOf(Takes')
  /\ \A u \in Thread : pc'[u] \in Writing => obj'[u] = obj[u]

LEMMA TicketMove ==
  ASSUME TypeInv, TypeInv', TicketInv, AloneInv, use' = use, NEW t \in Thread, Cap > 0,
         Moves(t), TicketStep(t)
  PROVE  TicketInv' /\ AloneInv'
<1>0. /\ Cap' = Cap /\ \A k : SlotOf(k)' = SlotOf(k)
      /\ Senders(use)' = Senders(use) /\ Receivers(use)' = Receivers(use)
      /\ hist \in HistType /\ hist' \in HistType /\ ch \in ChType /\ ch' \in ChType'
      /\ Cap \in Nat
  BY UseFacts DEF TypeInv, Types, Cap, SlotOf, Senders, Receivers
<1>1. /\ Puts \in Nat /\ Puts' \in Nat /\ Takes \in Nat /\ Takes' \in Nat
      /\ hist.claims \in Nat /\ hist'.claims \in Nat /\ ch.read_avail \in Nat /\ ch'.read_avail \in Nat
  <2>1. hist.order \in Seq(Value) /\ hist'.order \in Seq(Value)
    BY <1>0 DEF HistType
  <2>2. /\ hist.tickets \in Nat /\ hist'.tickets \in Nat /\ hist.claims \in Nat /\ hist'.claims \in Nat
    BY <1>0 DEF HistType
  <2>3. ch.read_avail \in Nat /\ ch'.read_avail \in Nat
    BY <1>0 DEF ChType
  <2> QED
    BY <2>1, <2>2, <2>3, LenProperties DEF Puts, Takes
<1>2. \A u \in Thread : u # t => pc'[u] = pc[u] /\ fr'[u] = fr[u]
  BY DEF Moves
<1>3. Puts <= Puts' /\ Takes <= Takes'
  BY <1>1 DEF TicketStep
<1>4. hist'.claims = Takes' + Num({"r_idx"})'
  <2>1. /\ Num({"r_idx"}) \in Nat /\ Num({"r_idx"})' \in Nat
        /\ Num({"r_idx"})' = Num({"r_idx"}) + In(pc'[t], {"r_idx"}) - In(pc[t], {"r_idx"})
    BY NumMoves DEF Moves
  <2>2. In(pc'[t], {"r_idx"}) \in {0, 1} /\ In(pc[t], {"r_idx"}) \in {0, 1}
    BY DEF In
  <2>3. hist.claims = Takes + Num({"r_idx"})
    BY DEF TicketInv
  <2>4. hist'.claims + Takes + In(pc[t], {"r_idx"}) = hist.claims + Takes' + In(pc'[t], {"r_idx"})
    BY DEF TicketStep
  <2> QED
    BY <1>1, <2>1, <2>2, <2>3, <2>4
<1>5. hist'.claims + ch'.read_avail + Num(Writing \cup {"p_avail"})' = Puts'
  <2> DEFINE W == Writing \cup {"p_avail"}
             n == Num(W)
             m == Num(W)'
             i == In(pc[t], W)
             j == In(pc'[t], W)
             c == hist.claims
             d == hist'.claims
             a == ch.read_avail
             b == ch'.read_avail
             p == Puts
             q == Puts'
  <2>0. c \in Nat /\ d \in Nat /\ a \in Nat /\ b \in Nat /\ p \in Nat /\ q \in Nat
    BY <1>1
  <2>1. n \in Nat /\ m \in Nat /\ m = n + j - i
    BY NumMoves DEF Moves
  <2>2. i \in {0, 1} /\ j \in {0, 1}
    BY DEF In
  <2>3. c + a + n = p
    BY DEF TicketInv
  <2>4. d + b + j + p = c + a + i + q
    BY DEF TicketStep
  <2> HIDE DEF n, m, i, j, c, d, a, b, p, q
  <2>5. d + b + m = q
    BY <2>0, <2>1, <2>2, <2>3, <2>4
  <2> QED
    BY <2>5 DEF m, d, b, q
<1>6. \A u \in Thread : pc'[u] \in Writing =>
        \/ /\ pc[u] \in Writing /\ fr'[u] = fr[u] /\ fr[u].ticket \in 1 .. Puts
           /\ fr[u].adr = SlotOf(fr[u].ticket) /\ obj[u] = hist.order[fr[u].ticket]
        \/ /\ u = t /\ Puts' = Puts + 1 /\ fr'[u].ticket = Puts' /\ fr'[u].adr = SlotOf(Puts')
           /\ hist'.order[Puts'] = obj[u]
  BY <1>2 DEF TicketStep, TicketInv
<1>7. \A u \in Thread : pc'[u] \in Reading =>
        \/ pc[u] \in Reading /\ fr'[u] = fr[u] /\ fr[u].ticket \in 1 .. Takes /\ fr[u].adr = SlotOf(fr[u].ticket)
        \/ u = t /\ Takes' = Takes + 1 /\ fr'[u].ticket = Takes' /\ fr'[u].adr = SlotOf(Takes')
  BY <1>2 DEF TicketStep, TicketInv
<1>8. ASSUME NEW u \in Thread, pc'[u] \in Writing
      PROVE  /\ fr'[u].ticket \in 1 .. Puts'
             /\ fr'[u].adr = SlotOf(fr'[u].ticket)
             /\ obj'[u] = hist'.order[fr'[u].ticket]
  <2>1. obj'[u] = obj[u] /\ \A k \in 1 .. Puts : hist'.order[k] = hist.order[k]
    BY <1>8 DEF TicketStep
  <2> QED
    BY <1>1, <1>3, <1>6, <1>8, <2>1
<1>9. ASSUME NEW u \in Thread, pc'[u] \in Reading
      PROVE  fr'[u].ticket \in 1 .. Takes' /\ fr'[u].adr = SlotOf(fr'[u].ticket)
  BY <1>1, <1>3, <1>7, <1>9
<1>10. ASSUME NEW u \in Thread, NEW v \in Thread, pc'[u] \in Writing, pc'[v] \in Writing,
              fr'[u].ticket = fr'[v].ticket
       PROVE  u = v
  <2>1. \A x, y \in Thread : pc[x] \in Writing /\ pc[y] \in Writing /\ fr[x].ticket = fr[y].ticket => x = y
    BY DEF TicketInv
  <2> QED
    BY <1>1, <1>6, <1>10, <2>1
<1>11. ASSUME NEW u \in Thread, NEW v \in Thread, pc'[u] \in Reading, pc'[v] \in Reading,
              fr'[u].ticket = fr'[v].ticket
       PROVE  u = v
  <2>1. \A x, y \in Thread : pc[x] \in Reading /\ pc[y] \in Reading /\ fr[x].ticket = fr[y].ticket => x = y
    BY DEF TicketInv
  <2> QED
    BY <1>1, <1>7, <1>11, <2>1
<1>12. TicketInv'
  <2>1. ch'.buf_elem_write_idx = Puts' % Cap /\ ch'.buf_elem_read_idx = Takes' % Cap
    BY DEF TicketStep
  <2>2. \A u \in Thread : pc'[u] \in Writing => fr'[u].adr = SlotOf(fr[u].ticket)'
    BY <1>0, <1>8 DEF SlotOf
  <2>3. \A u \in Thread : pc'[u] \in Reading => fr'[u].adr = SlotOf(fr[u].ticket)'
    BY <1>0, <1>9 DEF SlotOf
  <2> QED
    BY <1>0, <1>4, <1>5, <1>8, <1>9, <1>10, <1>11, <2>1, <2>2, <2>3 DEF TicketInv
<1>13. ASSUME Cardinality(Senders(use)) <= 1, NEW u \in Thread, pc'[u] \in Writing
       PROVE  fr'[u].ticket = Puts'
  <2>1. CASE u = t /\ Puts' = Puts + 1 /\ fr'[u].ticket = Puts'
    BY <2>1
  <2>2. CASE pc[u] \in Writing /\ fr'[u] = fr[u] /\ Puts' = Puts
    BY <1>13, <2>2 DEF AloneInv
  <2>3. CASE pc[u] \in Writing /\ fr'[u] = fr[u] /\ Puts' # Puts
    <3>1. pc[t] = "p_idx"
      BY <2>3 DEF TicketStep
    <3>2. t \in Senders(use) /\ u \in Senders(use)
      BY <2>3, <3>1, Parties DEF Writing, PushLabels
    <3>3. Senders(use) \in SUBSET Thread
      BY DEF Senders
    <3>4. t = u
      BY <1>0, <1>13, <3>2, <3>3, OnlyOne
    <3> QED
      BY <2>3, <3>1, <3>4 DEF Writing
  <2> QED
    BY <1>6, <1>13, <2>1, <2>2, <2>3
<1>14. ASSUME Cardinality(Receivers(use)) <= 1, NEW u \in Thread, pc'[u] \in Reading
       PROVE  fr'[u].ticket = Takes'
  <2>1. CASE u = t /\ Takes' = Takes + 1 /\ fr'[u].ticket = Takes'
    BY <2>1
  <2>2. CASE pc[u] \in Reading /\ fr'[u] = fr[u] /\ Takes' = Takes
    BY <1>14, <2>2 DEF AloneInv
  <2>3. CASE pc[u] \in Reading /\ fr'[u] = fr[u] /\ Takes' # Takes
    <3>1. pc[t] = "r_idx"
      BY <2>3 DEF TicketStep
    <3>2. t \in Receivers(use) /\ u \in Receivers(use)
      BY <2>3, <3>1, Parties DEF Reading, PopLabels
    <3>3. Receivers(use) \in SUBSET Thread
      BY DEF Receivers
    <3>4. t = u
      BY <1>0, <1>14, <3>2, <3>3, OnlyOne
    <3> QED
      BY <2>3, <3>1, <3>4 DEF Reading
  <2> QED
    BY <1>7, <1>14, <2>1, <2>2, <2>3
<1> QED
  BY <1>0, <1>12, <1>13, <1>14 DEF AloneInv


(* What the steps in the ring change. *)
LEMMA RingStepFacts ==
  ASSUME TypeInv, NEW t \in Thread, Cap > 0, TicketInv,
         push_buffered(t) \/ pop_buffered(t), pc[t] \in RingAt \/ pc'[t] \in RingAt
  PROVE  TicketStep(t)
<1>0. /\ WellTyped(t)
      /\ hist \in HistType /\ Cap \in Nat /\ obj \in [Thread -> Value]
  BY UseFacts DEF TypeInv, Types
<1>1. /\ ch.read_avail \in Nat /\ hist.claims \in Nat /\ hist.tickets \in Nat /\ hist.order \in Seq(Value)
      /\ Puts \in Nat /\ Takes \in Nat
  <2>1. hist.claims \in Nat /\ hist.tickets \in Nat /\ hist.order \in Seq(Value)
    BY <1>0 DEF HistType
  <2> QED
    BY <1>0, <2>1, ChFacts, LenProperties DEF Puts, Takes
<1>2. ch.buf_elem_write_idx = Puts % Cap /\ ch.buf_elem_read_idx = Takes % Cap
  BY DEF TicketInv
<1>m. \A u \in Thread : u # t => pc'[u] = pc[u] /\ fr'[u] = fr[u]
  BY StepMoves DEF Moves, Step, try_push_impl, try_pop_impl
<1> USE DEF In, Writing, Reading, RingAt
<1>3. CASE PushEntersSlot(t)
  <2>1. /\ pc[t] = "p_slot" /\ pc'[t] = "p_store" /\ fr' = fr /\ hist' = hist /\ obj' = obj
        /\ ch'.read_avail = ch.read_avail
        /\ ch'.buf_elem_write_idx = ch.buf_elem_write_idx /\ ch'.buf_elem_read_idx = ch.buf_elem_read_idx
    BY <1>0, <1>3 DEF PushEntersSlot, At, Goto, ChType, selVars
  <2>2. Puts' = Puts /\ Takes' = Takes
    BY <2>1 DEF Puts, Takes
  <2> QED
    BY <1>1, <1>2, <2>1, <2>2 DEF TicketStep
<1>4. CASE PushStores(t)
  <2>1. /\ pc[t] = "p_store" /\ pc'[t] = "p_avail" /\ fr' = fr /\ hist' = hist /\ obj' = obj
        /\ ch'.read_avail = ch.read_avail
        /\ ch'.buf_elem_write_idx = ch.buf_elem_write_idx /\ ch'.buf_elem_read_idx = ch.buf_elem_read_idx
    BY <1>0, <1>4 DEF PushStores, At, Goto, ChType, selVars
  <2>2. Puts' = Puts /\ Takes' = Takes
    BY <2>1 DEF Puts, Takes
  <2> QED
    BY <1>1, <1>2, <2>1, <2>2 DEF TicketStep
<1>5. CASE PushAvail(t)
  <2>1. /\ pc[t] = "p_avail" /\ pc'[t] = "p_readsem" /\ fr' = fr /\ hist' = hist /\ obj' = obj
        /\ ch'.read_avail = ch.read_avail + 1
        /\ ch'.buf_elem_write_idx = ch.buf_elem_write_idx /\ ch'.buf_elem_read_idx = ch.buf_elem_read_idx
    BY <1>0, <1>5 DEF PushAvail, At, Goto, ChType, selVars
  <2>2. Puts' = Puts /\ Takes' = Takes
    BY <2>1 DEF Puts, Takes
  <2> QED
    BY <1>1, <1>2, <2>1, <2>2 DEF TicketStep
<1>6. CASE PopEntersSlot(t)
  <2>1. /\ pc[t] = "r_slot" /\ pc'[t] = "r_load" /\ fr' = fr /\ hist' = hist /\ obj' = obj
        /\ ch'.read_avail = ch.read_avail
        /\ ch'.buf_elem_write_idx = ch.buf_elem_write_idx /\ ch'.buf_elem_read_idx = ch.buf_elem_read_idx
    BY <1>0, <1>6 DEF PopEntersSlot, At, Goto, ChType, selVars
  <2>2. Puts' = Puts /\ Takes' = Takes
    BY <2>1 DEF Puts, Takes
  <2> QED
    BY <1>1, <1>2, <2>1, <2>2 DEF TicketStep
<1>7. CASE PopLoads(t)
  <2>1. /\ pc[t] = "r_load" /\ pc'[t] = "r_free" /\ fr' = fr /\ hist' = hist
        /\ ch'.read_avail = ch.read_avail
        /\ ch'.buf_elem_write_idx = ch.buf_elem_write_idx /\ ch'.buf_elem_read_idx = ch.buf_elem_read_idx
        /\ \A u \in Thread : u # t => obj'[u] = obj[u]
    BY <1>0, <1>7 DEF PopLoads, At, Goto, ChType, selVars
  <2>2. Puts' = Puts /\ Takes' = Takes
    BY <2>1 DEF Puts, Takes
  <2> QED
    BY <1>1, <1>2, <2>1, <2>2 DEF TicketStep
<1>8. CASE PopClaims(t)
  <2>1. CASE ch.read_avail > 0
    <3> DEFINE c == hist.claims + 1
    <3>1. /\ pc[t] = "r_avail" /\ pc'[t] = "r_idx" /\ fr' = fr /\ hist' = [hist EXCEPT !.claims = c] /\ obj' = obj
          /\ ch'.read_avail = ch.read_avail - 1
          /\ ch'.buf_elem_write_idx = ch.buf_elem_write_idx /\ ch'.buf_elem_read_idx = ch.buf_elem_read_idx
      BY <1>0, <1>8, <2>1 DEF PopClaims, At, Goto, ChType, selVars
    <3>2. c = hist.claims + 1
      OBVIOUS
    <3> HIDE DEF c
    <3>3. hist'.claims = c /\ hist'.order = hist.order /\ hist'.tickets = hist.tickets
      BY <1>0, <3>1 DEF HistType
    <3>4. Puts' = Puts /\ Takes' = Takes
      BY <3>3 DEF Puts, Takes
    <3>5. /\ In(pc[t], {"r_idx"}) = 0 /\ In(pc'[t], {"r_idx"}) = 1
          /\ In(pc[t], Writing \cup {"p_avail"}) = 0 /\ In(pc'[t], Writing \cup {"p_avail"}) = 0
      BY <3>1
    <3> HIDE DEF In
    <3>6. /\ hist'.claims + Takes + In(pc[t], {"r_idx"}) = hist.claims + Takes' + In(pc'[t], {"r_idx"})
          /\ hist'.claims + ch'.read_avail + In(pc'[t], Writing \cup {"p_avail"}) + Puts
               = hist.claims + ch.read_avail + In(pc[t], Writing \cup {"p_avail"}) + Puts'
      <4>1. hist'.claims + Takes + In(pc[t], {"r_idx"}) = hist.claims + Takes' + In(pc'[t], {"r_idx"})
        <5>1. hist'.claims = hist.claims + 1
          BY <3>2, <3>3
        <5> QED
          BY <1>1, <3>4, <3>5, <5>1
      <4>2. hist'.claims + ch'.read_avail = hist.claims + ch.read_avail
        <5>1. hist.claims \in Nat /\ ch.read_avail \in Nat
          BY <1>1
        <5> QED
          BY <3>1, <3>2, <3>3, <5>1
      <4> QED
        BY <3>4, <3>5, <4>1, <4>2
    <3>7. pc'[t] \notin Writing /\ pc'[t] \notin Reading
      BY <3>1
    <3> QED
      BY <1>2, <3>1, <3>3, <3>4, <3>6, <3>7 DEF TicketStep
  <2>2. CASE ~(ch.read_avail > 0)
    BY <1>0, <1>8, <2>2 DEF PopClaims, At, Goto
  <2> QED
    BY <2>1, <2>2
<1>9. CASE PushIndex(t)
  <2> DEFINE i == (ch.buf_elem_write_idx + 1) % Cap
             h == Append(hist.order, obj[t])
             f == [fr[t] EXCEPT !.adr = ch.buf_elem_write_idx, !.ticket = Puts + 1]
  <2>1. /\ pc[t] = "p_idx" /\ pc'[t] = "p_slot" /\ fr' = [fr EXCEPT ![t] = f] /\ obj' = obj
        /\ ch' = [ch EXCEPT !.buf_elem_write_idx = i] /\ hist' = [hist EXCEPT !.order = h]
    BY <1>0, <1>9 DEF PushIndex, At, Goto, Puts, Takes
  <2>2. f.adr = ch.buf_elem_write_idx /\ f.ticket = Puts + 1
    BY <1>0 DEF FrameType
  <2> HIDE DEF i, h, f
  <2>3. /\ ch'.buf_elem_write_idx = i /\ ch'.buf_elem_read_idx = ch.buf_elem_read_idx /\ ch'.read_avail = ch.read_avail
        /\ hist'.order = h /\ hist'.claims = hist.claims /\ hist'.tickets = hist.tickets /\ fr'[t] = f
    BY <1>0, <2>1 DEF ChType, HistType
  <2>4. i = (Puts + 1) % Cap /\ SlotOf(Puts + 1) = ch.buf_elem_write_idx
    BY <1>0, <1>1, <1>2, SlotFacts DEF i
  <2>5. /\ Puts' = Puts + 1 /\ Takes' = Takes /\ hist'.order[Puts + 1] = obj[t]
        /\ \A k \in 1 .. Puts : hist'.order[k] = hist.order[k]
    <3>1. Len(h) = Len(hist.order) + 1 /\ h[Len(hist.order) + 1] = obj[t]
      BY <1>0, <1>1 DEF h
    <3>2. \A k \in 1 .. Len(hist.order) : h[k] = hist.order[k]
      BY <1>0, <1>1 DEF h
    <3> QED
      BY <2>3, <3>1, <3>2 DEF Puts, Takes
  <2>6. /\ In(pc[t], {"r_idx"}) = 0 /\ In(pc'[t], {"r_idx"}) = 0
        /\ In(pc[t], Writing \cup {"p_avail"}) = 0 /\ In(pc'[t], Writing \cup {"p_avail"}) = 1
    BY <2>1
  <2> HIDE DEF In
  <2>7. /\ hist'.claims + Takes + In(pc[t], {"r_idx"}) = hist.claims + Takes' + In(pc'[t], {"r_idx"})
        /\ hist'.claims + ch'.read_avail + In(pc'[t], Writing \cup {"p_avail"}) + Puts
             = hist.claims + ch.read_avail + In(pc[t], Writing \cup {"p_avail"}) + Puts'
    <3> DEFINE w == Writing \cup {"p_avail"}
    <3>1. /\ hist'.claims = hist.claims /\ ch'.read_avail = ch.read_avail
          /\ In(pc[t], w) \in {0, 1} /\ In(pc'[t], w) \in {0, 1}
      BY <2>3, <2>6
    <3>2. In(pc[t], w) + Puts' = In(pc'[t], w) + Puts
      BY <1>1, <2>5, <2>6
    <3>3. In(pc[t], {"r_idx"}) + Takes = In(pc'[t], {"r_idx"}) + Takes'
      BY <1>1, <2>5, <2>6
    <3> HIDE DEF w
    <3>4. Puts' \in Nat /\ Takes' \in Nat
      BY <1>1, <2>5
    <3>5. hist'.claims + Takes + In(pc[t], {"r_idx"}) = hist.claims + Takes' + In(pc'[t], {"r_idx"})
      BY <1>1, <2>6, <3>1, <3>3, <3>4
    <3>6. hist'.claims + ch'.read_avail + In(pc'[t], w) + Puts = hist.claims + ch.read_avail + In(pc[t], w) + Puts'
      <4> DEFINE a == In(pc[t], w)
                 b == In(pc'[t], w)
                 c == hist.claims + ch.read_avail
                 n == Puts
                 m == Puts'
      <4>1. a \in Nat /\ b \in Nat /\ c \in Nat /\ n \in Nat /\ m \in Nat /\ a + m = b + n
        BY <1>1, <3>1, <3>2, <3>4
      <4>2. hist'.claims + ch'.read_avail = c
        BY <3>1
      <4> HIDE DEF a, b, c, n, m
      <4>3. c + b + n = c + a + m
        BY <4>1
      <4> QED
        BY <4>2, <4>3 DEF a, b, c, n, m
    <3> QED
      BY <3>5, <3>6 DEF w
  <2>8. pc'[t] \notin Reading /\ fr'[t].ticket = Puts' /\ fr'[t].adr = SlotOf(Puts') /\ hist'.order[Puts'] = obj[t]
    BY <2>1, <2>2, <2>3, <2>4, <2>5
  <2>9. ch'.buf_elem_write_idx = Puts' % Cap /\ ch'.buf_elem_read_idx = Takes' % Cap
    BY <1>2, <2>3, <2>4, <2>5
  <2> QED
    BY <2>1, <2>3, <2>5, <2>7, <2>8, <2>9 DEF TicketStep
<1>10. CASE PopIndex(t)
  <2> DEFINE i == (ch.buf_elem_read_idx + 1) % Cap
             h == hist.tickets + 1
             f == [fr[t] EXCEPT !.adr = ch.buf_elem_read_idx, !.ticket = Takes + 1]
  <2>1. /\ pc[t] = "r_idx" /\ pc'[t] = "r_slot" /\ fr' = [fr EXCEPT ![t] = f] /\ obj' = obj
        /\ ch' = [ch EXCEPT !.buf_elem_read_idx = i] /\ hist' = [hist EXCEPT !.tickets = h]
    BY <1>0, <1>10 DEF PopIndex, At, Goto, Puts, Takes
  <2>2. f.adr = ch.buf_elem_read_idx /\ f.ticket = Takes + 1
    BY <1>0 DEF FrameType
  <2> HIDE DEF i, h, f
  <2>3. /\ ch'.buf_elem_read_idx = i /\ ch'.buf_elem_write_idx = ch.buf_elem_write_idx /\ ch'.read_avail = ch.read_avail
        /\ hist'.tickets = h /\ hist'.claims = hist.claims /\ hist'.order = hist.order /\ fr'[t] = f
    BY <1>0, <2>1 DEF ChType, HistType
  <2>4. i = (Takes + 1) % Cap /\ SlotOf(Takes + 1) = ch.buf_elem_read_idx
    BY <1>0, <1>1, <1>2, SlotFacts DEF i
  <2>5. Takes' = Takes + 1 /\ Puts' = Puts
    BY <2>3 DEF Puts, Takes, h
  <2>6. /\ In(pc[t], {"r_idx"}) = 1 /\ In(pc'[t], {"r_idx"}) = 0
        /\ In(pc[t], Writing \cup {"p_avail"}) = 0 /\ In(pc'[t], Writing \cup {"p_avail"}) = 0
    BY <2>1
  <2> HIDE DEF In
  <2>7. /\ hist'.claims + Takes + In(pc[t], {"r_idx"}) = hist.claims + Takes' + In(pc'[t], {"r_idx"})
        /\ hist'.claims + ch'.read_avail + In(pc'[t], Writing \cup {"p_avail"}) + Puts
             = hist.claims + ch.read_avail + In(pc[t], Writing \cup {"p_avail"}) + Puts'
    <3> DEFINE w == Writing \cup {"p_avail"}
    <3>1. /\ hist'.claims = hist.claims /\ ch'.read_avail = ch.read_avail
          /\ In(pc[t], w) \in {0, 1} /\ In(pc'[t], w) \in {0, 1}
      BY <2>3, <2>6
    <3>2. In(pc[t], w) + Puts' = In(pc'[t], w) + Puts
      BY <1>1, <2>5, <2>6
    <3>3. In(pc[t], {"r_idx"}) + Takes = In(pc'[t], {"r_idx"}) + Takes'
      BY <1>1, <2>5, <2>6
    <3> HIDE DEF w
    <3>4. Puts' \in Nat /\ Takes' \in Nat
      BY <1>1, <2>5
    <3>5. hist'.claims + Takes + In(pc[t], {"r_idx"}) = hist.claims + Takes' + In(pc'[t], {"r_idx"})
      BY <1>1, <2>6, <3>1, <3>3, <3>4
    <3>6. hist'.claims + ch'.read_avail + In(pc'[t], w) + Puts = hist.claims + ch.read_avail + In(pc[t], w) + Puts'
      <4> DEFINE a == In(pc[t], w)
                 b == In(pc'[t], w)
                 c == hist.claims + ch.read_avail
                 n == Puts
                 m == Puts'
      <4>1. a \in Nat /\ b \in Nat /\ c \in Nat /\ n \in Nat /\ m \in Nat /\ a + m = b + n
        BY <1>1, <3>1, <3>2, <3>4
      <4>2. hist'.claims + ch'.read_avail = c
        BY <3>1
      <4> HIDE DEF a, b, c, n, m
      <4>3. c + b + n = c + a + m
        BY <4>1
      <4> QED
        BY <4>2, <4>3 DEF a, b, c, n, m
    <3> QED
      BY <3>5, <3>6 DEF w
  <2>8. pc'[t] \notin Writing /\ fr'[t].ticket = Takes' /\ fr'[t].adr = SlotOf(Takes')
    BY <2>1, <2>2, <2>3, <2>4, <2>5
  <2>9. ch'.buf_elem_write_idx = Puts' % Cap /\ ch'.buf_elem_read_idx = Takes' % Cap
    BY <1>2, <2>3, <2>4, <2>5
  <2> QED
    BY <2>1, <2>3, <2>5, <2>7, <2>8, <2>9 DEF TicketStep
<1>11. CASE PushReserves(t)
  BY <1>0, <1>11, BackFacts DEF PushReserves, At, Goto
<1>12. CASE PushReadsem(t)
  BY <1>0, <1>12, BackFacts DEF PushReadsem, At, Goto
<1>13. CASE PushSubscriber(t)
  BY <1>0, <1>13, BackFacts DEF PushSubscriber, At, Goto
<1>14. CASE PopFrees(t)
  BY <1>0, <1>14, BackFacts DEF PopFrees, At, Goto
<1>15. CASE PopWritesem(t)
  BY <1>0, <1>15, BackFacts DEF PopWritesem, At, Goto
<1>16. CASE PopSubscriber(t)
  BY <1>0, <1>16, BackFacts DEF PopSubscriber, At, Goto
<1> QED
  BY <1>3, <1>4, <1>5, <1>6, <1>7, <1>8, <1>9, <1>10, <1>11, <1>12, <1>13, <1>14, <1>15, <1>16 DEF push_buffered, pop_buffered


-----------------------------------------------------------------------------
(* Which steps have nothing to do with the ring *)

(* A return leaves the records of the ring alone. *)
LEMMA ReturnRing ==
  ASSUME TypeInv, NEW t \in Thread, NEW res \in Results, Return(t, res) \/ Finish(t, res)
  PROVE  /\ HistoryKept
         /\ pc'[t] \in {"sel_result", "idle"}
<1>1. pc \in [Thread -> Labels] /\ Types
  BY DEF TypeInv, Types
<1>2. ASSUME Finish(t, res)
      PROVE  /\ HistoryKept
             /\ pc'[t] = "idle"
  BY <1>1, <1>2, FinishFacts
<1>3. CASE Return(t, res) /\ fr[t].op \in SelOps
  BY <1>1, <1>3 DEF Return, Goto
<1>4. CASE Return(t, res) /\ fr[t].op \notin SelOps
  BY <1>2, <1>4 DEF Return
<1> QED
  BY <1>2, <1>3, <1>4

LEMMA QuietSteps ==
  ASSUME TypeInv, CountInv, StaleInv, NEW t \in Thread, Cap > 0, Begin(t) \/ Step(t),
         pc[t] \notin RingAt, pc'[t] \notin RingAt
  PROVE  RingQuiet(t)
<1>0. /\ ch \in ChType /\ pc \in [Thread -> Labels] /\ fr[t] \in FrameType /\ fr[t].result \in Results
      /\ hist \in HistType /\ obj \in [Thread -> Value] /\ ~UnbufferedOnly(t) /\ Cap \in Nat
  BY UnbufferedSteps, UseFacts DEF TypeInv, Types, FrameType
<1>p. PlaceAt(t, pc[t], fr[t])
  BY DEF TypeInv, PlaceInv
<1>u. /\ ch.adr_written = NULL => pc[t] \notin ReaderTok
      /\ ch.adr_written \in {NULL, ClosedMark}
      /\ pc[t] # "p_post" /\ ~fr[t].have_swapped /\ NULL # ClosedMark
      /\ ClosedMark \notin Thread
  BY CountUse, UseFacts, <1>0 DEF TypeInv, Types
<1>1. CASE Begin(t)
  <2>1. UNCHANGED <<ch, hist>> /\ pc[t] = "idle" /\ \A u \in Thread : u # t => obj'[u] = obj[u]
    BY <1>0, <1>1, BeginFacts
  <2> QED
    BY <2>1 DEF RingQuiet, Writing
<1>2. CASE PushStart(t)
  <2>1. /\ obj' = obj
        /\ RingSame
    BY <1>0, <1>2 DEF PushStart, ChType, selVars
  <2>2. \/ \E res \in Results : Return(t, res) \/ Finish(t, res)
        \/ UNCHANGED hist
    BY <1>0, <1>2 DEF PushStart, Results
  <2> QED
    BY <2>1, <2>2, ReturnRing DEF RingQuiet
<1>3. CASE PushTakes(t)
  <2>1. /\ obj' = obj
        /\ RingSame
        /\ HistoryKept
    BY <1>0, <1>3 DEF PushTakes, ChType, selVars
  <2> QED
    BY <2>1 DEF RingQuiet
<1>4. CASE PushCopies(t)
  <2>1. pc[t] = "p_copy" /\ UNCHANGED <<ch, hist>> /\ obj' = [obj EXCEPT ![fr[t].adr] = obj[t]]
    BY <1>4 DEF PushCopies, At
  <2>2. fr[t].adr \in Thread
    BY <1>p, <2>1 DEF PlaceAt
  <2>3. pc[fr[t].adr] \notin Writing
    BY <2>1, <2>2 DEF StaleInv, Lent, Under, PushLabels, Writing
  <2> QED
    BY <1>0, <2>1, <2>2, <2>3 DEF RingQuiet
<1>5. CASE PushPublishes(t)
  <2>1. /\ obj' = obj
        /\ RingSame
        /\ HistoryKept
    BY <1>0, <1>5 DEF PushPublishes, ChType, selVars
  <2> QED
    BY <2>1 DEF RingQuiet
<1>6. CASE PushPosts(t)
  BY <1>u, <1>6 DEF PushPosts, At
<1>7. CASE PushNoReader(t)
  <2>1. /\ obj' = obj
        /\ RingSame
        /\ HistoryKept
    BY <1>0, <1>7 DEF PushNoReader, ChType, selVars
  <2> QED
    BY <2>1 DEF RingQuiet
<1>8. CASE PushToken(t)
  <2>1. /\ obj' = obj
        /\ RingSame
        /\ HistoryKept
    BY <1>0, <1>8 DEF PushToken, ChType, selVars
  <2> QED
    BY <2>1 DEF RingQuiet
<1>9. CASE PushNoToken(t)
  <2>1. /\ obj' = obj
        /\ RingSame
    BY <1>0, <1>9 DEF PushNoToken, ChType, selVars
  <2>2. \/ \E res \in Results : Return(t, res) \/ Finish(t, res)
        \/ UNCHANGED hist
    BY <1>0, <1>9 DEF PushNoToken, Results
  <2> QED
    BY <2>1, <2>2, ReturnRing DEF RingQuiet
<1>10. CASE PushAfterToken(t)
  <2>1. /\ obj' = obj
        /\ RingSame
    BY <1>0, <1>10 DEF PushAfterToken, ChType, selVars
  <2>2. \/ \E res \in Results : Return(t, res) \/ Finish(t, res)
        \/ UNCHANGED hist
    BY <1>0, <1>10 DEF PushAfterToken, Results
  <2> QED
    BY <2>1, <2>2, ReturnRing DEF RingQuiet
<1>11. CASE PushReserves(t)
  <2>1. /\ obj' = obj
        /\ RingSame
    BY <1>0, <1>11 DEF PushReserves, ChType, selVars
  <2>2. \/ \E res \in Results : Return(t, res) \/ Finish(t, res)
        \/ UNCHANGED hist
    BY <1>0, <1>11 DEF PushReserves, Results
  <2> QED
    BY <2>1, <2>2, ReturnRing DEF RingQuiet
<1>12. CASE PushIndex(t)
  BY <1>12 DEF PushIndex, At, Goto, RingAt, Writing, Reading, TypeInv, Types
<1>13. CASE PushEntersSlot(t)
  BY <1>13 DEF PushEntersSlot, At, Goto, RingAt, Writing, Reading, TypeInv, Types
<1>14. CASE PushStores(t)
  BY <1>14 DEF PushStores, At, Goto, RingAt, Writing, Reading, TypeInv, Types
<1>15. CASE PushAvail(t)
  BY <1>15 DEF PushAvail, At, Goto, RingAt, Writing, Reading, TypeInv, Types
<1>16. CASE PushReadsem(t)
  <2>1. /\ obj' = obj
        /\ RingSame
        /\ HistoryKept
    BY <1>0, <1>16 DEF PushReadsem, ChType, selVars
  <2> QED
    BY <2>1 DEF RingQuiet
<1>17. CASE PushSubscriber(t)
  <2>1. /\ obj' = obj
        /\ RingSame
    BY <1>0, <1>17 DEF PushSubscriber, ChType, selVars
  <2>2. \/ \E res \in Results : Return(t, res) \/ Finish(t, res)
        \/ UNCHANGED hist
    BY <1>0, <1>17 DEF PushSubscriber, Results
  <2> QED
    BY <2>1, <2>2, ReturnRing DEF RingQuiet
<1>18. CASE PopStart(t)
  <2>1. /\ obj' = obj
        /\ RingSame
    BY <1>0, <1>18 DEF PopStart, ChType, selVars
  <2>2. \/ \E res \in Results : Return(t, res) \/ Finish(t, res)
        \/ UNCHANGED hist
    BY <1>0, <1>18 DEF PopStart, Results
  <2> QED
    BY <2>1, <2>2, ReturnRing DEF RingQuiet
<1>19. CASE PopToken(t)
  <2>1. /\ obj' = obj
        /\ RingSame
        /\ HistoryKept
    BY <1>0, <1>19 DEF PopToken, ChType, selVars
  <2> QED
    BY <2>1 DEF RingQuiet
<1>20. CASE PopNoToken(t)
  <2>1. /\ obj' = obj
        /\ RingSame
        /\ HistoryKept
    BY <1>0, <1>20 DEF PopNoToken, ChType, selVars
  <2> QED
    BY <2>1 DEF RingQuiet
<1>21. CASE PopLooksClosed(t)
  <2>1. /\ obj' = obj
        /\ RingSame
    BY <1>0, <1>21 DEF PopLooksClosed, ChType, selVars
  <2>2. \/ \E res \in Results : Return(t, res) \/ Finish(t, res)
        \/ UNCHANGED hist
    BY <1>0, <1>21 DEF PopLooksClosed, Results
  <2> QED
    BY <2>1, <2>2, ReturnRing DEF RingQuiet
<1>22. CASE PopClaims(t)
  <2>1. ~(ch.read_avail > 0)
    BY <1>0, <1>22 DEF PopClaims, Goto, RingAt
  <2> QED
    BY <1>0, <1>22, <2>1 DEF PopClaims, RingQuiet
<1>23. CASE PopIndex(t)
  BY <1>23 DEF PopIndex, At, Goto, RingAt, Writing, Reading, TypeInv, Types
<1>24. CASE PopEntersSlot(t)
  BY <1>24 DEF PopEntersSlot, At, Goto, RingAt, Writing, Reading, TypeInv, Types
<1>25. CASE PopLoads(t)
  BY <1>25 DEF PopLoads, At, Goto, RingAt, Writing, Reading, TypeInv, Types
<1>26. CASE PopFrees(t)
  <2>1. /\ obj' = obj
        /\ RingSame
        /\ HistoryKept
    BY <1>0, <1>26 DEF PopFrees, ChType, selVars
  <2> QED
    BY <2>1 DEF RingQuiet
<1>27. CASE PopWritesem(t)
  <2>1. /\ obj' = obj
        /\ RingSame
        /\ HistoryKept
    BY <1>0, <1>27 DEF PopWritesem, ChType, selVars
  <2> QED
    BY <2>1 DEF RingQuiet
<1>28. CASE PopSubscriber(t)
  <2>1. /\ obj' = obj
        /\ RingSame
    BY <1>0, <1>28 DEF PopSubscriber, ChType, selVars
  <2>2. \/ \E res \in Results : Return(t, res) \/ Finish(t, res)
        \/ UNCHANGED hist
    BY <1>0, <1>28 DEF PopSubscriber, Results
  <2> QED
    BY <2>1, <2>2, ReturnRing DEF RingQuiet
<1>29. CASE PopAdvertises(t)
  <2>1. /\ obj' = obj
        /\ RingSame
        /\ HistoryKept
    BY <1>0, <1>29 DEF PopAdvertises, ChType, selVars
  <2> QED
    BY <2>1 DEF RingQuiet
<1>30. CASE PopAwaits(t)
  <2>1. ch.adr_written = ClosedMark /\ ch.adr_written # t /\ ~fr[t].have_swapped
    BY <1>u, <1>30 DEF PopAwaits, At, ReaderTok, ReaderSec
  <2>2. /\ Return(t, "closed") /\ obj' = obj
        /\ RingSame
    BY <1>0, <1>30, <2>1 DEF PopAwaits, ChType
  <2> QED
    BY <2>2, ReturnRing DEF RingQuiet, Results
<1>31. CASE PopImSem(t)
  <2>1. /\ obj' = obj
        /\ RingSame
        /\ HistoryKept
    BY <1>0, <1>31 DEF PopImSem, ChType, selVars
  <2> QED
    BY <2>1 DEF RingQuiet
<1>32. CASE PopIsMine(t)
  <2>1. ch.adr_written = ClosedMark /\ ch.adr_written # t /\ ~fr[t].have_swapped
    BY <1>u, <1>32 DEF PopIsMine, At, ReaderTok, ReaderSec
  <2>2. /\ Return(t, "closed") /\ obj' = obj
        /\ RingSame
    BY <1>0, <1>32, <2>1 DEF PopIsMine, ChType
  <2> QED
    BY <2>2, ReturnRing DEF RingQuiet, Results
<1>33. CASE CloseClaims(t)
  <2>1. /\ obj' = obj
        /\ RingSame
        /\ HistoryKept
    BY <1>0, <1>33 DEF CloseClaims, ChType, selVars, HistType
  <2> QED
    BY <2>1 DEF RingQuiet
<1>34. CASE CloseWaits(t)
  <2>1. /\ obj' = obj
        /\ RingSame
    BY <1>0, <1>34 DEF CloseWaits, ChType, selVars
  <2>2. \/ \E res \in Results : Return(t, res) \/ Finish(t, res)
        \/ UNCHANGED hist
    BY <1>0, <1>34 DEF CloseWaits, Results
  <2> QED
    BY <2>1, <2>2, ReturnRing DEF RingQuiet
<1>35. CASE CloseSets(t)
  <2>1. /\ obj' = obj
        /\ RingSame
        /\ HistoryKept
    BY <1>0, <1>35 DEF CloseSets, ChType, selVars
  <2> QED
    BY <2>1 DEF RingQuiet
<1>36. CASE CloseMarks(t)
  <2>1. /\ obj' = obj
        /\ RingSame
        /\ HistoryKept
    BY <1>0, <1>36 DEF CloseMarks, ChType, selVars
  <2> QED
    BY <2>1 DEF RingQuiet
<1>37. CASE ClosePostsReaders(t)
  <2>1. /\ obj' = obj
        /\ RingSame
        /\ HistoryKept
    BY <1>0, <1>37 DEF ClosePostsReaders, ChType, selVars
  <2> QED
    BY <2>1 DEF RingQuiet
<1>38. CASE ClosePostsReadSub(t)
  <2>1. /\ obj' = obj
        /\ RingSame
        /\ HistoryKept
    BY <1>0, <1>38 DEF ClosePostsReadSub, ChType, selVars
  <2> QED
    BY <2>1 DEF RingQuiet
<1>39. CASE ClosePostsWriteSub(t)
  <2>1. /\ obj' = obj
        /\ RingSame
        /\ HistoryKept
    BY <1>0, <1>39 DEF ClosePostsWriteSub, ChType, selVars
  <2> QED
    BY <2>1 DEF RingQuiet
<1>40. CASE ClosePostsWriters(t)
  <2>1. /\ obj' = obj
        /\ RingSame
        /\ HistoryKept
    BY <1>0, <1>40 DEF ClosePostsWriters, ChType, selVars
  <2> QED
    BY <2>1 DEF RingQuiet
<1>41. CASE CloseEnds(t)
  <2>1. /\ obj' = obj
        /\ RingSame
    BY <1>0, <1>41 DEF CloseEnds, ChType, selVars
  <2>2. \/ \E res \in Results : Return(t, res) \/ Finish(t, res)
        \/ UNCHANGED hist
    BY <1>0, <1>41 DEF CloseEnds, Results
  <2> QED
    BY <2>1, <2>2, ReturnRing DEF RingQuiet
<1>42. CASE SelSubscribes(t)
  <2>1. /\ obj' = obj
        /\ RingSame
        /\ HistoryKept
    BY <1>0, <1>42 DEF SelSubscribes, ChType, selVars
  <2> QED
    BY <2>1 DEF RingQuiet
<1>43. CASE SelResult(t)
  <2>1. /\ obj' = obj
        /\ RingSame
        /\ HistoryKept
    BY <1>0, <1>43 DEF SelResult, ChType, selVars
  <2> QED
    BY <2>1 DEF RingQuiet
<1>44. CASE RecheckLock(t)
  <2>1. /\ obj' = obj
        /\ RingSame
        /\ HistoryKept
    BY <1>0, <1>44 DEF RecheckLock, ChType, selVars
  <2> QED
    BY <2>1 DEF RingQuiet
<1>45. CASE RecheckPeer(t)
  <2>1. /\ obj' = obj
        /\ RingSame
        /\ HistoryKept
    BY <1>0, <1>45 DEF RecheckPeer, ChType, selVars
  <2> QED
    BY <2>1 DEF RingQuiet
<1>46. CASE RecheckEnds(t)
  <2>1. /\ obj' = obj
        /\ RingSame
        /\ HistoryKept
    BY <1>0, <1>46 DEF RecheckEnds, ChType, selVars
  <2> QED
    BY <2>1 DEF RingQuiet
<1>47. CASE SelRescans(t)
  <2>1. /\ obj' = obj
        /\ RingSame
        /\ HistoryKept
    BY <1>0, <1>47 DEF SelRescans, ChType, selVars
  <2> QED
    BY <2>1 DEF RingQuiet
<1>48. CASE SelWakes(t)
  <2>1. /\ obj' = obj
        /\ RingSame
        /\ HistoryKept
    BY <1>0, <1>48 DEF SelWakes, ChType, selVars
  <2> QED
    BY <2>1 DEF RingQuiet
<1>49. CASE SelOutOfTime(t)
  <2>1. /\ obj' = obj
        /\ RingSame
        /\ HistoryKept
    BY <1>0, <1>49 DEF SelOutOfTime, ChType, selVars
  <2> QED
    BY <2>1 DEF RingQuiet
<1>50. CASE SelWoken(t)
  <2>1. /\ obj' = obj
        /\ RingSame
        /\ HistoryKept
    BY <1>0, <1>50 DEF SelWoken, ChType, selVars
  <2> QED
    BY <2>1 DEF RingQuiet
<1>51. CASE SelServed(t)
  <2>1. /\ obj' = obj
        /\ RingSame
        /\ HistoryKept
    BY <1>0, <1>51 DEF SelServed, ChType, selVars
  <2> QED
    BY <2>1 DEF RingQuiet
<1>52. CASE SelLeaves(t)
  <2>1. /\ obj' = obj
        /\ RingSame
    BY <1>0, <1>52 DEF SelLeaves, ChType, selVars
  <2>2. \/ \E res \in Results : Return(t, res) \/ Finish(t, res)
        \/ UNCHANGED hist
    BY <1>0, <1>52 DEF SelLeaves, Results
  <2> QED
    BY <2>1, <2>2, ReturnRing DEF RingQuiet
<1> QED
  BY <1>0, <1>1, <1>2, <1>3, <1>4, <1>5, <1>6, <1>7, <1>8, <1>9, <1>10, <1>11, <1>12, <1>13, <1>14, <1>15, <1>16, <1>17, <1>18, <1>19, <1>20, <1>21, <1>22, <1>23, <1>24, <1>25, <1>26, <1>27, <1>28, <1>29, <1>30, <1>31, <1>32, <1>33, <1>34, <1>35, <1>36, <1>37, <1>38, <1>39, <1>40, <1>41, <1>42, <1>43, <1>44, <1>45, <1>46, <1>47, <1>48, <1>49, <1>50, <1>51, <1>52
     DEF UnbufferedOnly, Step, to_select, try_push_impl, push_unbuffered, push_buffered, try_pop_impl,
         pop_buffered, pop_waits, close, channel_select


-----------------------------------------------------------------------------
(* Addresses that are out on a buffered channel *)

StaleStep(t) ==
  /\ \/ ch'.write_adr \in {ch.write_adr, NULL}
     \/ ch'.write_adr = t /\ pc'[t] = "r_await"
  /\ pc'[t] = "p_copy" => ch.write_adr = fr'[t].adr
  /\ pc'[t] \in Under => pc[t] \in Under \/ ~ch.closed
  /\ ToldBy(pc'[t], fr'[t]) => ToldBy(pc[t], fr[t]) \/ pc[t] \in Under

LEMMA StaleMove ==
  ASSUME TypeInv, CountInv, StaleInv, use' = use, NEW t \in Thread, Cap > 0, Moves(t), StaleStep(t)
  PROVE  StaleInv'
<1>0. NULL \notin Thread /\ NULL # ClosedMark /\ CloseInv
  BY UseFacts DEF TypeInv, Types
<1>1. ASSUME NEW a \in Thread, Lent(a) PROVE ch.closed
  <2>1. ch.adr_written # NULL
    BY <1>0, <1>1 DEF Lent, CountInv, LateInv
  <2> QED
    BY <1>0, <2>1 DEF CountInv, LateInv, CloseInv
<1>2. ASSUME NEW a \in Thread, Lent(a)' PROVE Lent(a) \/ (a = t /\ pc'[t] = "r_await")
  <2>1. CASE ch'.write_adr = a
    BY <1>0, <2>1 DEF StaleStep, Lent
  <2>2. ASSUME NEW q \in Thread, pc'[q] = "p_copy", fr'[q].adr = a PROVE Lent(a)
    <3>1. CASE q = t
      BY <2>2, <3>1 DEF StaleStep, Lent
    <3>2. CASE q # t
      BY <2>2, <3>2 DEF Moves, Lent
    <3> QED
      BY <3>1, <3>2
  <2> QED
    BY <1>2, <2>1, <2>2 DEF Lent
<1>3. ASSUME NEW a \in Thread, Lent(a)' PROVE pc'[a] \notin Under /\ ~ToldBy(pc'[a], fr'[a])
  <2>1. CASE a = t /\ pc'[t] = "r_await"
    BY <2>1 DEF Under, PushLabels, WriterSec, ToldBy
  <2>2. CASE Lent(a)
    <3>1. pc[a] \notin Under /\ ~ToldBy(pc[a], fr[a]) /\ ch.closed
      BY <1>1, <2>2 DEF StaleInv, Told
    <3>2. CASE a = t
      BY <3>1, <3>2 DEF StaleStep
    <3>3. CASE a # t
      BY <3>1, <3>3 DEF Moves
    <3> QED
      BY <3>2, <3>3
  <2> QED
    BY <1>2, <1>3, <2>1, <2>2
<1> QED
  BY <1>3 DEF StaleInv, Told

(* A return tells of a success only who sent. *)
LEMMA ReturnTold ==
  ASSUME TypeInv, NEW t \in Thread, NEW res \in Results, Return(t, res)
  PROVE  /\ pc'[t] \in {"sel_result", "idle"}
         /\ ToldBy(pc'[t], fr'[t]) => res = "success" /\ fr[t].op \in PushOps
<1>1. pc \in [Thread -> Labels] /\ fr \in [Thread -> FrameType] /\ fr[t] \in FrameType /\ Types
  BY DEF TypeInv, Types
<1>2. CASE fr[t].op \in SelOps
  <2>1. pc'[t] = "sel_result" /\ fr' = [fr EXCEPT ![t].result = res, ![t].have_swapped = FALSE,
                           ![t].in_progress = FALSE, ![t].adr = NULL]
    BY <1>1, <1>2 DEF Return, Goto
  <2>2. fr'[t].op = fr[t].op /\ fr'[t].result = res
    BY <1>1, <2>1 DEF FrameType
  <2> QED
    BY <2>1, <2>2 DEF ToldBy, PushOps
<1>3. CASE fr[t].op \notin SelOps
  <2>1. pc'[t] = "idle"
    BY <1>1, <1>3 DEF Return, Finish, Goto
  <2> QED
    BY <2>1 DEF ToldBy
<1> QED
  BY <1>2, <1>3

LEMMA StaleSteps ==
  ASSUME TypeInv, CountInv, SelIdle, NEW t \in Thread, Cap > 0, Begin(t) \/ Step(t)
  PROVE  StaleStep(t)
<1>0. /\ WellTyped(t)
      /\ ~UnbufferedOnly(t) /\ Cap \in Nat
  BY UnbufferedSteps, UseFacts DEF TypeInv, Types
<1>p. PlaceAt(t, pc[t], fr[t])
  BY DEF TypeInv, PlaceInv
<1>q. /\ pc[t] \in PopLabels => fr[t].op \in PopOps
      /\ PushOps \cap PopOps = {}
  BY <1>p DEF PlaceAt, PushOps, PopOps
<1>u. /\ ch.adr_written = NULL => pc[t] \notin ReaderTok
      /\ ch.adr_written \in {NULL, ClosedMark}
      /\ pc[t] # "p_post" /\ ~fr[t].have_swapped /\ NULL # ClosedMark
      /\ ClosedMark \notin Thread
  BY CountUse, UseFacts, <1>0 DEF TypeInv, Types
<1>v. sel[t].state \in {"scanning", "waiting"}
  BY DEF SelIdle
<1> USE DEF Under, PushLabels, WriterSec, ToldBy
<1>1. CASE Begin(t)
  <2>1. ch' = ch /\ pc'[t] \in {"push", "pop", "close", "sel"}
    BY <1>0, <1>1, BeginFacts
  <2> QED
    BY <2>1 DEF StaleStep
<1>2. CASE PushStart(t)
  <2>1. CASE ch.closed
    <3>1. Return(t, "closed") /\ ch'.write_adr = ch.write_adr
      BY <1>0, <1>2, <2>1 DEF PushStart, ChType, selVars
    <3>2. pc'[t] \in {"sel_result", "idle"} /\ ~ToldBy(pc'[t], fr'[t])
      BY <3>1, ReturnTold DEF Results
    <3> QED
      BY <3>1, <3>2 DEF StaleStep
  <2>2. CASE ~(ch.closed)
    BY <1>0, <1>2, <2>2 DEF PushStart, StaleStep, Goto, selVars
  <2> QED
    BY <2>1, <2>2
<1>3. CASE PushTakes(t)
  <2> DEFINE f == [fr[t] EXCEPT !.adr = ch.write_adr]
  <2>1. /\ pc[t] = "p_adr" /\ pc'[t] = "p_copy" /\ ch'.write_adr = NULL
        /\ fr'[t] = f
    BY <1>0, <1>3 DEF PushTakes, At, Goto, ChType
  <2>2. f.adr = ch.write_adr
    BY <1>0 DEF FrameType
  <2> HIDE DEF f
  <2> QED
    BY <2>1, <2>2 DEF StaleStep
<1>4. CASE PushCopies(t)
  <2>1. pc[t] \in Under /\ pc'[t] # "p_copy" /\ ch'.write_adr = ch.write_adr
    BY <1>0, <1>4 DEF PushCopies, At, Goto, ChType, selVars
  <2> QED
    BY <2>1 DEF StaleStep
<1>5. CASE PushPublishes(t)
  <2>1. pc[t] \in Under /\ pc'[t] # "p_copy" /\ ch'.write_adr = ch.write_adr
    BY <1>0, <1>5 DEF PushPublishes, At, Goto, ChType, selVars
  <2> QED
    BY <2>1 DEF StaleStep
<1>6. CASE PushPosts(t)
  BY <1>u, <1>6 DEF PushPosts, At
<1>7. CASE PushNoReader(t)
  <2>1. pc[t] \in Under /\ pc'[t] # "p_copy" /\ ch'.write_adr = ch.write_adr
    BY <1>0, <1>7 DEF PushNoReader, At, Goto, ChType, selVars
  <2> QED
    BY <2>1 DEF StaleStep
<1>8. CASE PushToken(t)
  <2>1. pc[t] \in Under /\ pc'[t] # "p_copy" /\ ch'.write_adr = ch.write_adr
    BY <1>0, <1>8 DEF PushToken, At, Goto, ChType, selVars
  <2> QED
    BY <2>1 DEF StaleStep
<1>9. CASE PushNoToken(t)
  <2>1. pc[t] = "p_sem" /\ ch'.write_adr = ch.write_adr
    BY <1>0, <1>9 DEF PushNoToken, At, ChType, selVars
  <2>2. \/ \E res \in Results : Return(t, res)
        \/ pc'[t] \in {"p_adv", "p_free", "p_idx", "p_adr"}
    BY <1>0, <1>9 DEF PushNoToken, Goto, Results
  <2>3. pc'[t] # "p_copy"
    BY <2>2, ReturnTold
  <2> QED
    BY <2>1, <2>3 DEF StaleStep
<1>10. CASE PushAfterToken(t)
  <2>1. pc[t] = "p_closed" /\ ch'.write_adr = ch.write_adr
    BY <1>0, <1>10 DEF PushAfterToken, At, ChType, selVars
  <2>2. \/ \E res \in Results : Return(t, res)
        \/ pc'[t] \in {"p_adv", "p_free", "p_idx", "p_adr"}
    BY <1>0, <1>10 DEF PushAfterToken, Goto, Results
  <2>3. pc'[t] # "p_copy"
    BY <2>2, ReturnTold
  <2> QED
    BY <2>1, <2>3 DEF StaleStep
<1>11. CASE PushReserves(t)
  <2>1. pc[t] = "p_free" /\ ch'.write_adr = ch.write_adr
    BY <1>0, <1>11 DEF PushReserves, At, ChType, selVars
  <2>2. \/ \E res \in Results : Return(t, res)
        \/ pc'[t] \in {"p_adv", "p_free", "p_idx", "p_adr"}
    BY <1>0, <1>11 DEF PushReserves, Goto, Results
  <2>3. pc'[t] # "p_copy"
    BY <2>2, ReturnTold
  <2> QED
    BY <2>1, <2>3 DEF StaleStep
<1>12. CASE PushIndex(t)
  <2>1. pc[t] \in Under /\ pc'[t] # "p_copy" /\ ch'.write_adr = ch.write_adr
    BY <1>0, <1>12 DEF PushIndex, At, Goto, ChType, selVars
  <2> QED
    BY <2>1 DEF StaleStep
<1>13. CASE PushEntersSlot(t)
  <2>1. pc[t] \in Under /\ pc'[t] # "p_copy" /\ ch'.write_adr = ch.write_adr
    BY <1>0, <1>13 DEF PushEntersSlot, At, Goto, ChType, selVars
  <2> QED
    BY <2>1 DEF StaleStep
<1>14. CASE PushStores(t)
  <2>1. pc[t] \in Under /\ pc'[t] # "p_copy" /\ ch'.write_adr = ch.write_adr
    BY <1>0, <1>14 DEF PushStores, At, Goto, ChType, selVars
  <2> QED
    BY <2>1 DEF StaleStep
<1>15. CASE PushAvail(t)
  <2>1. pc[t] \in Under /\ pc'[t] # "p_copy" /\ ch'.write_adr = ch.write_adr
    BY <1>0, <1>15 DEF PushAvail, At, Goto, ChType, selVars
  <2> QED
    BY <2>1 DEF StaleStep
<1>16. CASE PushReadsem(t)
  <2>1. pc[t] \in Under /\ pc'[t] # "p_copy" /\ ch'.write_adr = ch.write_adr
    BY <1>0, <1>16 DEF PushReadsem, At, Goto, ChType, selVars
  <2> QED
    BY <2>1 DEF StaleStep
<1>17. CASE PushSubscriber(t)
  <2>1. pc[t] = "p_sub" /\ ch'.write_adr = ch.write_adr
    BY <1>0, <1>17 DEF PushSubscriber, At, ChType, selVars
  <2>2. \/ \E res \in Results : Return(t, res)
        \/ pc'[t] \in {"p_adv", "p_free", "p_idx", "p_adr"}
    BY <1>0, <1>17 DEF PushSubscriber, Goto, Results
  <2>3. pc'[t] # "p_copy"
    BY <2>2, ReturnTold
  <2> QED
    BY <2>1, <2>3 DEF StaleStep
<1>18. CASE PopStart(t)
  <2>1. pc[t] \in PopLabels /\ ch' = ch
    BY <1>18 DEF PopStart, At, PopLabels
  <2>2. \/ \E res \in Results : Return(t, res)
        \/ pc'[t] \in {"r_adr", "r_sem", "to_select"}
    BY <1>0, <1>18 DEF PopStart, Goto, Results
  <2>3. pc'[t] \notin Under /\ ~ToldBy(pc'[t], fr'[t])
    BY <1>q, <2>1, <2>2, ReturnTold
  <2> QED
    BY <2>1, <2>3 DEF StaleStep
<1>19. CASE PopToken(t)
  <2>1. pc'[t] \notin Under \cup ToldAt /\ ch'.write_adr = ch.write_adr
    BY <1>0, <1>19 DEF PopToken, At, Goto, ChType, selVars, Dir, ToldAt
  <2> QED
    BY <2>1 DEF StaleStep, ToldAt
<1>20. CASE PopNoToken(t)
  <2>1. pc'[t] \notin Under \cup ToldAt /\ ch'.write_adr = ch.write_adr
    BY <1>0, <1>20 DEF PopNoToken, At, Goto, ChType, selVars, Dir, ToldAt
  <2> QED
    BY <2>1 DEF StaleStep, ToldAt
<1>21. CASE PopLooksClosed(t)
  <2>1. pc[t] \in PopLabels /\ ch' = ch
    BY <1>21 DEF PopLooksClosed, At, PopLabels
  <2>2. \/ \E res \in Results : Return(t, res)
        \/ pc'[t] \in {"r_adr", "r_sem", "to_select"}
    BY <1>0, <1>21 DEF PopLooksClosed, Goto, Results
  <2>3. pc'[t] \notin Under /\ ~ToldBy(pc'[t], fr'[t])
    BY <1>q, <2>1, <2>2, ReturnTold
  <2> QED
    BY <2>1, <2>3 DEF StaleStep
<1>22. CASE PopClaims(t)
  <2>1. pc'[t] \notin Under \cup ToldAt /\ ch'.write_adr = ch.write_adr
    BY <1>0, <1>22 DEF PopClaims, At, Goto, ChType, selVars, Dir, ToldAt
  <2> QED
    BY <2>1 DEF StaleStep, ToldAt
<1>23. CASE PopIndex(t)
  <2>1. pc'[t] \notin Under \cup ToldAt /\ ch'.write_adr = ch.write_adr
    BY <1>0, <1>23 DEF PopIndex, At, Goto, ChType, selVars, Dir, ToldAt
  <2> QED
    BY <2>1 DEF StaleStep, ToldAt
<1>24. CASE PopEntersSlot(t)
  <2>1. pc'[t] \notin Under \cup ToldAt /\ ch'.write_adr = ch.write_adr
    BY <1>0, <1>24 DEF PopEntersSlot, At, Goto, ChType, selVars, Dir, ToldAt
  <2> QED
    BY <2>1 DEF StaleStep, ToldAt
<1>25. CASE PopLoads(t)
  <2>1. pc'[t] \notin Under \cup ToldAt /\ ch'.write_adr = ch.write_adr
    BY <1>0, <1>25 DEF PopLoads, At, Goto, ChType, selVars, Dir, ToldAt
  <2> QED
    BY <2>1 DEF StaleStep, ToldAt
<1>26. CASE PopFrees(t)
  <2>1. pc'[t] \notin Under \cup ToldAt /\ ch'.write_adr = ch.write_adr
    BY <1>0, <1>26 DEF PopFrees, At, Goto, ChType, selVars, Dir, ToldAt
  <2> QED
    BY <2>1 DEF StaleStep, ToldAt
<1>27. CASE PopWritesem(t)
  <2>1. pc'[t] \notin Under \cup ToldAt /\ ch'.write_adr = ch.write_adr
    BY <1>0, <1>27 DEF PopWritesem, At, Goto, ChType, selVars, Dir, ToldAt
  <2> QED
    BY <2>1 DEF StaleStep, ToldAt
<1>28. CASE PopSubscriber(t)
  <2>1. pc[t] \in PopLabels /\ ch' = ch
    BY <1>28 DEF PopSubscriber, At, PopLabels
  <2>2. \/ \E res \in Results : Return(t, res)
        \/ pc'[t] \in {"r_adr", "r_sem", "to_select"}
    BY <1>0, <1>28 DEF PopSubscriber, Goto, Results
  <2>3. pc'[t] \notin Under /\ ~ToldBy(pc'[t], fr'[t])
    BY <1>q, <2>1, <2>2, ReturnTold
  <2> QED
    BY <2>1, <2>3 DEF StaleStep
<1>29. CASE PopAdvertises(t)
  <2>1. ch'.write_adr = t /\ pc'[t] = "r_await"
    BY <1>0, <1>29 DEF PopAdvertises, Goto, ChType
  <2> QED
    BY <2>1 DEF StaleStep
<1>30. CASE PopAwaits(t)
  <2>1. ch.adr_written = ClosedMark /\ ch.adr_written # t /\ ~fr[t].have_swapped
    BY <1>u, <1>30 DEF PopAwaits, At, ReaderTok, ReaderSec
  <2>2. Return(t, "closed") /\ ch'.write_adr = ch.write_adr
    BY <1>0, <1>30, <2>1 DEF PopAwaits, ChType
  <2>3. pc'[t] \in {"sel_result", "idle"} /\ ~ToldBy(pc'[t], fr'[t])
    BY <2>2, ReturnTold DEF Results
  <2> QED
    BY <2>2, <2>3 DEF StaleStep
<1>31. CASE PopImSem(t)
  <2>1. pc'[t] \notin Under \cup ToldAt /\ ch'.write_adr = ch.write_adr
    BY <1>0, <1>31 DEF PopImSem, At, Goto, ChType, selVars, Dir, ToldAt
  <2> QED
    BY <2>1 DEF StaleStep, ToldAt
<1>32. CASE PopIsMine(t)
  <2>1. ch.adr_written = ClosedMark /\ ch.adr_written # t /\ ~fr[t].have_swapped
    BY <1>u, <1>32 DEF PopIsMine, At, ReaderTok, ReaderSec
  <2>2. Return(t, "closed") /\ ch'.write_adr = ch.write_adr
    BY <1>0, <1>32, <2>1 DEF PopIsMine, ChType
  <2>3. pc'[t] \in {"sel_result", "idle"} /\ ~ToldBy(pc'[t], fr'[t])
    BY <2>2, ReturnTold DEF Results
  <2> QED
    BY <2>2, <2>3 DEF StaleStep
<1>33. CASE CloseClaims(t)
  <2>1. pc'[t] \notin Under \cup ToldAt /\ ch'.write_adr = ch.write_adr
    BY <1>0, <1>33 DEF CloseClaims, At, Goto, ChType, selVars, Dir, ToldAt
  <2> QED
    BY <2>1 DEF StaleStep, ToldAt
<1>34. CASE CloseWaits(t)
  <2>1. pc'[t] = "idle" /\ ch'.write_adr = ch.write_adr
    BY <1>0, <1>34 DEF CloseWaits, Finish, Goto, ChType
  <2> QED
    BY <2>1 DEF StaleStep
<1>35. CASE CloseSets(t)
  <2>1. pc'[t] \notin Under \cup ToldAt /\ ch'.write_adr = ch.write_adr
    BY <1>0, <1>35 DEF CloseSets, At, Goto, ChType, selVars, Dir, ToldAt
  <2> QED
    BY <2>1 DEF StaleStep, ToldAt
<1>36. CASE CloseMarks(t)
  <2>1. pc'[t] \notin Under \cup ToldAt /\ ch'.write_adr = ch.write_adr
    BY <1>0, <1>36 DEF CloseMarks, At, Goto, ChType, selVars, Dir, ToldAt
  <2> QED
    BY <2>1 DEF StaleStep, ToldAt
<1>37. CASE ClosePostsReaders(t)
  <2>1. pc'[t] \notin Under \cup ToldAt /\ ch'.write_adr = ch.write_adr
    BY <1>0, <1>37 DEF ClosePostsReaders, At, Goto, ChType, selVars, Dir, ToldAt
  <2> QED
    BY <2>1 DEF StaleStep, ToldAt
<1>38. CASE ClosePostsReadSub(t)
  <2>1. pc'[t] \notin Under \cup ToldAt /\ ch'.write_adr = ch.write_adr
    BY <1>0, <1>38 DEF ClosePostsReadSub, At, Goto, ChType, selVars, Dir, ToldAt
  <2> QED
    BY <2>1 DEF StaleStep, ToldAt
<1>39. CASE ClosePostsWriteSub(t)
  <2>1. pc'[t] \notin Under \cup ToldAt /\ ch'.write_adr = ch.write_adr
    BY <1>0, <1>39 DEF ClosePostsWriteSub, At, Goto, ChType, selVars, Dir, ToldAt
  <2> QED
    BY <2>1 DEF StaleStep, ToldAt
<1>40. CASE ClosePostsWriters(t)
  <2>1. pc'[t] \notin Under \cup ToldAt /\ ch'.write_adr = ch.write_adr
    BY <1>0, <1>40 DEF ClosePostsWriters, At, Goto, ChType, selVars, Dir, ToldAt
  <2> QED
    BY <2>1 DEF StaleStep, ToldAt
<1>41. CASE CloseEnds(t)
  <2>1. pc'[t] = "idle" /\ ch'.write_adr = ch.write_adr
    BY <1>0, <1>41 DEF CloseEnds, Finish, Goto, ChType
  <2> QED
    BY <2>1 DEF StaleStep
<1>42. CASE SelSubscribes(t)
  <2>1. pc'[t] \notin Under \cup ToldAt /\ ch'.write_adr = ch.write_adr
    BY <1>0, <1>42 DEF SelSubscribes, At, Goto, ChType, selVars, Dir, ToldAt
  <2> QED
    BY <2>1 DEF StaleStep, ToldAt
<1>43. CASE SelResult(t)
  <2>1. ch' = ch /\ pc[t] = "sel_result" /\ pc'[t] \in {"sel_leave", "sel_recheck", "sel_sleep"}
    BY <1>0, <1>43 DEF SelResult, At, Goto
  <2>2. \/ fr'[t] = fr[t]
        \/ pc'[t] = "sel_leave" /\ fr'[t].result = "timeout"
    <3>1. CASE fr' = fr
      BY <3>1
    <3>2. CASE fr' # fr
      <4>1. fr' = [fr EXCEPT ![t].result = "timeout"] /\ pc'[t] = "sel_leave"
        BY <1>0, <1>43, <3>2 DEF SelResult, Goto
      <4> QED
        BY <1>0, <4>1 DEF FrameType
    <3> QED
      BY <3>1, <3>2
  <2> QED
    BY <2>1, <2>2 DEF StaleStep
<1>44. CASE RecheckLock(t)
  <2>1. pc'[t] \notin Under \cup ToldAt /\ ch'.write_adr = ch.write_adr
    BY <1>0, <1>44 DEF RecheckLock, At, Goto, ChType, selVars, Dir, ToldAt
  <2> QED
    BY <2>1 DEF StaleStep, ToldAt
<1>45. CASE RecheckPeer(t)
  <2>1. ch' = ch /\ pc'[t] \in {"sel_recheck_scan", "sel_sleep"}
    BY <1>0, <1>45 DEF RecheckPeer, At, Goto
  <2> QED
    BY <2>1 DEF StaleStep
<1>46. CASE RecheckEnds(t)
  <2>1. pc'[t] \notin Under \cup ToldAt /\ ch'.write_adr = ch.write_adr
    BY <1>0, <1>46 DEF RecheckEnds, At, Goto, ChType, selVars, Dir, ToldAt
  <2> QED
    BY <2>1 DEF StaleStep, ToldAt
<1>47. CASE SelRescans(t)
  <2>1. pc'[t] \notin Under \cup ToldAt /\ ch'.write_adr = ch.write_adr
    BY <1>0, <1>47 DEF SelRescans, At, Goto, ChType, selVars, Dir, ToldAt
  <2> QED
    BY <2>1 DEF StaleStep, ToldAt
<1>48. CASE SelWakes(t)
  <2>1. pc'[t] \notin Under \cup ToldAt /\ ch'.write_adr = ch.write_adr
    BY <1>0, <1>48 DEF SelWakes, At, Goto, ChType, selVars, Dir, ToldAt
  <2> QED
    BY <2>1 DEF StaleStep, ToldAt
<1>49. CASE SelOutOfTime(t)
  <2>1. ch' = ch /\ fr' = [fr EXCEPT ![t].result = "timeout"] /\ pc'[t] \in {"sel_leave", "push", "pop", "sel_claimed"}
    BY <1>0, <1>49 DEF SelOutOfTime, At, Goto, Dir
  <2>2. pc'[t] = "sel_leave" => fr'[t].result = "timeout"
    BY <1>0, <1>49, <2>1 DEF SelOutOfTime, Goto, Dir, FrameType
  <2> QED
    BY <2>1, <2>2 DEF StaleStep
<1>50. CASE SelWoken(t)
  <2>1. ch' = ch /\ fr' = fr /\ pc'[t] \in {"sel_leave", "push", "pop", "sel_claimed"}
    BY <1>0, <1>50 DEF SelWoken, At, Goto, Dir
  <2>2. pc'[t] = "sel_leave" => fr'[t].result = "timeout"
    BY <1>0, <1>50, <2>1 DEF SelWoken, Goto, Dir, FrameType
  <2> QED
    BY <2>1, <2>2 DEF StaleStep
<1>51. CASE SelServed(t)
  BY <1>v, <1>51 DEF SelServed
<1>52. CASE SelLeaves(t)
  <2>1. pc'[t] = "idle" /\ ch'.write_adr = ch.write_adr
    BY <1>0, <1>52 DEF SelLeaves, Finish, Goto, ChType
  <2> QED
    BY <2>1 DEF StaleStep
<1> QED
  BY <1>0, <1>1, <1>2, <1>3, <1>4, <1>5, <1>6, <1>7, <1>8, <1>9, <1>10, <1>11, <1>12, <1>13, <1>14, <1>15, <1>16, <1>17, <1>18, <1>19, <1>20, <1>21, <1>22, <1>23, <1>24, <1>25, <1>26, <1>27, <1>28, <1>29, <1>30, <1>31, <1>32, <1>33, <1>34, <1>35, <1>36, <1>37, <1>38, <1>39, <1>40, <1>41, <1>42, <1>43, <1>44, <1>45, <1>46, <1>47, <1>48, <1>49, <1>50, <1>51, <1>52
     DEF UnbufferedOnly, Step, to_select, try_push_impl, push_unbuffered, push_buffered, try_pop_impl,
         pop_buffered, pop_waits, close, channel_select


-----------------------------------------------------------------------------
(* Slots *)

(* The number of a reservation is in range, and the slots of the ring go round. *)
LEMMA SlotTickets ==
  ASSUME TypeInv, CountInv, TicketInv, Cap > 0
  PROVE  /\ Puts \in Nat /\ Takes \in Nat /\ Cap \in Nat /\ Takes <= Puts /\ Puts <= Takes + Cap
         /\ \A u \in Thread : pc[u] \in Writing =>
              fr[u].ticket \in 1 .. Puts /\ fr[u].adr = SlotOf(fr[u].ticket) /\ fr[u].adr \in Slot
         /\ \A u \in Thread : pc[u] \in Reading =>
              fr[u].ticket \in 1 .. Takes /\ fr[u].adr = SlotOf(fr[u].ticket) /\ fr[u].adr \in Slot
         /\ \A k \in Nat \ {0} : SlotOf(k + Cap) = SlotOf(k)
<1>1. Puts \in Nat /\ Takes \in Nat /\ Cap \in Nat /\ Takes <= Puts /\ Puts <= Takes + Cap
  <2>1. /\ Puts \in Nat /\ Takes \in Nat /\ Cap \in Nat /\ ch.read_avail \in Nat /\ ch.write_free \in Nat
        /\ Num({"r_idx"}) \in Nat /\ Num({"p_idx"}) \in Nat /\ Num(Reading) \in Nat /\ Num({"r_free"}) \in Nat
        /\ Num(Writing \cup {"p_avail"}) \in Nat
        /\ Puts = Takes + Num({"r_idx"}) + ch.read_avail + Num(Writing \cup {"p_avail"})
        /\ Puts + Num({"p_idx"}) + ch.write_free + Num(Reading) + Num({"r_free"}) = Takes + Cap
    BY RingNumbers
  <2> QED
    BY <2>1
<1>2. ASSUME NEW u \in Thread, pc[u] \in Writing
      PROVE  fr[u].ticket \in 1 .. Puts /\ fr[u].adr = SlotOf(fr[u].ticket) /\ fr[u].adr \in Slot
  <2>1. fr[u].ticket \in 1 .. Puts /\ fr[u].adr = SlotOf(fr[u].ticket)
    BY <1>2 DEF TicketInv
  <2>2. fr[u].ticket \in Nat \ {0}
    BY <1>1, <2>1
  <2>3. SlotOf(fr[u].ticket) \in Slot
    BY <1>1, <2>2, SlotFacts
  <2> QED
    BY <2>1, <2>3
<1>3. ASSUME NEW u \in Thread, pc[u] \in Reading
      PROVE  fr[u].ticket \in 1 .. Takes /\ fr[u].adr = SlotOf(fr[u].ticket) /\ fr[u].adr \in Slot
  <2>1. fr[u].ticket \in 1 .. Takes /\ fr[u].adr = SlotOf(fr[u].ticket)
    BY <1>3 DEF TicketInv
  <2>2. fr[u].ticket \in Nat \ {0}
    BY <1>1, <2>1
  <2>3. SlotOf(fr[u].ticket) \in Slot
    BY <1>1, <2>2, SlotFacts
  <2> QED
    BY <2>1, <2>3
<1>4. ASSUME NEW k \in Nat \ {0} PROVE SlotOf(k + Cap) = SlotOf(k)
  <2>1. Cap \in Nat \ {0} /\ k - 1 \in Int
    BY <1>1
  <2>2. PICK z \in Int : z = 1
    OBVIOUS
  <2>3. ((k - 1) + Cap * z) % Cap = (k - 1) % Cap
    BY <2>1, ModShift
  <2>4. (k - 1) + Cap * z = (k + Cap) - 1
    BY <1>1, <2>2
  <2> QED
    BY <2>3, <2>4 DEF SlotOf
<1> QED
  BY <1>1, <1>2, <1>3, <1>4

(* A slot holds one value. *)
LEMMA StoredOnce ==
  ASSUME TypeInv, CountInv, TicketInv, Cap > 0, ReaderFirst, WritersNear,
         NEW j, NEW k, Stored(j), Stored(k), SlotOf(j) = SlotOf(k)
  PROVE  j = k
<1>0. /\ Puts \in Nat /\ Takes \in Nat /\ Cap \in Nat /\ Takes <= Puts /\ Puts <= Takes + Cap
      /\ j \in 1 .. Puts /\ k \in 1 .. Puts /\ j \in Nat \ {0} /\ k \in Nat \ {0}
      /\ \A i \in Nat \ {0} : SlotOf(i + Cap) = SlotOf(i)
  BY SlotTickets DEF Stored
<1>1. ASSUME NEW a \in 1 .. Puts, NEW b \in 1 .. Puts, Stored(a), Stored(b), SlotOf(a) = SlotOf(b)
      PROVE  b < a + Cap
  <2>1. CASE a > Takes
    BY <1>0, <1>1, <2>1
  <2>2. CASE Unloaded(a) /\ b >= a + Cap
    <3>1. Puts >= a + Cap
      BY <1>0, <2>2
    <3>2. Unstored(a + Cap)
      BY <2>2, <3>1 DEF Unloaded, ReaderFirst
    <3>3. Puts < (a + Cap) + Cap
      BY <3>2 DEF Unstored, WritersNear
    <3>4. SlotOf(a + Cap) = SlotOf(b)
      BY <1>0, <1>1
    <3>5. a + Cap \in Nat \ {0} /\ b \in Nat \ {0} /\ a + Cap < b + Cap /\ b < (a + Cap) + Cap
      BY <1>0, <1>1, <2>2, <3>3
    <3>6. a + Cap = b
      BY <1>0, <3>4, <3>5, SlotFacts
    <3> QED
      BY <1>1, <3>2, <3>6 DEF Stored
  <2> QED
    BY <1>0, <1>1, <2>1, <2>2 DEF Stored
<1>2. j < k + Cap /\ k < j + Cap
  BY <1>0, <1>1
<1> QED
  BY <1>0, <1>2, SlotFacts

(* A step that enters, leaves or fills no slot. *)
LEMMA SlotKept ==
  ASSUME TypeInv, SlotInv, use' = use, NEW t \in Thread, Moves(t),
         Puts' = Puts, Takes' = Takes, hist'.order = hist.order,
         ch'.statusbuf = ch.statusbuf, ch'.ringbuf = ch.ringbuf,
         pc[t] \notin Writing \cup Reading, pc'[t] \notin Writing \cup Reading
  PROVE  SlotInv'
<1>0. Cap' = Cap /\ Slot' = Slot
  BY DEF Cap, Slot
<1>3. /\ \A u \in Thread : pc'[u] \in Writing <=> pc[u] \in Writing
      /\ \A u \in Thread : pc'[u] \in Reading <=> pc[u] \in Reading
      /\ \A u \in Thread : pc'[u] = "p_store" <=> pc[u] = "p_store"
      /\ \A u \in Thread : pc'[u] = "r_load" <=> pc[u] = "r_load"
      /\ \A u \in Thread : pc[u] \in Writing \cup Reading => fr'[u] = fr[u]
      /\ \A u \in Thread : pc[u] \in {"p_store", "r_load"} => fr'[u] = fr[u]
  BY DEF Moves, Writing, Reading
<1>4. \A k : (Unstored(k)' <=> Unstored(k)) /\ (Unloaded(k)' <=> Unloaded(k))
  BY <1>3 DEF Unstored, Unloaded
<1>5. \A k : Stored(k)' <=> Stored(k)
  BY <1>4 DEF Stored
<1>6. \A k : SlotOf(k)' = SlotOf(k)
  BY <1>0 DEF SlotOf
<1>7. WritersNear' /\ ReadersNear'
  BY <1>0, <1>3 DEF SlotInv, WritersNear, ReadersNear
<1>8. ReaderFirst'
  BY <1>0, <1>3 DEF SlotInv, ReaderFirst, Unstored
<1>9. WriterFirst'
  BY <1>3 DEF SlotInv, WriterFirst, Unloaded
<1>10. SlotHolds'
  BY <1>5, <1>6 DEF SlotInv, SlotHolds
<1>11. StoreLock'
  BY <1>3 DEF SlotInv, StoreLock
<1>12. LoadLock'
  <2> SUFFICES ASSUME NEW u \in Thread, pc'[u] = "r_load"
               PROVE  Stored(fr[u].ticket)' /\ ch'.statusbuf[fr'[u].adr] = "reading"
    BY DEF LoadLock
  <2>1. pc[u] = "r_load" /\ fr'[u] = fr[u]
    BY <1>3
  <2>2. Stored(fr[u].ticket) /\ ch.statusbuf[fr[u].adr] = "reading"
    BY <2>1 DEF SlotInv, LoadLock
  <2>3. PICK k : k = fr[u].ticket
    OBVIOUS
  <2>4. Stored(k)'
    BY <1>5, <2>2, <2>3
  <2> QED
    BY <2>1, <2>2, <2>3, <2>4 DEF Stored, Unstored, Unloaded
<1>13. SlotFull'
  BY <1>0, <1>5, <1>6 DEF SlotInv, SlotFull
<1> QED
  BY <1>7, <1>8, <1>9, <1>10, <1>11, <1>12, <1>13 DEF SlotInv


(* The slot i of t gets the status st; who reserves what stays as it is. *)
LEMMA SlotEntered ==
  ASSUME TypeInv, CountInv, TicketInv, Cap > 0, SlotInv, use' = use, NEW t \in Thread, Moves(t),
         PushEntersSlot(t) \/ PopEntersSlot(t)
  PROVE  SlotInv'
<1>0. /\ Cap' = Cap /\ Slot' = Slot /\ pc \in [Thread -> Labels] /\ ch \in ChType
      /\ ch.statusbuf \in [Slot -> {"unused", "writing", "written", "reading"}]
  BY ChFacts DEF TypeInv, Types, Cap, Slot
<1> DEFINE i == fr[t].adr
<1>1. /\ hist' = hist /\ fr' = fr /\ ch'.ringbuf = ch.ringbuf /\ i \in Slot
      /\ \/ /\ pc[t] = "p_slot" /\ pc'[t] = "p_store" /\ ch.statusbuf[i] = "unused"
            /\ ch'.statusbuf = [ch.statusbuf EXCEPT ![i] = "writing"]
         \/ /\ pc[t] = "r_slot" /\ pc'[t] = "r_load" /\ ch.statusbuf[i] = "written"
            /\ ch'.statusbuf = [ch.statusbuf EXCEPT ![i] = "reading"]
  <2>1. i \in Slot
    BY SlotTickets DEF PushEntersSlot, PopEntersSlot, At, Writing, Reading
  <2> QED
    BY <1>0, <2>1 DEF PushEntersSlot, PopEntersSlot, At, Goto, ChType
<1> HIDE DEF i
<1>2. Puts' = Puts /\ Takes' = Takes
  BY <1>1 DEF Puts, Takes
<1>3. /\ \A u \in Thread : pc'[u] \in Writing <=> pc[u] \in Writing
      /\ \A u \in Thread : pc'[u] \in Reading <=> pc[u] \in Reading
  BY <1>1 DEF Moves, Writing, Reading
<1>4. \A k : (Unstored(k)' <=> Unstored(k)) /\ (Unloaded(k)' <=> Unloaded(k))
  BY <1>1, <1>3 DEF Unstored, Unloaded
<1>5. \A k : Stored(k)' <=> Stored(k)
  BY <1>2, <1>4 DEF Stored
<1>6. \A k : SlotOf(k)' = SlotOf(k)
  BY <1>0 DEF SlotOf
<1>7. WritersNear' /\ ReadersNear'
  BY <1>0, <1>1, <1>2, <1>3 DEF SlotInv, WritersNear, ReadersNear
<1>8. ReaderFirst'
  BY <1>0, <1>1, <1>2, <1>3 DEF SlotInv, ReaderFirst, Unstored
<1>9. WriterFirst'
  BY <1>1, <1>2, <1>3 DEF SlotInv, WriterFirst, Unloaded
<1>10. SlotHolds'
  <2> SUFFICES ASSUME NEW k \in 1 .. Puts, Stored(k)
               PROVE  ch'.statusbuf[SlotOf(k)] \in {"written", "reading"} /\ ch'.ringbuf[SlotOf(k)] = hist'.order[k]
    BY <1>2, <1>5, <1>6 DEF SlotHolds
  <2>1. ch.statusbuf[SlotOf(k)] \in {"written", "reading"} /\ ch.ringbuf[SlotOf(k)] = hist.order[k]
    BY DEF SlotInv, SlotHolds
  <2>2. SlotOf(k) \in Slot
    <3>1. Puts \in Nat /\ Cap \in Nat
      BY SlotTickets
    <3> QED
      BY <3>1, SlotFacts
  <2> QED
    BY <1>0, <1>1, <2>1, <2>2
<1>11. SlotFull'
  <2> SUFFICES ASSUME NEW j \in Slot, ch'.statusbuf[j] \in {"written", "reading"}
               PROVE  ch.statusbuf[j] \in {"written", "reading"}
    BY <1>0, <1>2, <1>5, <1>6 DEF SlotInv, SlotFull
  <2> QED
    BY <1>0, <1>1
<1>12. StoreLock'
  <2> SUFFICES ASSUME NEW u \in Thread, pc'[u] = "p_store" PROVE ch'.statusbuf[fr[u].adr] = "writing"
    BY <1>1 DEF StoreLock
  <2>1. CASE u = t
    BY <1>0, <1>1, <2>1 DEF i
  <2>2. CASE u # t
    <3>1. pc[u] = "p_store" /\ ch.statusbuf[fr[u].adr] = "writing" /\ fr[u].adr \in Slot
      BY <2>2, SlotTickets DEF Moves, SlotInv, StoreLock, Writing
    <3> QED
      BY <1>0, <1>1, <3>1
  <2> QED
    BY <2>1, <2>2
<1>13. ASSUME pc[t] = "r_slot" PROVE Stored(fr[t].ticket)
  <2>1. ch.statusbuf[i] = "written" /\ pc[t] \in Reading
    BY <1>1, <1>13 DEF Reading
  <2>2. PICK k \in 1 .. Puts : Stored(k) /\ SlotOf(k) = i
    BY <1>1, <2>1 DEF SlotInv, SlotFull
  <2> DEFINE j == fr[t].ticket
  <2>3. /\ Puts \in Nat /\ Takes \in Nat /\ Cap \in Nat /\ Takes <= Puts
        /\ j \in 1 .. Takes /\ i = SlotOf(j)
    BY <2>1, SlotTickets DEF i
  <2>4. Unloaded(j) /\ Takes < j + Cap
    BY <2>1 DEF Unloaded, SlotInv, ReadersNear
  <2>5. k > Takes \/ Takes < k + Cap
    BY <2>2 DEF Stored, Unloaded, SlotInv, ReadersNear
  <2> HIDE DEF j
  <2>6. ASSUME Unstored(j) PROVE FALSE
    <3>1. Puts < j + Cap
      BY <2>6 DEF Unstored, SlotInv, WritersNear
    <3>2. j \in Nat \ {0} /\ k \in Nat \ {0} /\ k < j + Cap /\ j < k + Cap
      BY <2>2, <2>3, <2>5, <3>1
    <3>3. j = k
      BY <2>2, <2>3, <3>2, SlotFacts
    <3> QED
      BY <2>2, <2>6, <3>3 DEF Stored
  <2>7. j \in 1 .. Puts
    BY <2>3
  <2> QED
    BY <2>4, <2>6, <2>7 DEF Stored, j
<1>14. LoadLock'
  <2> SUFFICES ASSUME NEW u \in Thread, pc'[u] = "r_load"
               PROVE  Stored(fr[u].ticket)' /\ ch'.statusbuf[fr'[u].adr] = "reading"
    BY DEF LoadLock
  <2>1. Stored(fr[u].ticket) /\ ch'.statusbuf[fr[u].adr] = "reading"
    <3>1. CASE u = t
      BY <1>0, <1>1, <1>13, <3>1 DEF i
    <3>2. CASE u # t
      <4>1. /\ pc[u] = "r_load" /\ Stored(fr[u].ticket) /\ ch.statusbuf[fr[u].adr] = "reading"
            /\ fr[u].adr \in Slot
        BY <3>2, SlotTickets DEF Moves, SlotInv, LoadLock, Reading
      <4> QED
        BY <1>0, <1>1, <4>1
    <3> QED
      BY <3>1, <3>2
  <2>2. PICK k : k = fr[u].ticket
    OBVIOUS
  <2>3. Stored(k)'
    BY <1>5, <2>1, <2>2
  <2> QED
    BY <1>1, <2>1, <2>2, <2>3 DEF Stored, Unstored, Unloaded
<1> QED
  BY <1>7, <1>8, <1>9, <1>10, <1>11, <1>12, <1>14 DEF SlotInv

(* A value is stored in a slot that is empty, and that nobody else waits to fill. *)
LEMMA SlotStored ==
  ASSUME TypeInv, CountInv, TicketInv, Cap > 0, SlotInv, use' = use, NEW t \in Thread, Moves(t), PushStores(t)
  PROVE  SlotInv'
<1>0. /\ Cap' = Cap /\ Slot' = Slot /\ pc \in [Thread -> Labels] /\ ch \in ChType
      /\ ch.statusbuf \in [Slot -> {"unused", "writing", "written", "reading"}]
      /\ ch.ringbuf \in [Slot -> Value]
  BY ChFacts DEF TypeInv, Types, Cap, Slot
<1> DEFINE i == fr[t].adr
           n == fr[t].ticket
<1>1. /\ hist' = hist /\ fr' = fr /\ pc[t] = "p_store" /\ pc'[t] = "p_avail"
      /\ ch'.statusbuf = [ch.statusbuf EXCEPT ![i] = "written"]
      /\ ch'.ringbuf = [ch.ringbuf EXCEPT ![i] = obj[t]]
  BY <1>0 DEF PushStores, At, Goto, ChType
<1>n. /\ Puts \in Nat /\ Takes \in Nat /\ Cap \in Nat /\ Takes <= Puts
      /\ \A u \in Thread : pc[u] \in Writing =>
           fr[u].ticket \in 1 .. Puts /\ fr[u].adr = SlotOf(fr[u].ticket) /\ fr[u].adr \in Slot
      /\ \A u \in Thread : pc[u] \in Reading =>
           fr[u].ticket \in 1 .. Takes /\ fr[u].adr = SlotOf(fr[u].ticket) /\ fr[u].adr \in Slot
      /\ \A k \in Nat \ {0} : SlotOf(k + Cap) = SlotOf(k)
  BY SlotTickets
<1>w. /\ pc[t] \in Writing /\ n \in 1 .. Puts /\ i = SlotOf(n) /\ i \in Slot /\ obj[t] = hist.order[n]
      /\ ch.statusbuf[i] = "writing" /\ Puts < n + Cap /\ (n > Takes \/ Unloaded(n)) /\ Unstored(n)
  <2>1. pc[t] \in Writing
    BY <1>1 DEF Writing
  <2>2. n \in 1 .. Puts /\ i = SlotOf(n) /\ i \in Slot /\ obj[t] = hist.order[n]
    BY <1>n, <2>1 DEF TicketInv
  <2> QED
    BY <1>1, <2>1, <2>2 DEF SlotInv, StoreLock, WritersNear, WriterFirst, Unstored
<1>t. \A u \in Thread : pc[u] \in Writing /\ fr[u].ticket = n => u = t
  BY <1>w DEF TicketInv
<1> HIDE DEF i, n
<1>2. Puts' = Puts /\ Takes' = Takes
  BY <1>1 DEF Puts, Takes
<1>3. /\ \A u \in Thread : pc'[u] \in Writing <=> pc[u] \in Writing /\ u # t
      /\ \A u \in Thread : pc'[u] \in Reading <=> pc[u] \in Reading
      /\ \A u \in Thread : pc'[u] = "p_store" <=> pc[u] = "p_store" /\ u # t
      /\ \A u \in Thread : pc'[u] = "r_load" <=> pc[u] = "r_load"
  BY <1>1 DEF Moves, Writing, Reading
<1>4. \A k : (Unstored(k)' <=> Unstored(k) /\ k # n) /\ (Unloaded(k)' <=> Unloaded(k))
  BY <1>1, <1>3, <1>t DEF Unstored, Unloaded, n
<1>5. /\ \A k : k # n => (Stored(k)' <=> Stored(k))
      /\ Stored(n)' /\ ~Stored(n)
  <2>1. \A k : k # n => (Stored(k)' <=> Stored(k))
    BY <1>2, <1>4 DEF Stored
  <2>2. PICK m : m = n
    OBVIOUS
  <2>3. Stored(m)'
    BY <1>2, <1>4, <1>w, <2>2 DEF Stored
  <2>4. Stored(n)'
    BY <1>1, <2>2, <2>3 DEF Stored, Unstored, Unloaded, n
  <2> QED
    BY <1>w, <2>1, <2>4 DEF Stored
<1>6. \A k : SlotOf(k)' = SlotOf(k)
  BY <1>0 DEF SlotOf
<1>7. WritersNear' /\ ReadersNear'
  BY <1>0, <1>1, <1>2, <1>3 DEF SlotInv, WritersNear, ReadersNear
<1>8. ReaderFirst'
  <2> SUFFICES ASSUME NEW u \in Thread, pc[u] \in Reading, Puts >= fr[u].ticket + Cap
               PROVE  Unstored(fr[u].ticket + Cap) /\ fr[u].ticket + Cap # n
    <3>1. \A u \in Thread : pc[u] \in Reading /\ Puts >= fr[u].ticket + Cap =>
            \E v \in Thread : pc[v] \in Writing /\ fr[v].ticket = fr[u].ticket + Cap /\ v # t
      BY DEF Unstored, n
    <3> QED
      BY <1>0, <1>1, <1>2, <1>3, <3>1 DEF ReaderFirst, Unstored
  <2> DEFINE j == fr[u].ticket
  <2>1. Unstored(j + Cap) /\ j \in 1 .. Takes /\ Unloaded(j)
    BY <1>n DEF SlotInv, ReaderFirst, Unloaded
  <2> HIDE DEF j
  <2>2. ASSUME j + Cap = n PROVE FALSE
    <3>1. SlotOf(j) = i /\ j \in 1 .. Puts
      BY <1>n, <1>w, <2>1, <2>2
    <3>2. CASE Unstored(j)
      <4>1. Puts < j + Cap
        BY <3>2 DEF Unstored, SlotInv, WritersNear
      <4> QED
        BY <1>n, <1>w, <2>1, <2>2, <4>1
    <3>3. CASE ~Unstored(j)
      <4>1. Stored(j)
        BY <2>1, <3>1, <3>3 DEF Stored
      <4>2. ch.statusbuf[i] \in {"written", "reading"}
        BY <3>1, <4>1 DEF SlotInv, SlotHolds
      <4> QED
        BY <1>w, <4>2
    <3> QED
      BY <3>2, <3>3
  <2> QED
    BY <2>1, <2>2 DEF j
<1>9. WriterFirst'
  BY <1>1, <1>2, <1>3 DEF SlotInv, WriterFirst, Unloaded
<1>s. \A k \in 1 .. Puts : SlotOf(k) \in Slot
  BY <1>n, SlotFacts
<1>10. SlotHolds'
  <2> SUFFICES ASSUME NEW k \in 1 .. Puts, Stored(k)'
               PROVE  ch'.statusbuf[SlotOf(k)] \in {"written", "reading"} /\ ch'.ringbuf[SlotOf(k)] = hist'.order[k]
    BY <1>2, <1>6 DEF SlotHolds
  <2>1. CASE k = n
    BY <1>0, <1>1, <1>w, <2>1
  <2>2. CASE k # n
    <3>1. ch.statusbuf[SlotOf(k)] \in {"written", "reading"} /\ ch.ringbuf[SlotOf(k)] = hist.order[k]
      BY <1>5, <2>2 DEF SlotInv, SlotHolds
    <3>2. SlotOf(k) # i /\ SlotOf(k) \in Slot
      BY <1>s, <1>w, <3>1
    <3> QED
      BY <1>0, <1>1, <3>1, <3>2
  <2> QED
    BY <2>1, <2>2
<1>11. SlotFull'
  <2> SUFFICES ASSUME NEW j \in Slot, ch'.statusbuf[j] \in {"written", "reading"}
               PROVE  \E k \in 1 .. Puts : Stored(k)' /\ SlotOf(k) = j
    BY <1>0, <1>2, <1>6 DEF SlotFull
  <2>1. CASE j = i
    <3>1. PICK m : m = n
      OBVIOUS
    <3>2. Stored(m)'
      BY <1>1, <1>5, <3>1 DEF Stored, Unstored, Unloaded, n
    <3> QED
      BY <1>w, <2>1, <3>1, <3>2
  <2>2. CASE j # i
    <3>1. PICK k \in 1 .. Puts : Stored(k) /\ SlotOf(k) = j
      BY <1>0, <1>1, <2>2 DEF SlotInv, SlotFull
    <3> QED
      BY <1>5, <3>1
  <2> QED
    BY <2>1, <2>2
<1>12. StoreLock'
  <2> SUFFICES ASSUME NEW u \in Thread, pc[u] = "p_store", u # t PROVE ch'.statusbuf[fr[u].adr] = "writing"
    BY <1>1, <1>3 DEF StoreLock
  <2> DEFINE k == fr[u].ticket
  <2>1. /\ ch.statusbuf[fr[u].adr] = "writing" /\ fr[u].adr \in Slot /\ fr[u].adr = SlotOf(k)
        /\ k \in 1 .. Puts /\ Puts < k + Cap /\ k # n
    BY <1>n, <1>t DEF SlotInv, StoreLock, WritersNear, Writing
  <2> HIDE DEF k
  <2>2. fr[u].adr # i
    <3>1. k \in Nat \ {0} /\ n \in Nat \ {0} /\ k < n + Cap /\ n < k + Cap
      BY <1>n, <1>w, <2>1
    <3> QED
      BY <1>n, <1>w, <2>1, <3>1, SlotFacts
  <2> QED
    BY <1>0, <1>1, <2>1, <2>2
<1>14. LoadLock'
  <2> SUFFICES ASSUME NEW u \in Thread, pc[u] = "r_load"
               PROVE  Stored(fr[u].ticket)' /\ ch'.statusbuf[fr[u].adr] = "reading"
    BY <1>1, <1>3 DEF LoadLock
  <2>1. Stored(fr[u].ticket) /\ ch.statusbuf[fr[u].adr] = "reading" /\ fr[u].adr \in Slot
    BY <1>n DEF SlotInv, LoadLock, Reading
  <2>2. PICK k : k = fr[u].ticket
    OBVIOUS
  <2>3. Stored(k)'
    BY <1>5, <2>1, <2>2
  <2>4. ch'.statusbuf[fr[u].adr] = "reading"
    BY <1>0, <1>1, <1>w, <2>1
  <2> QED
    BY <1>1, <2>2, <2>3, <2>4 DEF Stored, Unstored, Unloaded
<1> QED
  BY <1>7, <1>8, <1>9, <1>10, <1>11, <1>12, <1>14 DEF SlotInv


(* A value is loaded from the slot that holds it, and no other is in that slot. *)
LEMMA SlotLoaded ==
  ASSUME TypeInv, CountInv, TicketInv, Cap > 0, SlotInv, use' = use, NEW t \in Thread, Moves(t), PopLoads(t)
  PROVE  SlotInv' /\ obj'[t] = hist.order[fr[t].ticket]
<1>0. /\ Cap' = Cap /\ Slot' = Slot /\ pc \in [Thread -> Labels] /\ ch \in ChType
      /\ ch.statusbuf \in [Slot -> {"unused", "writing", "written", "reading"}]
      /\ ch.ringbuf \in [Slot -> Value] /\ obj \in [Thread -> Value]
  BY ChFacts DEF TypeInv, Types, Cap, Slot
<1> DEFINE i == fr[t].adr
           n == fr[t].ticket
<1>1. /\ hist' = hist /\ fr' = fr /\ pc[t] = "r_load" /\ pc'[t] = "r_free"
      /\ ch'.statusbuf = [ch.statusbuf EXCEPT ![i] = "unused"]
      /\ ch'.ringbuf = ch.ringbuf /\ obj' = [obj EXCEPT ![t] = ch.ringbuf[i]]
  BY <1>0 DEF PopLoads, At, Goto, ChType
<1>n. /\ Puts \in Nat /\ Takes \in Nat /\ Cap \in Nat /\ Takes <= Puts
      /\ \A u \in Thread : pc[u] \in Writing =>
           fr[u].ticket \in 1 .. Puts /\ fr[u].adr = SlotOf(fr[u].ticket) /\ fr[u].adr \in Slot
      /\ \A u \in Thread : pc[u] \in Reading =>
           fr[u].ticket \in 1 .. Takes /\ fr[u].adr = SlotOf(fr[u].ticket) /\ fr[u].adr \in Slot
  BY SlotTickets
<1>w. /\ pc[t] \in Reading /\ n \in 1 .. Takes /\ n \in 1 .. Puts /\ i = SlotOf(n) /\ i \in Slot
      /\ ch.statusbuf[i] = "reading" /\ Stored(n)
  <2>1. pc[t] \in Reading
    BY <1>1 DEF Reading
  <2>2. n \in 1 .. Takes /\ i = SlotOf(n) /\ i \in Slot
    BY <1>n, <2>1
  <2> QED
    BY <1>1, <1>n, <2>1, <2>2 DEF SlotInv, LoadLock
<1>t. \A u \in Thread : pc[u] \in Reading /\ fr[u].ticket = n => u = t
  BY <1>w DEF TicketInv
<1>o. ch.ringbuf[i] = hist.order[n]
  BY <1>w DEF SlotInv, SlotHolds
<1>q. obj'[t] = hist.order[fr[t].ticket]
  BY <1>0, <1>1, <1>o
<1> HIDE DEF i, n
<1>2. Puts' = Puts /\ Takes' = Takes
  BY <1>1 DEF Puts, Takes
<1>3. /\ \A u \in Thread : pc'[u] \in Writing <=> pc[u] \in Writing
      /\ \A u \in Thread : pc'[u] \in Reading <=> pc[u] \in Reading /\ u # t
      /\ \A u \in Thread : pc'[u] = "p_store" <=> pc[u] = "p_store"
      /\ \A u \in Thread : pc'[u] = "r_load" <=> pc[u] = "r_load" /\ u # t
  BY <1>1 DEF Moves, Writing, Reading
<1>4. \A k : (Unstored(k)' <=> Unstored(k)) /\ (Unloaded(k)' <=> Unloaded(k) /\ k # n)
  BY <1>1, <1>3, <1>t DEF Unstored, Unloaded, n
<1>5. \A k : Stored(k)' <=> Stored(k) /\ k # n
  <2>1. \A k : k # n => (Stored(k)' <=> Stored(k))
    BY <1>2, <1>4 DEF Stored
  <2>2. PICK m : m = n
    OBVIOUS
  <2>3. ~Stored(m)'
    BY <1>2, <1>4, <1>n, <1>w, <2>2 DEF Stored
  <2> QED
    BY <2>1, <2>2, <2>3
<1>6. \A k : SlotOf(k)' = SlotOf(k)
  BY <1>0 DEF SlotOf
<1>u. ASSUME NEW k, Stored(k), SlotOf(k) = i PROVE k = n
  BY <1>u, <1>w, StoredOnce DEF SlotInv
<1>7. WritersNear' /\ ReadersNear'
  BY <1>0, <1>1, <1>2, <1>3 DEF SlotInv, WritersNear, ReadersNear
<1>8. ReaderFirst'
  BY <1>0, <1>1, <1>2, <1>3 DEF SlotInv, ReaderFirst, Unstored
<1>9. WriterFirst'
  <2> SUFFICES ASSUME NEW u \in Thread, pc[u] \in Writing
               PROVE  fr[u].ticket > Takes \/ (Unloaded(fr[u].ticket) /\ fr[u].ticket # n)
    <3>1. \A u \in Thread : pc[u] \in Writing =>
            fr[u].ticket > Takes \/ \E v \in Thread : pc[v] \in Reading /\ fr[v].ticket = fr[u].ticket /\ v # t
      BY DEF Unloaded, n
    <3> QED
      BY <1>1, <1>2, <1>3, <3>1 DEF WriterFirst, Unloaded
  <2>1. fr[u].ticket # n
    BY <1>w DEF Stored, Unstored
  <2> QED
    BY <2>1 DEF SlotInv, WriterFirst
<1>s. \A k \in 1 .. Puts : SlotOf(k) \in Slot
  BY <1>n, SlotFacts
<1>10. SlotHolds'
  <2> SUFFICES ASSUME NEW k \in 1 .. Puts, Stored(k), k # n
               PROVE  ch'.statusbuf[SlotOf(k)] \in {"written", "reading"} /\ ch'.ringbuf[SlotOf(k)] = hist'.order[k]
    BY <1>2, <1>5, <1>6 DEF SlotHolds
  <2>1. ch.statusbuf[SlotOf(k)] \in {"written", "reading"} /\ ch.ringbuf[SlotOf(k)] = hist.order[k]
    BY DEF SlotInv, SlotHolds
  <2>2. SlotOf(k) # i /\ SlotOf(k) \in Slot
    BY <1>s, <1>u
  <2> QED
    BY <1>0, <1>1, <2>1, <2>2
<1>11. SlotFull'
  <2> SUFFICES ASSUME NEW j \in Slot, ch'.statusbuf[j] \in {"written", "reading"}
               PROVE  \E k \in 1 .. Puts : Stored(k)' /\ SlotOf(k) = j
    BY <1>0, <1>2, <1>6 DEF SlotFull
  <2>1. j # i /\ ch.statusbuf[j] \in {"written", "reading"}
    BY <1>0, <1>1
  <2>2. PICK k \in 1 .. Puts : Stored(k) /\ SlotOf(k) = j
    BY <2>1 DEF SlotInv, SlotFull
  <2>3. k # n
    BY <1>w, <2>1, <2>2
  <2> QED
    BY <1>5, <2>2, <2>3
<1>12. StoreLock'
  <2> SUFFICES ASSUME NEW u \in Thread, pc[u] = "p_store" PROVE ch'.statusbuf[fr[u].adr] = "writing"
    BY <1>1, <1>3 DEF StoreLock
  <2>1. ch.statusbuf[fr[u].adr] = "writing" /\ fr[u].adr \in Slot
    BY <1>n DEF SlotInv, StoreLock, Writing
  <2> QED
    BY <1>0, <1>1, <1>w, <2>1
<1>14. LoadLock'
  <2> SUFFICES ASSUME NEW u \in Thread, pc[u] = "r_load", u # t
               PROVE  Stored(fr[u].ticket)' /\ ch'.statusbuf[fr[u].adr] = "reading"
    BY <1>1, <1>3 DEF LoadLock
  <2>1. /\ Stored(fr[u].ticket) /\ ch.statusbuf[fr[u].adr] = "reading" /\ fr[u].adr \in Slot
        /\ fr[u].adr = SlotOf(fr[u].ticket) /\ fr[u].ticket # n
    BY <1>n, <1>t DEF SlotInv, LoadLock, Reading
  <2>2. PICK k : k = fr[u].ticket
    OBVIOUS
  <2>3. Stored(k)'
    BY <1>5, <2>1, <2>2
  <2>4. ch'.statusbuf[fr[u].adr] = "reading"
    BY <1>0, <1>1, <1>u, <2>1
  <2> QED
    BY <1>1, <2>2, <2>3, <2>4 DEF Stored, Unstored, Unloaded
<1> QED
  BY <1>q, <1>7, <1>8, <1>9, <1>10, <1>11, <1>12, <1>14 DEF SlotInv


(* Why nobody is about to store in the slot that the next sender reserves: with one sender *)
(* there is no other, with one receiver the value before is loaded when space is reserved, *)
(* and in a ring of two there is no receiver when both senders are in it.                  *)
LEMMA NextPut ==
  ASSUME TypeInv, CountInv, TicketInv, AloneInv, Cap > 0, SlotInv, InOrder(use),
         NEW t \in Thread, pc[t] = "p_idx", NEW u \in Thread, pc[u] \in Writing
  PROVE  Puts + 1 < fr[u].ticket + Cap
<1> DEFINE k == fr[u].ticket
           ri == Num({"r_idx"})
           pi == Num({"p_idx"})
           rd == Num(Reading)
           rf == Num({"r_free"})
           wr == Num(Writing \cup {"p_avail"})
           fi == Num(Filling)
           dr == Num(Draining)
           av == ch.read_avail
           wf == ch.write_free
           p == Puts
           s == Takes
           c == Cap
<1>1. /\ ri \in Nat /\ pi \in Nat /\ rd \in Nat /\ rf \in Nat /\ wr \in Nat /\ fi \in Nat /\ dr \in Nat
      /\ av \in Nat /\ wf \in Nat /\ p \in Nat /\ s \in Nat /\ c \in Nat
      /\ fi = pi + wr /\ dr = ri + rd + rf /\ wf + fi + av + dr = c
      /\ p + pi + wf + rd + rf = s + c
  BY RingNumbers
<1>2. pc \in [Thread -> Labels]
  BY DEF TypeInv, Types
<1>3. pi >= 1 /\ wr >= 1
  <2>1. pc[t] \in {"p_idx"} /\ pc[u] \in Writing \cup {"p_avail"}
    OBVIOUS
  <2> QED
    BY <1>2, <2>1, Counted DEF Num
<1>4. k \in 1 .. p /\ (k > s \/ Unloaded(k))
  BY SlotTickets DEF SlotInv, WriterFirst
<1>5. Unloaded(k) => rd >= 1
  BY <1>2, Counted DEF Num, Unloaded
<1>6. CASE k > s
  <2> HIDE DEF k, ri, pi, rd, rf, wr, fi, dr, av, wf, p, s, c
  <2>1. p + 1 < k + c
    BY <1>1, <1>3, <1>4, <1>6
  <2> QED
    BY <2>1 DEF p, k, c
<1>7. CASE Unloaded(k) /\ Cardinality(Senders(use)) <= 1
  <2>1. t \in Senders(use) /\ u \in Senders(use)
    BY Parties DEF Writing, PushLabels
  <2>2. t = u
    BY <1>7, <2>1, OnlyOne DEF Senders
  <2> QED
    BY <2>2 DEF Writing
<1>8. CASE Unloaded(k) /\ Cardinality(Receivers(use)) <= 1
  <2>1. k = s
    BY <1>8 DEF AloneInv, Unloaded
  <2>2. rd >= 1
    BY <1>5, <1>8
  <2> HIDE DEF k, ri, pi, rd, rf, wr, fi, dr, av, wf, p, s, c
  <2>3. p + 1 < k + c
    BY <1>1, <1>3, <1>4, <2>1, <2>2
  <2> QED
    BY <2>3 DEF p, k, c
<1>9. CASE Unloaded(k) /\ use.cap <= 2
  <2>1. c <= 2 /\ rd >= 1
    BY <1>5, <1>9 DEF Cap
  <2> HIDE DEF k, ri, pi, rd, rf, wr, fi, dr, av, wf, p, s, c
  <2> QED
    BY <1>1, <1>3, <2>1
<1> QED
  BY <1>4, <1>6, <1>7, <1>8, <1>9 DEF InOrder

LEMMA SlotPut ==
  ASSUME TypeInv, CountInv, TicketInv, AloneInv, Cap > 0, SlotInv, InOrder(use), use' = use,
         NEW t \in Thread, Moves(t), PushIndex(t), TicketStep(t)
  PROVE  SlotInv'
<1>0. /\ Cap' = Cap /\ Slot' = Slot /\ pc \in [Thread -> Labels] /\ ch \in ChType /\ hist \in HistType
  BY DEF TypeInv, Types, Cap, Slot
<1>1. /\ pc[t] = "p_idx" /\ pc'[t] = "p_slot" /\ hist'.tickets = hist.tickets
      /\ ch'.statusbuf = ch.statusbuf /\ ch'.ringbuf = ch.ringbuf
  BY <1>0 DEF PushIndex, At, Goto, ChType, HistType
<1>n. Puts \in Nat /\ Takes \in Nat /\ Cap \in Nat /\ Takes <= Puts /\ Puts <= Takes + Cap
  BY SlotTickets
<1> DEFINE n == Puts + 1
<1>2. Takes' = Takes /\ Puts' = n /\ fr'[t].ticket = n /\ \A k \in 1 .. Puts : hist'.order[k] = hist.order[k]
  BY <1>1 DEF TicketStep, Takes, Writing
<1> HIDE DEF n
<1>3. /\ \A u \in Thread : pc'[u] \in Writing <=> pc[u] \in Writing \/ u = t
      /\ \A u \in Thread : pc'[u] \in Reading <=> pc[u] \in Reading
      /\ \A u \in Thread : pc'[u] = "p_store" <=> pc[u] = "p_store"
      /\ \A u \in Thread : pc'[u] = "r_load" <=> pc[u] = "r_load"
      /\ pc[t] \notin Writing \cup Reading \cup {"p_store", "r_load"}
      /\ \A u \in Thread : u # t => fr'[u] = fr[u]
  BY <1>1 DEF Moves, Writing, Reading
<1>4. \A k : (Unstored(k)' <=> Unstored(k) \/ k = n) /\ (Unloaded(k)' <=> Unloaded(k))
  BY <1>2, <1>3 DEF Unstored, Unloaded
<1>5. \A k : Stored(k)' <=> Stored(k)
  <2>1. \A k : k \in 1 .. n /\ k # n <=> k \in 1 .. Puts
    BY <1>n DEF n
  <2> QED
    BY <1>2, <1>4, <2>1 DEF Stored
<1>6. \A k : SlotOf(k)' = SlotOf(k)
  BY <1>0 DEF SlotOf
<1>7. WritersNear'
  <2> SUFFICES ASSUME NEW u \in Thread, pc'[u] \in Writing PROVE n < fr'[u].ticket + Cap
    BY <1>0, <1>2 DEF WritersNear
  <2>1. CASE u = t
    BY <1>2, <1>n, <2>1 DEF n
  <2>2. CASE u # t
    BY <1>1, <1>3, <2>2, NextPut DEF n
  <2> QED
    BY <2>1, <2>2
<1>8. ReadersNear'
  BY <1>0, <1>2, <1>3 DEF SlotInv, ReadersNear
<1>9. ReaderFirst'
  <2> SUFFICES ASSUME NEW u \in Thread, pc[u] \in Reading, u # t, n >= fr[u].ticket + Cap
               PROVE  \E v \in Thread : pc'[v] \in Writing /\ fr'[v].ticket = fr[u].ticket + Cap
    BY <1>0, <1>2, <1>3 DEF ReaderFirst, Unstored
  <2>1. fr[u].ticket \in Nat
    BY <1>n, SlotTickets
  <2>2. CASE Puts >= fr[u].ticket + Cap
    <3>1. PICK v \in Thread : pc[v] \in Writing /\ fr[v].ticket = fr[u].ticket + Cap
      BY <2>2 DEF SlotInv, ReaderFirst, Unstored
    <3>2. v # t /\ pc'[v] \in Writing /\ fr'[v] = fr[v]
      BY <1>3, <3>1
    <3> QED
      BY <3>1, <3>2
  <2>3. CASE n = fr[u].ticket + Cap
    BY <1>2, <1>3, <2>3
  <2> QED
    BY <1>n, <2>1, <2>2, <2>3 DEF n
<1>10. WriterFirst'
  <2> SUFFICES ASSUME NEW u \in Thread, pc'[u] \in Writing
               PROVE  fr'[u].ticket > Takes \/ \E v \in Thread : pc'[v] \in Reading /\ fr'[v].ticket = fr'[u].ticket
    BY <1>2 DEF WriterFirst, Unloaded
  <2>1. CASE u = t
    BY <1>2, <1>n, <2>1 DEF n
  <2>2. CASE u # t
    <3>1. pc[u] \in Writing /\ fr'[u] = fr[u]
      BY <1>3, <2>2
    <3>2. fr[u].ticket > Takes \/ \E v \in Thread : pc[v] \in Reading /\ fr[v].ticket = fr[u].ticket
      BY <3>1 DEF SlotInv, WriterFirst, Unloaded
    <3> QED
      BY <1>3, <3>1, <3>2
  <2> QED
    BY <2>1, <2>2
<1>11. SlotHolds'
  <2> SUFFICES ASSUME NEW k, Stored(k)
               PROVE  ch.statusbuf[SlotOf(k)] \in {"written", "reading"} /\ ch.ringbuf[SlotOf(k)] = hist'.order[k]
    BY <1>1, <1>5, <1>6 DEF SlotHolds
  <2>1. k \in 1 .. Puts
    BY DEF Stored
  <2> QED
    BY <1>2, <2>1 DEF SlotInv, SlotHolds
<1>12. SlotFull'
  <2> SUFFICES ASSUME NEW j \in Slot, ch.statusbuf[j] \in {"written", "reading"}
               PROVE  \E k \in 1 .. n : Stored(k) /\ SlotOf(k) = j
    BY <1>0, <1>1, <1>2, <1>5, <1>6 DEF SlotFull
  <2>1. PICK k \in 1 .. Puts : Stored(k) /\ SlotOf(k) = j
    BY DEF SlotInv, SlotFull
  <2> QED
    BY <1>n, <2>1 DEF n
<1>13. StoreLock'
  BY <1>1, <1>3 DEF SlotInv, StoreLock
<1>14. LoadLock'
  <2> SUFFICES ASSUME NEW u \in Thread, pc[u] = "r_load", fr'[u] = fr[u]
               PROVE  Stored(fr[u].ticket)' /\ ch.statusbuf[fr[u].adr] = "reading"
    BY <1>1, <1>3 DEF LoadLock
  <2>1. Stored(fr[u].ticket) /\ ch.statusbuf[fr[u].adr] = "reading"
    BY DEF SlotInv, LoadLock
  <2>2. PICK k : k = fr[u].ticket
    OBVIOUS
  <2>3. Stored(k)'
    BY <1>5, <2>1, <2>2
  <2> QED
    BY <2>1, <2>2, <2>3 DEF Stored, Unstored, Unloaded
<1> QED
  BY <1>7, <1>8, <1>9, <1>10, <1>11, <1>12, <1>13, <1>14 DEF SlotInv

(* Why no other receiver waits for the slot that the next one reserves. *)
LEMMA NextTake ==
  ASSUME TypeInv, CountInv, TicketInv, AloneInv, Cap > 0, SlotInv, InOrder(use),
         NEW t \in Thread, pc[t] = "r_idx", NEW u \in Thread, pc[u] \in Reading
  PROVE  Takes + 1 < fr[u].ticket + Cap
<1> DEFINE k == fr[u].ticket
           ri == Num({"r_idx"})
           pi == Num({"p_idx"})
           rd == Num(Reading)
           rf == Num({"r_free"})
           wr == Num(Writing \cup {"p_avail"})
           fi == Num(Filling)
           dr == Num(Draining)
           av == ch.read_avail
           wf == ch.write_free
           p == Puts
           s == Takes
           c == Cap
<1>1. /\ ri \in Nat /\ pi \in Nat /\ rd \in Nat /\ rf \in Nat /\ wr \in Nat /\ fi \in Nat /\ dr \in Nat
      /\ av \in Nat /\ wf \in Nat /\ p \in Nat /\ s \in Nat /\ c \in Nat
      /\ fi = pi + wr /\ dr = ri + rd + rf /\ wf + fi + av + dr = c
      /\ p = s + ri + av + wr
  BY RingNumbers
<1>2. pc \in [Thread -> Labels]
  BY DEF TypeInv, Types
<1>3. ri >= 1 /\ rd >= 1
  <2>1. pc[t] \in {"r_idx"} /\ pc[u] \in Reading
    OBVIOUS
  <2> QED
    BY <1>2, <2>1, Counted DEF Num
<1>4. k \in 1 .. s
  BY SlotTickets
<1>5. ASSUME s + 1 >= k + c PROVE Unstored(k + c) /\ wr >= 1
  <2>1. p >= k + c
    <3> HIDE DEF k, ri, pi, rd, rf, wr, fi, dr, av, wf, p, s, c
    <3> QED
      BY <1>1, <1>3, <1>4, <1>5
  <2>2. Unstored(k + c)
    BY <2>1 DEF SlotInv, ReaderFirst
  <2>3. wr >= 1
    BY <1>2, <2>2, Counted DEF Num, Unstored
  <2> QED
    BY <2>2, <2>3
<1>6. CASE s + 1 < k + c
  BY <1>6
<1>7. CASE s + 1 >= k + c /\ Cardinality(Receivers(use)) <= 1
  <2>1. t \in Receivers(use) /\ u \in Receivers(use)
    BY Parties DEF Reading, PopLabels
  <2>2. t = u
    BY <1>7, <2>1, OnlyOne DEF Receivers
  <2> QED
    BY <2>2 DEF Reading
<1>8. CASE s + 1 >= k + c /\ Cardinality(Senders(use)) <= 1
  <2>1. k + c = p /\ wr >= 1
    BY <1>5, <1>8 DEF AloneInv, Unstored
  <2> HIDE DEF k, ri, pi, rd, rf, wr, fi, dr, av, wf, p, s, c
  <2> QED
    BY <1>1, <1>3, <1>4, <1>8, <2>1
<1>9. CASE s + 1 >= k + c /\ use.cap <= 2
  <2>1. c <= 2 /\ wr >= 1
    BY <1>5, <1>9 DEF Cap
  <2> HIDE DEF k, ri, pi, rd, rf, wr, fi, dr, av, wf, p, s, c
  <2> QED
    BY <1>1, <1>3, <2>1
<1>10. s + 1 < k + c \/ s + 1 >= k + c
  <2> HIDE DEF k, p, s, c
  <2> QED
    BY <1>1, <1>4
<1> QED
  BY <1>6, <1>7, <1>8, <1>9, <1>10 DEF InOrder


LEMMA SlotTake ==
  ASSUME TypeInv, CountInv, TicketInv, AloneInv, Cap > 0, SlotInv, InOrder(use), use' = use,
         NEW t \in Thread, Moves(t), PopIndex(t), TicketStep(t)
  PROVE  SlotInv'
<1>0. /\ Cap' = Cap /\ Slot' = Slot /\ pc \in [Thread -> Labels] /\ ch \in ChType /\ hist \in HistType
  BY DEF TypeInv, Types, Cap, Slot
<1>1. /\ pc[t] = "r_idx" /\ pc'[t] = "r_slot" /\ hist'.order = hist.order
      /\ ch'.statusbuf = ch.statusbuf /\ ch'.ringbuf = ch.ringbuf
  BY <1>0 DEF PopIndex, At, Goto, ChType, HistType
<1>n. Puts \in Nat /\ Takes \in Nat /\ Cap \in Nat /\ Takes + 1 <= Puts /\ Puts <= Takes + Cap
  <2>1. /\ Puts \in Nat /\ Takes \in Nat /\ Num({"r_idx"}) \in Nat /\ ch.read_avail \in Nat
        /\ Num(Writing \cup {"p_avail"}) \in Nat
        /\ Puts = Takes + Num({"r_idx"}) + ch.read_avail + Num(Writing \cup {"p_avail"})
    BY RingNumbers
  <2>2. Num({"r_idx"}) >= 1
    BY <1>0, <1>1, Counted DEF Num
  <2>3. Takes + 1 <= Puts
    BY <2>1, <2>2
  <2> QED
    BY <2>3, SlotTickets
<1> DEFINE n == Takes + 1
<1>2. Puts' = Puts /\ Takes' = n /\ fr'[t].ticket = n
  BY <1>1 DEF TicketStep, Puts, Reading
<1> HIDE DEF n
<1>3. /\ \A u \in Thread : pc'[u] \in Writing <=> pc[u] \in Writing
      /\ \A u \in Thread : pc'[u] \in Reading <=> pc[u] \in Reading \/ u = t
      /\ \A u \in Thread : pc'[u] = "p_store" <=> pc[u] = "p_store"
      /\ \A u \in Thread : pc'[u] = "r_load" <=> pc[u] = "r_load"
      /\ pc[t] \notin Writing \cup Reading \cup {"p_store", "r_load"}
      /\ \A u \in Thread : u # t => fr'[u] = fr[u]
  BY <1>1 DEF Moves, Writing, Reading
<1>4. \A k : (Unstored(k)' <=> Unstored(k)) /\ (Unloaded(k)' <=> Unloaded(k) \/ k = n)
  BY <1>2, <1>3 DEF Unstored, Unloaded
<1>5. \A k : Stored(k)' <=> Stored(k)
  <2>1. \A k \in 1 .. Puts : k > n \/ k = n <=> k > Takes
    BY <1>n DEF n
  <2> QED
    BY <1>2, <1>4, <2>1 DEF Stored
<1>6. \A k : SlotOf(k)' = SlotOf(k)
  BY <1>0 DEF SlotOf
<1>7. WritersNear'
  BY <1>0, <1>2, <1>3 DEF SlotInv, WritersNear
<1>8. ReadersNear'
  <2> SUFFICES ASSUME NEW u \in Thread, pc'[u] \in Reading PROVE n < fr'[u].ticket + Cap
    BY <1>0, <1>2 DEF ReadersNear
  <2>1. CASE u = t
    BY <1>2, <1>n, <2>1 DEF n
  <2>2. CASE u # t
    BY <1>1, <1>3, <2>2, NextTake DEF n
  <2> QED
    BY <2>1, <2>2
<1>9. ReaderFirst'
  <2> SUFFICES ASSUME NEW u \in Thread, pc'[u] \in Reading, Puts >= fr'[u].ticket + Cap
               PROVE  \E v \in Thread : pc'[v] \in Writing /\ fr'[v].ticket = fr'[u].ticket + Cap
    BY <1>0, <1>2 DEF ReaderFirst, Unstored
  <2>1. u # t
    BY <1>2, <1>n DEF n
  <2>2. PICK v \in Thread : pc[v] \in Writing /\ fr[v].ticket = fr[u].ticket + Cap
    BY <1>3, <2>1 DEF SlotInv, ReaderFirst, Unstored
  <2> QED
    BY <1>3, <2>1, <2>2
<1>10. WriterFirst'
  <2> SUFFICES ASSUME NEW u \in Thread, pc[u] \in Writing, u # t
               PROVE  fr[u].ticket > n \/ \E v \in Thread : pc'[v] \in Reading /\ fr'[v].ticket = fr[u].ticket
    BY <1>2, <1>3 DEF WriterFirst, Unloaded
  <2>1. fr[u].ticket \in 1 .. Puts
    BY SlotTickets
  <2>2. CASE fr[u].ticket > Takes
    <3>1. fr[u].ticket > n \/ fr[u].ticket = n
      BY <1>n, <2>1, <2>2 DEF n
    <3> QED
      BY <1>2, <1>3, <3>1
  <2>3. CASE Unloaded(fr[u].ticket)
    BY <1>3, <2>3 DEF Unloaded
  <2> QED
    BY <2>2, <2>3 DEF SlotInv, WriterFirst
<1>11. SlotHolds'
  BY <1>1, <1>2, <1>5, <1>6 DEF SlotInv, SlotHolds
<1>12. SlotFull'
  BY <1>0, <1>1, <1>2, <1>5, <1>6 DEF SlotInv, SlotFull
<1>13. StoreLock'
  BY <1>1, <1>3 DEF SlotInv, StoreLock
<1>14. LoadLock'
  <2> SUFFICES ASSUME NEW u \in Thread, pc[u] = "r_load", fr'[u] = fr[u]
               PROVE  Stored(fr[u].ticket)' /\ ch.statusbuf[fr[u].adr] = "reading"
    BY <1>1, <1>3 DEF LoadLock
  <2>1. Stored(fr[u].ticket) /\ ch.statusbuf[fr[u].adr] = "reading"
    BY DEF SlotInv, LoadLock
  <2>2. PICK k : k = fr[u].ticket
    OBVIOUS
  <2>3. Stored(k)'
    BY <1>5, <2>1, <2>2
  <2> QED
    BY <2>1, <2>2, <2>3 DEF Stored, Unstored, Unloaded
<1> QED
  BY <1>7, <1>8, <1>9, <1>10, <1>11, <1>12, <1>13, <1>14 DEF SlotInv


(* The steps of the ring. *)
RingAct(t) ==
  \/ PushIndex(t) \/ PushEntersSlot(t) \/ PushStores(t) \/ PushAvail(t)
  \/ PopClaims(t) \/ PopIndex(t) \/ PopEntersSlot(t) \/ PopLoads(t)

LEMMA RingActs ==
  ASSUME TypeInv, NEW t \in Thread, Cap > 0, Begin(t) \/ Step(t), ~RingAct(t)
  PROVE  pc[t] \notin RingAt /\ pc'[t] \notin RingAt
<1>0. pc \in [Thread -> Labels] /\ ~UnbufferedOnly(t) /\ Cap \in Nat
  BY UnbufferedSteps, UseFacts DEF TypeInv, Types
<1> USE DEF RingAt, Writing, Reading
<1>1. CASE Begin(t)
  BY <1>0, <1>1, BeginFacts
<1>2. CASE PushStart(t)
  BY <1>0, <1>2, BackFacts DEF PushStart, At, Goto
<1>3. CASE PushTakes(t)
  BY <1>0, <1>3 DEF PushTakes, At, Goto
<1>4. CASE PushCopies(t)
  BY <1>0, <1>4 DEF PushCopies, At, Goto
<1>5. CASE PushPublishes(t)
  BY <1>0, <1>5 DEF PushPublishes, At, Goto
<1>6. CASE PushPosts(t)
  BY <1>0, <1>6, BackFacts DEF PushPosts, At, Goto
<1>7. CASE PushNoReader(t)
  BY <1>0, <1>7 DEF PushNoReader, At, Goto
<1>8. CASE PushToken(t)
  BY <1>0, <1>8 DEF PushToken, At, Goto
<1>9. CASE PushNoToken(t)
  BY <1>0, <1>9, BackFacts DEF PushNoToken, At, Goto
<1>10. CASE PushAfterToken(t)
  BY <1>0, <1>10, BackFacts DEF PushAfterToken, At, Goto
<1>11. CASE PushReserves(t)
  BY <1>0, <1>11, BackFacts DEF PushReserves, At, Goto
<1>12. CASE PushReadsem(t)
  BY <1>0, <1>12 DEF PushReadsem, At, Goto
<1>13. CASE PushSubscriber(t)
  BY <1>0, <1>13, BackFacts DEF PushSubscriber, At, Goto
<1>14. CASE PopStart(t)
  BY <1>0, <1>14, BackFacts DEF PopStart, At, Goto
<1>15. CASE PopToken(t)
  BY <1>0, <1>15 DEF PopToken, At, Goto
<1>16. CASE PopNoToken(t)
  BY <1>0, <1>16 DEF PopNoToken, At, Goto
<1>17. CASE PopLooksClosed(t)
  BY <1>0, <1>17, BackFacts DEF PopLooksClosed, At, Goto
<1>18. CASE PopFrees(t)
  BY <1>0, <1>18 DEF PopFrees, At, Goto
<1>19. CASE PopWritesem(t)
  BY <1>0, <1>19 DEF PopWritesem, At, Goto
<1>20. CASE PopSubscriber(t)
  BY <1>0, <1>20, BackFacts DEF PopSubscriber, At, Goto
<1>21. CASE PopAdvertises(t)
  BY <1>0, <1>21 DEF PopAdvertises, At, Goto
<1>22. CASE PopAwaits(t)
  BY <1>0, <1>22, BackFacts DEF PopAwaits, At, Goto
<1>23. CASE PopImSem(t)
  BY <1>0, <1>23 DEF PopImSem, At, Goto
<1>24. CASE PopIsMine(t)
  BY <1>0, <1>24, BackFacts DEF PopIsMine, At, Goto
<1>25. CASE CloseClaims(t)
  BY <1>0, <1>25 DEF CloseClaims, At, Goto
<1>26. CASE CloseWaits(t)
  BY <1>0, <1>26, EndFacts DEF CloseWaits, At, Goto
<1>27. CASE CloseSets(t)
  BY <1>0, <1>27 DEF CloseSets, At, Goto
<1>28. CASE CloseMarks(t)
  BY <1>0, <1>28 DEF CloseMarks, At, Goto
<1>29. CASE ClosePostsReaders(t)
  BY <1>0, <1>29 DEF ClosePostsReaders, At, Goto
<1>30. CASE ClosePostsReadSub(t)
  BY <1>0, <1>30 DEF ClosePostsReadSub, At, Goto
<1>31. CASE ClosePostsWriteSub(t)
  BY <1>0, <1>31 DEF ClosePostsWriteSub, At, Goto
<1>32. CASE ClosePostsWriters(t)
  BY <1>0, <1>32 DEF ClosePostsWriters, At, Goto
<1>33. CASE CloseEnds(t)
  BY <1>0, <1>33, EndFacts DEF CloseEnds, At, Goto
<1>34. CASE SelSubscribes(t)
  BY <1>0, <1>34 DEF SelSubscribes, At, Goto, Dir
<1>35. CASE SelResult(t)
  BY <1>0, <1>35 DEF SelResult, At, Goto, Dir
<1>36. CASE RecheckLock(t)
  BY <1>0, <1>36 DEF RecheckLock, At, Goto
<1>37. CASE RecheckPeer(t)
  BY <1>0, <1>37 DEF RecheckPeer, At, Goto
<1>38. CASE RecheckEnds(t)
  BY <1>0, <1>38 DEF RecheckEnds, At, Goto
<1>39. CASE SelRescans(t)
  BY <1>0, <1>39 DEF SelRescans, At, Goto, Dir
<1>40. CASE SelWakes(t)
  BY <1>0, <1>40 DEF SelWakes, At, Goto, Dir
<1>41. CASE SelOutOfTime(t)
  BY <1>0, <1>41 DEF SelOutOfTime, At, Goto, Dir
<1>42. CASE SelWoken(t)
  BY <1>0, <1>42 DEF SelWoken, At, Goto, Dir
<1>43. CASE SelServed(t)
  BY <1>0, <1>43 DEF SelServed, At, Goto, Dir
<1>44. CASE SelLeaves(t)
  BY <1>0, <1>44, EndFacts DEF SelLeaves, At, Goto, Dir
<1> QED
  BY <1>0, <1>1, <1>2, <1>3, <1>4, <1>5, <1>6, <1>7, <1>8, <1>9, <1>10, <1>11, <1>12, <1>13, <1>14, <1>15, <1>16, <1>17, <1>18, <1>19, <1>20, <1>21, <1>22, <1>23, <1>24, <1>25, <1>26, <1>27, <1>28, <1>29, <1>30, <1>31, <1>32, <1>33, <1>34, <1>35, <1>36, <1>37, <1>38, <1>39, <1>40, <1>41, <1>42, <1>43, <1>44
     DEF RingAct, UnbufferedOnly, Step, to_select, try_push_impl, push_unbuffered, push_buffered, try_pop_impl,
         pop_buffered, pop_waits, close, channel_select


(* A step of the ring keeps the slots. *)
LEMMA SlotSteps ==
  ASSUME TypeInv, CountInv, TicketInv, AloneInv, Cap > 0, SlotInv, InOrder(use), use' = use,
         NEW t \in Thread, Moves(t), RingAct(t), TicketStep(t)
  PROVE  SlotInv'
<1>0. pc \in [Thread -> Labels] /\ ch \in ChType /\ hist \in HistType
  BY DEF TypeInv, Types
<1>1. CASE PushIndex(t)
  BY <1>1, SlotPut
<1>2. CASE PopIndex(t)
  BY <1>2, SlotTake
<1>3. CASE PushEntersSlot(t) \/ PopEntersSlot(t)
  BY <1>3, SlotEntered
<1>4. CASE PushStores(t)
  BY <1>4, SlotStored
<1>5. CASE PopLoads(t)
  BY <1>5, SlotLoaded
<1>6. CASE PushAvail(t)
  <2>1. /\ pc[t] = "p_avail" /\ pc'[t] = "p_readsem" /\ hist' = hist
        /\ ch'.statusbuf = ch.statusbuf /\ ch'.ringbuf = ch.ringbuf
    BY <1>0, <1>6 DEF PushAvail, At, Goto, ChType
  <2>2. Puts' = Puts /\ Takes' = Takes
    BY <2>1 DEF Puts, Takes
  <2> QED
    BY <2>1, <2>2, SlotKept DEF Writing, Reading
<1>7. CASE PopClaims(t)
  <2>1. /\ pc[t] = "r_avail" /\ pc'[t] \in {"r_idx", "r_adv"}
        /\ hist'.order = hist.order /\ hist'.tickets = hist.tickets
        /\ ch'.statusbuf = ch.statusbuf /\ ch'.ringbuf = ch.ringbuf
    <3>1. pc[t] = "r_avail" /\ pc'[t] \in {"r_idx", "r_adv"}
      BY <1>0, <1>7 DEF PopClaims, At, Goto
    <3>2. hist'.order = hist.order /\ hist'.tickets = hist.tickets
      BY <1>0, <1>7 DEF PopClaims, HistType
    <3>3. ch'.statusbuf = ch.statusbuf /\ ch'.ringbuf = ch.ringbuf
      BY <1>0, <1>7 DEF PopClaims, ChType
    <3> QED
      BY <3>1, <3>2, <3>3
  <2>2. Puts' = Puts /\ Takes' = Takes
    BY <2>1 DEF Puts, Takes
  <2> QED
    BY <2>1, <2>2, SlotKept DEF Writing, Reading
<1> QED
  BY <1>1, <1>2, <1>3, <1>4, <1>5, <1>6, <1>7 DEF RingAct

LEMMA RingInit ==
  ASSUME Init
  PROVE  RingInv
<1>0. TypeInv /\ Cap \in Nat
  BY TypeInit, UseFacts DEF TypeInv, Types
<1>1. /\ \A u \in Thread : pc[u] = "idle"
      /\ hist.order = <<>> /\ hist.tickets = 0 /\ hist.claims = 0 /\ ch.read_avail = 0
      /\ ch.buf_elem_write_idx = 0 /\ ch.buf_elem_read_idx = 0 /\ ch.write_adr = NULL
      /\ ch.statusbuf = [i \in Slot |-> "unused"]
  BY DEF Init
<1>2. Puts = 0 /\ Takes = 0
  BY <1>1 DEF Puts, Takes
<1>3. \A u \in Thread : pc[u] \notin Writing \cup Reading \cup {"p_store", "r_load", "p_copy", "r_idx", "p_avail"}
  BY <1>1 DEF Writing, Reading
<1>4. Num({"r_idx"}) = 0 /\ Num(Writing \cup {"p_avail"}) = 0
  <2>1. {u \in Thread : pc[u] \in {"r_idx"}} = {} /\ {u \in Thread : pc[u] \in Writing \cup {"p_avail"}} = {}
    BY <1>3
  <2> QED
    BY <2>1, FS_EmptySet DEF Num, Count
<1>5. ASSUME Cap > 0 PROVE TicketInv /\ AloneInv
  <2>1. Cap \in Nat \ {0} /\ 0 \in Int /\ 0 < Cap
    BY <1>0, <1>5
  <2>2. 0 % Cap = 0
    BY <2>1
  <2> QED
    BY <1>1, <1>2, <1>3, <1>4, <2>2 DEF TicketInv, AloneInv
<1>6. SlotInv
  BY <1>1, <1>2, <1>3 DEF SlotInv, WritersNear, ReadersNear, ReaderFirst, WriterFirst, SlotHolds, SlotFull,
                          StoreLock, LoadLock
<1>7. StaleInv
  <2>1. NULL \notin Thread
    BY <1>0, UseFacts DEF TypeInv, Types
  <2> QED
    BY <1>1, <1>3, <2>1 DEF StaleInv, Lent
<1> QED
  BY <1>5, <1>6, <1>7 DEF RingInv

LEMMA RingSteps ==
  ASSUME TypeInv, TypeInv', CountInv, DrainInv, RingInv, [Next]_vars
  PROVE  RingInv'
<1>1. CASE UNCHANGED vars
  <2>1. /\ Cap' = Cap /\ Slot' = Slot /\ Puts' = Puts /\ Takes' = Takes /\ InOrder(use)' = InOrder(use)
        /\ Senders(use)' = Senders(use) /\ Receivers(use)' = Receivers(use)
        /\ pc' = pc /\ fr' = fr /\ ch' = ch /\ hist' = hist /\ obj' = obj
    BY <1>1 DEF vars, Cap, Slot, Puts, Takes, InOrder, Senders, Receivers
  <2>2. StaleInv'
    BY <2>1 DEF RingInv, StaleInv, Lent, Told
  <2>3. ASSUME Cap > 0 PROVE TicketInv' /\ AloneInv'
    <3>1. TicketInv /\ AloneInv
      BY <2>3 DEF RingInv
    <3>2. AloneInv'
      BY <2>1, <3>1 DEF AloneInv
    <3>3. TicketInv'
      BY <2>1, <3>1 DEF TicketInv, SlotOf, Num, Count
    <3> QED
      BY <3>2, <3>3
  <2>4. ASSUME SlotInv PROVE SlotInv'
    BY <2>1, <2>4 DEF SlotInv, WritersNear, ReadersNear, ReaderFirst, WriterFirst, SlotHolds, SlotFull,
                      StoreLock, LoadLock, Stored, Unstored, Unloaded, SlotOf
  <2> QED
    BY <2>1, <2>2, <2>3, <2>4 DEF RingInv
<1>2. ASSUME use' = use, NEW t \in Thread, Begin(t) \/ Step(t)
      PROVE  RingInv'
  <2>0. Cap \in Nat /\ Cap' = Cap /\ InOrder(use)' = InOrder(use) /\ Moves(t)
    BY <1>2, StepMoves, UseFacts DEF TypeInv, Types, Cap, InOrder, Senders, Receivers
  <2>1. CASE Cap = 0
    BY <2>0, <2>1 DEF RingInv, StaleInv
  <2>2. CASE Cap > 0
    <3>0. TicketInv /\ AloneInv /\ StaleInv /\ (InOrder(use) => SlotInv) /\ SelIdle
      BY <2>2 DEF RingInv, DrainInv
    <3>1. StaleInv'
      BY <1>2, <2>0, <2>2, <3>0, StaleSteps, StaleMove
    <3>2. CASE pc[t] \notin RingAt /\ pc'[t] \notin RingAt
      <4>1. RingQuiet(t)
        BY <1>2, <2>2, <3>0, <3>2, QuietSteps
      <4>2. TicketInv' /\ AloneInv' /\ (InOrder(use)' => SlotInv')
        BY <1>2, <2>0, <2>2, <3>0, <4>1, RingKept
      <4> QED
        BY <3>1, <4>2 DEF RingInv
    <3>3. CASE pc[t] \in RingAt \/ pc'[t] \in RingAt
      <4>1. RingAct(t)
        BY <1>2, <2>2, <3>3, RingActs
      <4>2. TicketStep(t)
        BY <2>2, <3>0, <3>3, <4>1, RingStepFacts DEF RingAct, push_buffered, pop_buffered
      <4>3. TicketInv' /\ AloneInv'
        BY <1>2, <2>0, <2>2, <3>0, <4>2, TicketMove
      <4>4. InOrder(use) => SlotInv'
        BY <1>2, <2>0, <2>2, <3>0, <4>1, <4>2, SlotSteps
      <4> QED
        BY <2>0, <3>1, <4>3, <4>4 DEF RingInv
    <3> QED
      BY <3>2, <3>3
  <2> QED
    BY <2>0, <2>1, <2>2
<1> QED
  BY <1>1, <1>2 DEF Next


(* Until the channel is closed nobody writes to the object of another call, and a receive *)
(* leaves the ring with what it has loaded.                                               *)
LEMMA ObjSteps ==
  ASSUME TypeInv, CountInv, NEW t \in Thread, Cap > 0, Begin(t) \/ Step(t), ~ch.closed
  PROVE  /\ \A u \in Thread : u # t => obj'[u] = obj[u]
         /\ pc'[t] \in {"r_free", "r_writesem", "r_sub"} =>
              \/ PopLoads(t)
              \/ pc[t] \in {"r_free", "r_writesem", "r_sub"} /\ UNCHANGED <<fr, obj, hist>>
<1>0. pc \in [Thread -> Labels] /\ obj \in [Thread -> Value] /\ ~UnbufferedOnly(t) /\ Cap \in Nat
  BY UnbufferedSteps, UseFacts DEF TypeInv, Types
<1>u. pc[t] # "p_copy"
  <2>1. ch.adr_written # ClosedMark
    BY DEF TypeInv, CloseInv
  <2> QED
    BY <2>1, CountUse
<1>1. CASE Begin(t)
  BY <1>0, <1>1, BeginFacts
<1>2. CASE PushStart(t)
  BY <1>0, <1>2, BackFacts DEF PushStart, At, Goto
<1>3. CASE PushTakes(t)
  BY <1>0, <1>3 DEF PushTakes, At, Goto
<1>4. CASE PushCopies(t)
  BY <1>u, <1>4 DEF PushCopies, At
<1>5. CASE PushPublishes(t)
  BY <1>0, <1>5 DEF PushPublishes, At, Goto
<1>6. CASE PushPosts(t)
  BY <1>0, <1>6, BackFacts DEF PushPosts, At, Goto
<1>7. CASE PushNoReader(t)
  BY <1>0, <1>7 DEF PushNoReader, At, Goto
<1>8. CASE PushToken(t)
  BY <1>0, <1>8 DEF PushToken, At, Goto
<1>9. CASE PushNoToken(t)
  BY <1>0, <1>9, BackFacts DEF PushNoToken, At, Goto
<1>10. CASE PushAfterToken(t)
  BY <1>0, <1>10, BackFacts DEF PushAfterToken, At, Goto
<1>11. CASE PushReserves(t)
  BY <1>0, <1>11, BackFacts DEF PushReserves, At, Goto
<1>12. CASE PushIndex(t)
  BY <1>0, <1>12 DEF PushIndex, At, Goto
<1>13. CASE PushEntersSlot(t)
  BY <1>0, <1>13 DEF PushEntersSlot, At, Goto
<1>14. CASE PushStores(t)
  BY <1>0, <1>14 DEF PushStores, At, Goto
<1>15. CASE PushAvail(t)
  BY <1>0, <1>15 DEF PushAvail, At, Goto
<1>16. CASE PushReadsem(t)
  BY <1>0, <1>16 DEF PushReadsem, At, Goto
<1>17. CASE PushSubscriber(t)
  BY <1>0, <1>17, BackFacts DEF PushSubscriber, At, Goto
<1>18. CASE PopStart(t)
  BY <1>0, <1>18, BackFacts DEF PopStart, At, Goto
<1>19. CASE PopToken(t)
  BY <1>0, <1>19 DEF PopToken, At, Goto
<1>20. CASE PopNoToken(t)
  BY <1>0, <1>20 DEF PopNoToken, At, Goto
<1>21. CASE PopLooksClosed(t)
  BY <1>0, <1>21, BackFacts DEF PopLooksClosed, At, Goto
<1>22. CASE PopClaims(t)
  BY <1>0, <1>22 DEF PopClaims, At, Goto
<1>23. CASE PopIndex(t)
  BY <1>0, <1>23 DEF PopIndex, At, Goto
<1>24. CASE PopEntersSlot(t)
  BY <1>0, <1>24 DEF PopEntersSlot, At, Goto
<1>25. CASE PopLoads(t)
  BY <1>0, <1>25 DEF PopLoads, At
<1>26. CASE PopFrees(t)
  BY <1>0, <1>26 DEF PopFrees, At, Goto
<1>27. CASE PopWritesem(t)
  BY <1>0, <1>27 DEF PopWritesem, At, Goto
<1>28. CASE PopSubscriber(t)
  BY <1>0, <1>28, BackFacts DEF PopSubscriber, At, Goto
<1>29. CASE PopAdvertises(t)
  BY <1>0, <1>29 DEF PopAdvertises, At, Goto
<1>30. CASE PopAwaits(t)
  BY <1>0, <1>30, BackFacts DEF PopAwaits, At, Goto
<1>31. CASE PopImSem(t)
  BY <1>0, <1>31 DEF PopImSem, At, Goto
<1>32. CASE PopIsMine(t)
  BY <1>0, <1>32, BackFacts DEF PopIsMine, At, Goto
<1>33. CASE CloseClaims(t)
  BY <1>0, <1>33 DEF CloseClaims, At, Goto
<1>34. CASE CloseWaits(t)
  BY <1>0, <1>34, EndFacts DEF CloseWaits, At, Goto
<1>35. CASE CloseSets(t)
  BY <1>0, <1>35 DEF CloseSets, At, Goto
<1>36. CASE CloseMarks(t)
  BY <1>0, <1>36 DEF CloseMarks, At, Goto
<1>37. CASE ClosePostsReaders(t)
  BY <1>0, <1>37 DEF ClosePostsReaders, At, Goto
<1>38. CASE ClosePostsReadSub(t)
  BY <1>0, <1>38 DEF ClosePostsReadSub, At, Goto
<1>39. CASE ClosePostsWriteSub(t)
  BY <1>0, <1>39 DEF ClosePostsWriteSub, At, Goto
<1>40. CASE ClosePostsWriters(t)
  BY <1>0, <1>40 DEF ClosePostsWriters, At, Goto
<1>41. CASE CloseEnds(t)
  BY <1>0, <1>41, EndFacts DEF CloseEnds, At, Goto
<1>42. CASE SelSubscribes(t)
  BY <1>0, <1>42 DEF SelSubscribes, At, Goto, Dir
<1>43. CASE SelResult(t)
  BY <1>0, <1>43 DEF SelResult, At, Goto, Dir
<1>44. CASE RecheckLock(t)
  BY <1>0, <1>44 DEF RecheckLock, At, Goto
<1>45. CASE RecheckPeer(t)
  BY <1>0, <1>45 DEF RecheckPeer, At, Goto
<1>46. CASE RecheckEnds(t)
  BY <1>0, <1>46 DEF RecheckEnds, At, Goto
<1>47. CASE SelRescans(t)
  BY <1>0, <1>47 DEF SelRescans, At, Goto, Dir
<1>48. CASE SelWakes(t)
  BY <1>0, <1>48 DEF SelWakes, At, Goto, Dir
<1>49. CASE SelOutOfTime(t)
  BY <1>0, <1>49 DEF SelOutOfTime, At, Goto, Dir
<1>50. CASE SelWoken(t)
  BY <1>0, <1>50 DEF SelWoken, At, Goto, Dir
<1>51. CASE SelServed(t)
  BY <1>0, <1>51 DEF SelServed, At, Goto, Dir
<1>52. CASE SelLeaves(t)
  BY <1>0, <1>52, EndFacts DEF SelLeaves, At, Goto, Dir
<1> QED
  BY <1>0, <1>1, <1>2, <1>3, <1>4, <1>5, <1>6, <1>7, <1>8, <1>9, <1>10, <1>11, <1>12, <1>13, <1>14, <1>15, <1>16, <1>17, <1>18, <1>19, <1>20, <1>21, <1>22, <1>23, <1>24, <1>25, <1>26, <1>27, <1>28, <1>29, <1>30, <1>31, <1>32, <1>33, <1>34, <1>35, <1>36, <1>37, <1>38, <1>39, <1>40, <1>41, <1>42, <1>43, <1>44, <1>45, <1>46, <1>47, <1>48, <1>49, <1>50, <1>51, <1>52
     DEF UnbufferedOnly, Step, to_select, try_push_impl, push_unbuffered, push_buffered, try_pop_impl,
         pop_buffered, pop_waits, close, channel_select

LEMMA LoadedInit ==
  ASSUME Init
  PROVE  LoadedInv
BY DEF Init, LoadedInv

LEMMA LoadedSteps ==
  ASSUME TypeInv, TypeInv', CountInv, DrainInv, RingInv, LoadedInv, [Next]_vars
  PROVE  LoadedInv'
<1>1. CASE UNCHANGED vars
  BY <1>1 DEF vars, LoadedInv, InOrder, Senders, Receivers, Puts
<1>2. ASSUME use' = use, NEW t \in Thread, Begin(t) \/ Step(t)
      PROVE  LoadedInv'
  <2>0. Cap \in Nat /\ Cap' = Cap /\ InOrder(use)' = InOrder(use) /\ Moves(t)
    BY <1>2, StepMoves, UseFacts DEF TypeInv, Types, Cap, InOrder, Senders, Receivers
  <2> SUFFICES ASSUME NEW u \in Thread, InOrder(use), ~ch'.closed, pc'[u] \in {"r_free", "r_writesem", "r_sub"}
               PROVE  fr'[u].ticket \in 1 .. Puts' /\ obj'[u] = hist'.order[fr'[u].ticket]
    BY <2>0 DEF LoadedInv
  <2>1. Cap > 0
    <3>1. PlaceAt(u, pc[u], fr[u])'
      BY DEF TypeInv, PlaceInv
    <3> QED
      BY <2>0, <3>1 DEF PlaceAt
  <2>2. ~ch.closed
    BY <1>2, ClosedStays
  <2>3. TicketInv /\ AloneInv /\ StaleInv /\ SlotInv /\ Puts \in Nat /\ Takes \in Nat /\ Takes <= Puts
    <3>1. TicketInv /\ AloneInv /\ StaleInv /\ SlotInv
      BY <2>1 DEF RingInv
    <3> QED
      BY <2>1, <3>1, SlotTickets
  <2>4. Puts' \in Nat /\ Puts <= Puts' /\ \A k \in 1 .. Puts : hist'.order[k] = hist.order[k]
    <3>1. CASE pc[t] \notin RingAt /\ pc'[t] \notin RingAt
      <4>1. RingQuiet(t)
        BY <1>2, <2>1, <2>3, <3>1, QuietSteps
      <4> QED
        BY <2>3, <4>1 DEF RingQuiet, Puts
    <3>2. CASE pc[t] \in RingAt \/ pc'[t] \in RingAt
      <4>1. RingAct(t)
        BY <1>2, <2>1, <3>2, RingActs
      <4>2. TicketStep(t)
        BY <2>1, <2>3, <3>2, <4>1, RingStepFacts DEF RingAct, push_buffered, pop_buffered
      <4> QED
        BY <2>3, <4>2 DEF TicketStep
    <3> QED
      BY <3>1, <3>2
  <2>5. ASSUME pc[u] \in {"r_free", "r_writesem", "r_sub"}, fr'[u] = fr[u], obj'[u] = obj[u]
        PROVE  fr'[u].ticket \in 1 .. Puts' /\ obj'[u] = hist'.order[fr'[u].ticket]
    <3>1. fr[u].ticket \in 1 .. Puts /\ obj[u] = hist.order[fr[u].ticket]
      BY <2>2, <2>5 DEF LoadedInv
    <3> QED
      BY <2>3, <2>4, <2>5, <3>1
  <2>6. CASE u # t
    <3>1. pc'[u] = pc[u] /\ fr'[u] = fr[u]
      BY <2>0, <2>6 DEF Moves
    <3>2. obj'[u] = obj[u]
      BY <1>2, <2>1, <2>2, <2>6, ObjSteps
    <3> QED
      BY <2>5, <3>1, <3>2
  <2>7. CASE u = t /\ PopLoads(t)
    <3>1. obj'[t] = hist.order[fr[t].ticket]
      BY <1>2, <2>0, <2>1, <2>3, <2>7, SlotLoaded
    <3>2. fr' = fr /\ pc[t] \in Reading
      BY <2>7 DEF PopLoads, At, Reading
    <3>3. fr[t].ticket \in 1 .. Takes
      BY <2>3, <3>2 DEF TicketInv
    <3>4. fr[t].ticket \in 1 .. Puts
      BY <2>3, <3>3
    <3> QED
      BY <2>3, <2>4, <2>7, <3>1, <3>2, <3>4
  <2>8. CASE u = t /\ ~PopLoads(t)
    <3>1. pc[t] \in {"r_free", "r_writesem", "r_sub"} /\ UNCHANGED <<fr, obj, hist>>
      BY <1>2, <2>1, <2>2, <2>8, ObjSteps
    <3> QED
      BY <2>5, <2>8, <3>1
  <2> QED
    BY <2>6, <2>7, <2>8
<1> QED
  BY <1>1, <1>2 DEF Next


-----------------------------------------------------------------------------
(* Theorems *)

IInv == TypeInv /\ CountInv /\ DrainInv /\ HandInv /\ RingInv /\ LoadedInv

(* What channels.c.v keeps true whatever the threads do: the counters of the ring add up to *)
(* its capacity and the tokens to the counters, tickets and slots belong together, an       *)
(* address is lent by one call that waits, and a receive that reports a closed channel has  *)
(* left nothing behind.                                                                     *)
THEOREM Invariance == Spec => []IInv
<1>1. Init => IInv
  BY TypeInit, CountInit, DrainInit, HandInit, RingInit, LoadedInit DEF IInv
<1>2. IInv /\ [Next]_vars => IInv'
  <2> SUFFICES ASSUME IInv, [Next]_vars PROVE IInv'
    OBVIOUS
  <2>1. TypeInv'
    BY TypeStep DEF IInv
  <2> QED
    BY <2>1, CountSteps, DrainSteps, HandSteps, RingSteps, LoadedSteps DEF IInv
<1> QED
  BY <1>1, <1>2, PTL DEF Spec

(* The counters write_free and read_avail never leave 0 .. cap and the indices never leave the *)
(* buffer (try_push_impl and try_pop_impl reserve by compare-and-exchange), and every address  *)
(* and every thread is where the code can have put it.                                         *)
THEOREM ChannelTypes == Spec => []TypeOK
<1>1. IInv => TypeOK
  <2> SUFFICES ASSUME IInv PROVE TypeOK
    OBVIOUS
  <2>0. TypeInv /\ CountInv
    BY DEF IInv
  <2>1. /\ ch \in ChType /\ obj \in [Thread -> Value] /\ pc \in [Thread -> Labels] /\ Cap \in Nat
        /\ sel \in [Thread -> [state : {"scanning", "waiting", "claimed", "served"}, sem : Nat]]
    BY <2>0, UseFacts DEF TypeInv, Types
  <2>2. ch.write_free \in 0 .. Cap /\ ch.read_avail \in 0 .. Cap
    <3>1. ch.write_free \in Nat /\ ch.read_avail \in Nat /\ Num(Filling) \in Nat /\ Num(Draining) \in Nat
      <4>1. IsFiniteSet({t \in Thread : pc[t] \in Filling}) /\ IsFiniteSet({t \in Thread : pc[t] \in Draining})
        BY SyncChanAssumption, FS_Subset
      <4> QED
        BY <2>1, <4>1, ChFacts, FS_CardinalityType DEF Num, Count
    <3>2. ch.write_free + Num(Filling) + ch.read_avail + Num(Draining) = Cap
      BY <2>0 DEF CountInv, RingCount
    <3> QED
      BY <2>1, <3>1, <3>2
  <2>3. \A t \in Thread : sel[t].state \in {"scanning", "waiting", "claimed", "served"}
    BY <2>1
  <2>4. Cap > 0 => ch.buf_elem_write_idx \in Slot /\ ch.buf_elem_read_idx \in Slot
    BY <2>0 DEF TypeInv, IndexInv
  <2> QED
    BY <2>1, <2>2, <2>3, <2>4, ChFacts DEF TypeOK
<1> QED
  BY <1>1, Invariance, PTL

(* A token of writesem stands for a free entry of the ring, whoever sends, receives or closes: *)
(* the branch of try_push_impl that would lose the token is dead code.                         *)
THEOREM TokensAreSpace == Spec => []TokenMeansSpace
<1>1. IInv => TokenMeansSpace
  <2>1. Free => TokenMeansSpace
    BY DEF Free, TokenMeansSpace, Num, Count, At
  <2> QED
    BY <2>1 DEF IInv, CountInv
<1> QED
  BY <1>1, Invariance, PTL

(* Until the channel is closed, who takes an address out of write_adr or read_adr finds its *)
(* owner in the call that advertised it, so the copy goes to or comes from a live object.   *)
THEOREM PartnersAreThere == Spec => []PartnerIsThere
<1>1. IInv => PartnerIsThere
  <2> SUFFICES ASSUME IInv, NEW t \in Thread, ~ch.closed
               PROVE  /\ pc[t] = "p_copy" => pc[fr[t].adr] \in ReaderSec
                      /\ pc[t] = "r_copy" => pc[fr[t].adr] \in WriterSec
    BY DEF PartnerIsThere, At, ReaderSec, WriterSec
  <2>0. TypeInv /\ CountInv /\ HandInv /\ Cap \in Nat /\ CloseInv /\ PlaceAt(t, pc[t], fr[t])
    BY UseFacts DEF IInv, TypeInv, Types, PlaceInv
  <2>1. CASE Cap = 0
    BY <2>0, <2>1 DEF HandInv, ReaderHand, WriterHand
  <2>2. CASE Cap > 0
    <3>1. ch.adr_written # ClosedMark
      BY <2>0 DEF CloseInv
    <3>2. pc[t] # "p_copy"
      BY <2>0, <2>2, <3>1, CountUse
    <3>3. pc[t] # "r_copy"
      BY <2>0, <2>2 DEF PlaceAt
    <3> QED
      BY <3>2, <3>3
  <2> QED
    BY <2>0, <2>1, <2>2
<1> QED
  BY <1>1, Invariance, PTL

(* When every receive waits, one that returns closed leaves nothing behind: as many values *)
(* were claimed as had been sent before close (close marks adr_written only after it has   *)
(* set closed, and a receive looks at the ring before it looks at the mark).               *)
THEOREM CloseDrains == Spec => [](OnlyWaits(use) => ClosedMeansDrained)
<1>1. IInv => (OnlyWaits(use) => ClosedMeansDrained)
  BY DEF IInv, DrainInv, ClosedMeansDrained
<1> QED
  BY <1>1, Invariance, PTL

(* With one sender, one receiver or a ring of at most two entries, the k-th read reservation *)
(* gets the value of the k-th write reservation, however late a thread fills or empties the  *)
(* slot it has reserved.                                                                     *)
THEOREM SlotsInOrder == Spec => [](InOrder(use) => SlotOrder)
<1>1. IInv => (InOrder(use) => SlotOrder)
  <2> SUFFICES ASSUME IInv, InOrder(use), NEW t \in Thread
               PROVE  /\ pc[t] = "r_load" => ch.ringbuf[fr[t].adr] = hist.order[fr[t].ticket]
                      /\ pc[t] \in {"r_free", "r_writesem", "r_sub"} /\ ~ch.closed =>
                           obj[t] = hist.order[fr[t].ticket]
    BY DEF SlotOrder, At
  <2>1. ASSUME pc[t] = "r_load" PROVE ch.ringbuf[fr[t].adr] = hist.order[fr[t].ticket]
    <3>1. Cap > 0
      <4>1. PlaceAt(t, pc[t], fr[t])
        BY DEF IInv, TypeInv, PlaceInv
      <4> QED
        BY <2>1, <4>1 DEF PlaceAt
    <3>2. TicketInv /\ SlotInv
      BY <3>1 DEF IInv, RingInv
    <3>3. Stored(fr[t].ticket) /\ fr[t].adr = SlotOf(fr[t].ticket)
      BY <2>1, <3>2 DEF SlotInv, LoadLock, TicketInv, Reading
    <3> QED
      BY <3>2, <3>3 DEF SlotInv, SlotHolds, Stored
  <2> QED
    BY <2>1 DEF IInv, LoadedInv
<1> QED
  BY <1>1, Invariance, PTL
=============================================================================

------------------------------ MODULE SyncChan ------------------------------
(***************************************************************************)
(* The channel of spawned threads (vlib/sync/channels.c.v): try_push_impl, *)
(* try_pop_impl, close and channel_select_priv with one case, one atomic   *)
(* instruction, semaphore operation or lock section per step.              *)
(*                                                                         *)
(* A call lends the channel the address of an object on its caller's       *)
(* stack.  The address of thread t's object is t itself: the object of its *)
(* next call is at the same place, and `obj` is what is stored there.  The *)
(* addresses of the select_state words are ordered like the threads.       *)
(*                                                                         *)
(* A loop that loads and compares until its exchange succeeds is one step  *)
(* at the moment of the exchange; a bounded spin may end at any time.      *)
(* adr_read is never -1, so the test for it in try_push_impl (line 453)    *)
(* has no step.                                                            *)
(***************************************************************************)
EXTENDS Integers, Sequences, FiniteSets, SequencesExt

CONSTANTS Thread,     \* positive integers
          Uses,       \* the programs to look at: a channel and what threads do with it
          MaxCalls    \* bound: calls of a thread

PushOps == {"push", "try_push", "sel_push"}
PopOps == {"pop", "try_pop", "sel_pop"}
SelOps == {"sel_push", "sel_pop"}
Ops == PushOps \cup PopOps \cup {"close"}

ASSUME SyncChanAssumption ==
  /\ Thread \subseteq Nat \ {0}
  /\ IsFiniteSet(Thread)
  /\ Uses \subseteq [cap : Nat,                          \* capacity; 0 for an unbuffered channel
                     may : [Thread -> SUBSET Ops],       \* what a thread may call
                     timeouts : SUBSET {"inf", "timed", "else"},   \* of its selects
                     calls : 0..MaxCalls]                \* how often
  /\ MaxCalls \in Nat

NULL == 0
ClosedMark == -1     \* what close puts into adr_written
NoVal == <<0, 0>>    \* memory nobody wrote a value to

VARIABLES
  use,    \* the program, chosen at the start; use.cap is the field cap of struct Channel
  ch,     \* struct Channel without its subscribers
  subs,   \* subs["pop"] is the list read_subscriber, subs["push"] is write_subscriber
  mtx,    \* mtx["pop"] is read_sub_mtx, mtx["push"] is write_sub_mtx: who holds it
  sel,    \* sel[t]: the state word and the semaphore of t's select
  pc, fr, \* where a thread is, and the local variables of its call
  obj,    \* obj[t]: what is stored at the address t
  calls,  \* calls made, bounded by MaxCalls
  hist    \* what callers were told, and the order of slot reservations

vars == <<use, ch, subs, mtx, sel, pc, fr, obj, calls, hist>>
selVars == <<subs, mtx, sel>>

Cap == use.cap
Slot == 0..(Cap - 1)

Frame0 == [op |-> "none", tmo |-> "inf", adr |-> NULL, have_swapped |-> FALSE,
           in_progress |-> FALSE, found |-> FALSE, ticket |-> 0, result |-> "none"]

(* new_channel_st *)
Init ==
  /\ use \in Uses
  /\ ch = [closed |-> FALSE, close_claimed |-> FALSE,
           writesem |-> IF Cap > 0 THEN Cap ELSE 1,
           readsem |-> IF Cap > 0 THEN 0 ELSE 1,
           writesem_im |-> 0, readsem_im |-> 0,
           write_adr |-> NULL, read_adr |-> NULL, adr_read |-> NULL, adr_written |-> NULL,
           write_free |-> Cap, read_avail |-> 0,
           buf_elem_write_idx |-> 0, buf_elem_read_idx |-> 0,
           statusbuf |-> [i \in Slot |-> "unused"], ringbuf |-> [i \in Slot |-> NoVal]]
  /\ subs = [d \in {"push", "pop"} |-> <<>>]
  /\ mtx = [d \in {"push", "pop"} |-> NULL]
  /\ sel = [t \in Thread |-> [state |-> "scanning", sem |-> 0]]
  /\ pc = [t \in Thread |-> "idle"]
  /\ fr = [t \in Thread |-> Frame0]
  /\ obj = [t \in Thread |-> NoVal]
  /\ calls = [t \in Thread |-> 0]
  /\ hist = [sent |-> {}, refused |-> {}, got |-> <<>>, early |-> {},
             order |-> <<>>, claims |-> 0, tickets |-> 0, undrained |-> FALSE]

-----------------------------------------------------------------------------
(* Locals, calls and returns. *)

NoBlock(t) == fr[t].op \in {"try_push", "try_pop"} \cup SelOps
Dir(t) == IF fr[t].op \in PushOps THEN "push" ELSE "pop"
Peer(d) == IF d = "push" THEN "pop" ELSE "push"

At(t, l) == pc[t] = l
Goto(t, l) == pc' = [pc EXCEPT ![t] = l]

(* A call returns to its caller. *)
Finish(t, res) ==
  /\ Goto(t, "idle")
  /\ fr' = [fr EXCEPT ![t] = Frame0]
  /\ hist' = [hist EXCEPT
       !.sent = IF fr[t].op \in PushOps /\ res = "success" THEN @ \cup {obj[t]} ELSE @,
       !.refused = IF fr[t].op \in PushOps /\ res # "success" THEN @ \cup {obj[t]} ELSE @,
       !.got = IF fr[t].op \in PopOps /\ res = "success" THEN Append(@, obj[t]) ELSE @,
       !.undrained = @ \/ (/\ fr[t].op \in PopOps /\ res = "closed"
                           /\ Cap > 0 /\ hist.claims < Cardinality(hist.early))]

(* try_push_impl and try_pop_impl return to the caller or to the select that called them. *)
Return(t, res) ==
  IF fr[t].op \in SelOps
  THEN /\ Goto(t, "sel_result")
       /\ fr' = [fr EXCEPT ![t].result = res, ![t].have_swapped = FALSE,
                           ![t].in_progress = FALSE, ![t].adr = NULL]
       /\ UNCHANGED hist
  ELSE Finish(t, res)

Begin(t) ==
  \E o \in use.may[t] : \E tmo \in IF o \in SelOps THEN use.timeouts ELSE {"inf"} :
    /\ At(t, "idle")
    /\ calls[t] < use.calls
    /\ calls' = [calls EXCEPT ![t] = @ + 1]
    /\ fr' = [fr EXCEPT ![t] = [Frame0 EXCEPT !.op = o, !.tmo = tmo]]
    /\ obj' = [obj EXCEPT ![t] = IF o \in PushOps THEN <<t, calls[t] + 1>> ELSE NoVal]
    /\ Goto(t, CASE o \in {"push", "try_push"} -> "push"
                 [] o \in {"pop", "try_pop"} -> "pop"
                 [] o = "close" -> "close"
                 [] OTHER -> "sel")
    /\ UNCHANGED <<ch, selVars, hist>>

(* Lock the list of the selects that want direction d, post the first one, unlock. *)
PostFirst(d) ==
  /\ mtx[d] = NULL
  /\ sel' = IF subs[d] = <<>> THEN sel ELSE [sel EXCEPT ![Head(subs[d])].sem = @ + 1]

-----------------------------------------------------------------------------
(* try_push_impl and try_pop_impl without waiting on an unbuffered channel:  *)
(* try_push_to_select and try_pop_from_select hand the object to a select    *)
(* that waits for the opposite direction.                                    *)

ToSelectLock(t) ==
  /\ At(t, "to_select")
  /\ mtx[Peer(Dir(t))] = NULL
  /\ mtx' = [mtx EXCEPT ![Peer(Dir(t))] = t]
  /\ fr' = [fr EXCEPT ![t].adr = 1]
  /\ Goto(t, "to_select_scan")
  /\ UNCHANGED <<ch, subs, sel, obj, calls, hist>>

ToSelectEnd(t) ==
  /\ At(t, "to_select_scan")
  /\ fr[t].adr > Len(subs[Peer(Dir(t))])
  /\ mtx' = [mtx EXCEPT ![Peer(Dir(t))] = NULL]
  /\ Return(t, "not_ready")
  /\ UNCHANGED <<ch, subs, sel, obj, calls>>

ToSelectClaim(t) ==
  /\ At(t, "to_select_scan")
  /\ fr[t].adr <= Len(subs[Peer(Dir(t))])
  /\ LET s == subs[Peer(Dir(t))][fr[t].adr] IN
       IF sel[s].state = "waiting"
       THEN /\ sel' = [sel EXCEPT ![s].state = "claimed"]
            /\ fr' = [fr EXCEPT ![t].adr = s]
            /\ Goto(t, "to_select_copy")
       ELSE /\ fr' = [fr EXCEPT ![t].adr = @ + 1]
            /\ UNCHANGED <<sel, pc>>
  /\ UNCHANGED <<ch, subs, mtx, obj, calls, hist>>

(* The copy, and the store that tells the select which case was served. *)
ToSelectCopy(t) ==
  /\ At(t, "to_select_copy")
  /\ obj' = IF Dir(t) = "push" THEN [obj EXCEPT ![fr[t].adr] = obj[t]]
                               ELSE [obj EXCEPT ![t] = obj[fr[t].adr]]
  /\ sel' = [sel EXCEPT ![fr[t].adr].state = "served"]
  /\ Goto(t, "to_select_post")
  /\ UNCHANGED <<ch, subs, mtx, fr, calls, hist>>

ToSelectPost(t) ==
  /\ At(t, "to_select_post")
  /\ sel' = [sel EXCEPT ![fr[t].adr].sem = @ + 1]
  /\ mtx' = [mtx EXCEPT ![Peer(Dir(t))] = NULL]
  /\ Return(t, "success")
  /\ UNCHANGED <<ch, subs, obj, calls>>

to_select(t) ==
  \/ ToSelectLock(t) \/ ToSelectEnd(t) \/ ToSelectClaim(t)
  \/ ToSelectCopy(t) \/ ToSelectPost(t)

-----------------------------------------------------------------------------
(* try_push_impl *)

PushStart(t) ==
  /\ At(t, "push")
  /\ IF ch.closed THEN Return(t, "closed") ELSE Goto(t, "p_adr") /\ UNCHANGED <<fr, hist>>
  /\ UNCHANGED <<ch, selVars, obj, calls>>

(* Mutant: the address is read but not exchanged. *)
PushTakes_noExchange(t) ==
  /\ At(t, "p_adr")
  /\ ch.write_adr # NULL
  /\ fr' = [fr EXCEPT ![t].adr = ch.write_adr]
  /\ Goto(t, "p_copy")
  /\ UNCHANGED <<ch, selVars, obj, calls, hist>>

(* A reader has advertised its object: take it. *)
PushTakes(t) ==
  /\ At(t, "p_adr")
  /\ ch.write_adr # NULL
  /\ fr' = [fr EXCEPT ![t].adr = ch.write_adr]
  /\ ch' = [ch EXCEPT !.write_adr = NULL]
  /\ Goto(t, "p_copy")
  /\ UNCHANGED <<selVars, obj, calls, hist>>

PushCopies(t) ==
  /\ At(t, "p_copy")
  /\ obj' = [obj EXCEPT ![fr[t].adr] = obj[t]]
  /\ Goto(t, "p_publish")
  /\ UNCHANGED <<ch, selVars, fr, calls, hist>>

PushPublishes(t) ==
  /\ At(t, "p_publish")
  /\ ch.adr_written = NULL
  /\ ch' = [ch EXCEPT !.adr_written = fr[t].adr]
  /\ Goto(t, "p_post")
  /\ UNCHANGED <<selVars, fr, obj, calls, hist>>

PushPosts(t) ==
  /\ At(t, "p_post")
  /\ ch' = [ch EXCEPT !.readsem_im = @ + 1]
  /\ Return(t, "success")
  /\ UNCHANGED <<selVars, obj, calls>>

PushNoReader(t) ==
  /\ At(t, "p_adr")
  /\ ch.write_adr = NULL
  /\ Goto(t, IF NoBlock(t) /\ Cap = 0 THEN "to_select" ELSE "p_sem")
  /\ UNCHANGED <<ch, selVars, fr, obj, calls, hist>>

PushToken(t) ==
  /\ At(t, "p_sem")
  /\ ch.writesem > 0
  /\ ch' = [ch EXCEPT !.writesem = @ - 1]
  /\ Goto(t, "p_closed")
  /\ UNCHANGED <<selVars, fr, obj, calls, hist>>

(* Mutant: a push that may not wait goes on without a token. *)
PushNoToken_proceeds(t) ==
  /\ At(t, "p_sem")
  /\ ch.writesem = 0
  /\ NoBlock(t)
  /\ Goto(t, "p_closed")
  /\ UNCHANGED <<ch, selVars, fr, obj, calls, hist>>

PushNoToken(t) ==
  /\ At(t, "p_sem")
  /\ ch.writesem = 0
  /\ NoBlock(t)
  /\ Return(t, "not_ready")
  /\ UNCHANGED <<ch, selVars, obj, calls>>

PushAfterToken(t) ==
  /\ At(t, "p_closed")
  /\ IF ch.closed
     THEN Return(t, "closed") /\ ch' = [ch EXCEPT !.writesem = @ + 1]
     ELSE /\ Goto(t, IF Cap = 0 THEN "p_adv" ELSE "p_free")
          /\ UNCHANGED <<ch, fr, hist>>
  /\ UNCHANGED <<selVars, obj, calls>>

(* Unbuffered: advertise the object, unless a reader advertised meanwhile. *)
PushAdvertises(t) ==
  /\ At(t, "p_adv")
  /\ ch' = [ch EXCEPT !.read_adr = t]
  /\ Goto(t, "p_check")
  /\ UNCHANGED <<selVars, fr, obj, calls, hist>>

PushChecks(t) ==
  /\ At(t, "p_check")
  /\ Goto(t, IF ch.write_adr # NULL THEN "p_retract" ELSE "p_note")
  /\ UNCHANGED <<ch, selVars, fr, obj, calls, hist>>

PushRetracts(t) ==
  /\ At(t, "p_retract")
  /\ IF ch.read_adr = t
     THEN /\ ch' = [ch EXCEPT !.read_adr = NULL, !.writesem = @ + 1]
          /\ Goto(t, "p_adr")
          /\ UNCHANGED fr
     ELSE /\ fr' = [fr EXCEPT ![t].in_progress = TRUE]
          /\ Goto(t, "p_await")
          /\ UNCHANGED ch
  /\ UNCHANGED <<selVars, obj, calls, hist>>

PushNotifies(t) ==
  /\ At(t, "p_note")
  /\ PostFirst("pop")
  /\ Goto(t, "p_await")
  /\ UNCHANGED <<ch, subs, mtx, fr, obj, calls, hist>>

(* The spin: the reader is done with the object, or the spin ends. *)
PushAwaits(t) ==
  /\ At(t, "p_await")
  /\ \/ /\ ch.adr_read = t
        /\ ch' = [ch EXCEPT !.adr_read = NULL]
        /\ fr' = [fr EXCEPT ![t].have_swapped = TRUE, ![t].in_progress = TRUE]
     \/ /\ ch.adr_read # t
        /\ ~fr[t].in_progress
        /\ UNCHANGED <<ch, fr>>
  /\ Goto(t, "p_im")
  /\ UNCHANGED <<selVars, obj, calls, hist>>

PushImSem(t) ==
  /\ At(t, "p_im")
  /\ ch.writesem_im > 0
  /\ ch' = [ch EXCEPT !.writesem_im = @ - 1]
  /\ Goto(t, "p_mine")
  /\ UNCHANGED <<selVars, fr, obj, calls, hist>>

Collect(c, t) == IF c.adr_read = t THEN [c EXCEPT !.adr_read = NULL] ELSE c

(* Was the semaphore for this push?  If not, a closed channel ends it, and *)
(* otherwise the semaphore is posted again.                                *)
PushIsMine(t) ==
  /\ At(t, "p_mine")
  /\ IF fr[t].have_swapped \/ ch.adr_read = t
     THEN /\ ch' = [(IF fr[t].have_swapped THEN ch ELSE Collect(ch, t))
                      EXCEPT !.writesem = @ + 1]
          /\ Return(t, "success")
     ELSE IF ch.closed
     THEN /\ Return(t, "closed")
          /\ UNCHANGED ch
     ELSE /\ ch' = [ch EXCEPT !.writesem_im = @ + 1]
          /\ Goto(t, "p_im")
          /\ UNCHANGED <<fr, hist>>
  /\ UNCHANGED <<selVars, obj, calls>>

(* Buffered: reserve space, then a slot, then wait for that slot. *)
PushReserves(t) ==
  /\ At(t, "p_free")
  /\ IF ch.write_free > 0
     THEN /\ ch' = [ch EXCEPT !.write_free = @ - 1]
          /\ Goto(t, "p_idx")
          /\ UNCHANGED <<fr, hist>>
     ELSE IF NoBlock(t)
     THEN Return(t, "not_ready") /\ UNCHANGED ch
     ELSE /\ ch' = [ch EXCEPT !.writesem = @ + 1]
          /\ Goto(t, "p_adr")
          /\ UNCHANGED <<fr, hist>>
  /\ UNCHANGED <<selVars, obj, calls>>

(* Mutant: the index wraps one slot too late. *)
PushIndex_offByOne(t) ==
  /\ At(t, "p_idx")
  /\ fr' = [fr EXCEPT ![t].adr = ch.buf_elem_write_idx, ![t].ticket = Len(hist.order) + 1]
  /\ ch' = [ch EXCEPT !.buf_elem_write_idx = (@ + 1) % (Cap + 1)]
  /\ hist' = [hist EXCEPT !.order = Append(@, obj[t])]
  /\ Goto(t, "p_slot")
  /\ UNCHANGED <<selVars, obj, calls>>

PushIndex(t) ==
  /\ At(t, "p_idx")
  /\ fr' = [fr EXCEPT ![t].adr = ch.buf_elem_write_idx, ![t].ticket = Len(hist.order) + 1]
  /\ ch' = [ch EXCEPT !.buf_elem_write_idx = (@ + 1) % Cap]
  /\ hist' = [hist EXCEPT !.order = Append(@, obj[t])]
  /\ Goto(t, "p_slot")
  /\ UNCHANGED <<selVars, obj, calls>>

PushEntersSlot(t) ==
  /\ At(t, "p_slot")
  /\ ch.statusbuf[fr[t].adr] = "unused"
  /\ ch' = [ch EXCEPT !.statusbuf[fr[t].adr] = "writing"]
  /\ Goto(t, "p_store")
  /\ UNCHANGED <<selVars, fr, obj, calls, hist>>

PushStores(t) ==
  /\ At(t, "p_store")
  /\ ch' = [ch EXCEPT !.ringbuf[fr[t].adr] = obj[t], !.statusbuf[fr[t].adr] = "written"]
  /\ Goto(t, "p_avail")
  /\ UNCHANGED <<selVars, fr, obj, calls, hist>>

PushAvail(t) ==
  /\ At(t, "p_avail")
  /\ ch' = [ch EXCEPT !.read_avail = @ + 1]
  /\ Goto(t, "p_readsem")
  /\ UNCHANGED <<selVars, fr, obj, calls, hist>>

PushReadsem(t) ==
  /\ At(t, "p_readsem")
  /\ ch' = [ch EXCEPT !.readsem = @ + 1]
  /\ Goto(t, "p_sub")
  /\ UNCHANGED <<selVars, fr, obj, calls, hist>>

PushSubscriber(t) ==
  /\ At(t, "p_sub")
  /\ PostFirst("pop")
  /\ Return(t, "success")
  /\ UNCHANGED <<ch, subs, mtx, obj, calls>>

push_unbuffered(t) ==
  \/ PushAdvertises(t) \/ PushChecks(t) \/ PushRetracts(t) \/ PushNotifies(t)
  \/ PushAwaits(t) \/ PushImSem(t) \/ PushIsMine(t)

push_buffered(t) ==
  \/ PushReserves(t) \/ PushIndex(t) \/ PushEntersSlot(t) \/ PushStores(t)
  \/ PushAvail(t) \/ PushReadsem(t) \/ PushSubscriber(t)

try_push_impl(t) ==
  \/ PushStart(t) \/ PushTakes(t) \/ PushCopies(t) \/ PushPublishes(t) \/ PushPosts(t)
  \/ PushNoReader(t) \/ PushToken(t) \/ PushNoToken(t) \/ PushAfterToken(t)
  \/ push_unbuffered(t) \/ push_buffered(t)

-----------------------------------------------------------------------------
(* try_pop_impl; a select with an else branch first looks whether the channel *)
(* is closed (try_pop_select_priv).                                           *)

PopStart(t) ==
  /\ At(t, "pop")
  /\ IF fr[t].op = "sel_pop" /\ fr[t].tmo = "else" /\ ch.closed
     THEN Return(t, "closed")
     ELSE /\ Goto(t, IF Cap = 0 THEN "r_adr" ELSE "r_sem")
          /\ UNCHANGED <<fr, hist>>
  /\ UNCHANGED <<ch, selVars, obj, calls>>

(* Unbuffered: a writer has advertised its object. *)
PopTakes(t) ==
  /\ At(t, "r_adr")
  /\ ch.read_adr # NULL
  /\ fr' = [fr EXCEPT ![t].adr = ch.read_adr]
  /\ ch' = [ch EXCEPT !.read_adr = NULL]
  /\ Goto(t, "r_copy")
  /\ UNCHANGED <<selVars, obj, calls, hist>>

PopCopies(t) ==
  /\ At(t, "r_copy")
  /\ obj' = [obj EXCEPT ![t] = obj[fr[t].adr]]
  /\ Goto(t, "r_publish")
  /\ UNCHANGED <<ch, selVars, fr, calls, hist>>

PopPublishes(t) ==
  /\ At(t, "r_publish")
  /\ ch.adr_read = NULL
  /\ ch' = [ch EXCEPT !.adr_read = fr[t].adr]
  /\ Goto(t, "r_post")
  /\ UNCHANGED <<selVars, fr, obj, calls, hist>>

PopPosts(t) ==
  /\ At(t, "r_post")
  /\ ch' = [ch EXCEPT !.writesem_im = @ + 1]
  /\ Return(t, "success")
  /\ UNCHANGED <<selVars, obj, calls>>

PopNoWriter(t) ==
  /\ At(t, "r_adr")
  /\ ch.read_adr = NULL
  /\ Goto(t, IF NoBlock(t) THEN "r_closed" ELSE "r_sem")
  /\ UNCHANGED <<ch, selVars, fr, obj, calls, hist>>

PopToken(t) ==
  /\ At(t, "r_sem")
  /\ ch.readsem > 0
  /\ ch' = [ch EXCEPT !.readsem = @ - 1]
  /\ Goto(t, IF Cap > 0 THEN "r_avail" ELSE "r_adv")
  /\ UNCHANGED <<selVars, fr, obj, calls, hist>>

PopNoToken(t) ==
  /\ At(t, "r_sem")
  /\ ch.readsem = 0
  /\ NoBlock(t)
  /\ Goto(t, "r_closed")
  /\ UNCHANGED <<ch, selVars, fr, obj, calls, hist>>

(* Nothing was found without waiting: is the channel closed? *)
PopLooksClosed(t) ==
  /\ At(t, "r_closed")
  /\ IF ch.closed THEN Return(t, "closed")
     ELSE IF Cap > 0 THEN Return(t, "not_ready")
     ELSE Goto(t, "to_select") /\ UNCHANGED <<fr, hist>>
  /\ UNCHANGED <<ch, selVars, obj, calls>>

(* Mutant: a closed channel counts as empty. *)
PopClaims_closedFirst(t) ==
  /\ At(t, "r_avail")
  /\ IF ch.read_avail > 0 /\ ~ch.closed
     THEN /\ ch' = [ch EXCEPT !.read_avail = @ - 1]
          /\ hist' = [hist EXCEPT !.claims = @ + 1]
          /\ Goto(t, "r_idx")
     ELSE /\ Goto(t, "r_adv")
          /\ UNCHANGED <<ch, hist>>
  /\ UNCHANGED <<selVars, fr, obj, calls>>

(* Buffered: claim a value, then a slot, then wait for that slot. *)
PopClaims(t) ==
  /\ At(t, "r_avail")
  /\ IF ch.read_avail > 0
     THEN /\ ch' = [ch EXCEPT !.read_avail = @ - 1]
          /\ hist' = [hist EXCEPT !.claims = @ + 1]
          /\ Goto(t, "r_idx")
     ELSE /\ Goto(t, "r_adv")
          /\ UNCHANGED <<ch, hist>>
  /\ UNCHANGED <<selVars, fr, obj, calls>>

PopIndex(t) ==
  /\ At(t, "r_idx")
  /\ fr' = [fr EXCEPT ![t].adr = ch.buf_elem_read_idx, ![t].ticket = hist.tickets + 1]
  /\ ch' = [ch EXCEPT !.buf_elem_read_idx = (@ + 1) % Cap]
  /\ hist' = [hist EXCEPT !.tickets = @ + 1]
  /\ Goto(t, "r_slot")
  /\ UNCHANGED <<selVars, obj, calls>>

(* Mutant: the count of values is trusted, the slot's status is not looked at. *)
PopEntersSlot_early(t) ==
  /\ At(t, "r_slot")
  /\ ch' = [ch EXCEPT !.statusbuf[fr[t].adr] = "reading"]
  /\ Goto(t, "r_load")
  /\ UNCHANGED <<selVars, fr, obj, calls, hist>>

PopEntersSlot(t) ==
  /\ At(t, "r_slot")
  /\ ch.statusbuf[fr[t].adr] = "written"
  /\ ch' = [ch EXCEPT !.statusbuf[fr[t].adr] = "reading"]
  /\ Goto(t, "r_load")
  /\ UNCHANGED <<selVars, fr, obj, calls, hist>>

PopLoads(t) ==
  /\ At(t, "r_load")
  /\ obj' = [obj EXCEPT ![t] = ch.ringbuf[fr[t].adr]]
  /\ ch' = [ch EXCEPT !.statusbuf[fr[t].adr] = "unused"]
  /\ Goto(t, "r_free")
  /\ UNCHANGED <<selVars, fr, calls, hist>>

PopFrees(t) ==
  /\ At(t, "r_free")
  /\ ch' = [ch EXCEPT !.write_free = @ + 1]
  /\ Goto(t, "r_writesem")
  /\ UNCHANGED <<selVars, fr, obj, calls, hist>>

PopWritesem(t) ==
  /\ At(t, "r_writesem")
  /\ ch' = [ch EXCEPT !.writesem = @ + 1]
  /\ Goto(t, "r_sub")
  /\ UNCHANGED <<selVars, fr, obj, calls, hist>>

PopSubscriber(t) ==
  /\ At(t, "r_sub")
  /\ PostFirst("push")
  /\ Return(t, "success")
  /\ UNCHANGED <<ch, subs, mtx, obj, calls>>

(* Advertise the destination; on an unbuffered channel look for a writer again. *)
PopAdvertises(t) ==
  /\ At(t, "r_adv")
  /\ ch' = [ch EXCEPT !.write_adr = t]
  /\ Goto(t, IF Cap = 0 THEN "r_check" ELSE "r_await")
  /\ UNCHANGED <<selVars, fr, obj, calls, hist>>

PopChecks(t) ==
  /\ At(t, "r_check")
  /\ Goto(t, IF ch.read_adr # NULL THEN "r_retract" ELSE "r_note")
  /\ UNCHANGED <<ch, selVars, fr, obj, calls, hist>>

PopRetracts(t) ==
  /\ At(t, "r_retract")
  /\ IF ch.write_adr = t
     THEN /\ ch' = [ch EXCEPT !.write_adr = NULL, !.readsem = @ + 1]
          /\ Goto(t, "r_adr")
          /\ UNCHANGED fr
     ELSE /\ fr' = [fr EXCEPT ![t].in_progress = TRUE]
          /\ Goto(t, "r_await")
          /\ UNCHANGED ch
  /\ UNCHANGED <<selVars, obj, calls, hist>>

PopNotifies(t) ==
  /\ At(t, "r_note")
  /\ PostFirst("push")
  /\ Goto(t, "r_await")
  /\ UNCHANGED <<ch, subs, mtx, fr, obj, calls, hist>>

PopAwaits(t) ==
  /\ At(t, "r_await")
  /\ \/ /\ ch.adr_written = t
        /\ ch' = [ch EXCEPT !.adr_written = NULL]
        /\ fr' = [fr EXCEPT ![t].have_swapped = TRUE]
        /\ Goto(t, "r_im")
        /\ UNCHANGED hist
     \/ /\ ch.adr_written = ClosedMark
        /\ ch' = [ch EXCEPT !.readsem = @ + 1]
        /\ Return(t, "closed")
     \/ /\ ch.adr_written \notin {t, ClosedMark}
        /\ ~fr[t].in_progress
        /\ Goto(t, "r_im")
        /\ UNCHANGED <<ch, fr, hist>>
  /\ UNCHANGED <<selVars, obj, calls>>

PopImSem(t) ==
  /\ At(t, "r_im")
  /\ ch.readsem_im > 0
  /\ ch' = [ch EXCEPT !.readsem_im = @ - 1]
  /\ Goto(t, "r_mine")
  /\ UNCHANGED <<selVars, fr, obj, calls, hist>>

PopIsMine(t) ==
  /\ At(t, "r_mine")
  /\ IF fr[t].have_swapped \/ ch.adr_written = t
     THEN /\ ch' = [ch EXCEPT !.readsem = @ + 1,
                              !.adr_written = IF fr[t].have_swapped THEN @ ELSE NULL]
          /\ Return(t, "success")
     ELSE IF ch.adr_written = ClosedMark
     THEN /\ ch' = [ch EXCEPT !.readsem_im = @ + 1, !.readsem = @ + 1]
          /\ Return(t, "closed")
     ELSE /\ ch' = [ch EXCEPT !.readsem_im = @ + 1]
          /\ Goto(t, "r_im")
          /\ UNCHANGED <<fr, hist>>
  /\ UNCHANGED <<selVars, obj, calls>>

pop_buffered(t) ==
  \/ PopClaims(t) \/ PopIndex(t) \/ PopEntersSlot(t) \/ PopLoads(t)
  \/ PopFrees(t) \/ PopWritesem(t) \/ PopSubscriber(t)

pop_waits(t) ==
  \/ PopAdvertises(t) \/ PopChecks(t) \/ PopRetracts(t) \/ PopNotifies(t)
  \/ PopAwaits(t) \/ PopImSem(t) \/ PopIsMine(t)

try_pop_impl(t) ==
  \/ PopStart(t) \/ PopTakes(t) \/ PopCopies(t) \/ PopPublishes(t) \/ PopPosts(t)
  \/ PopNoWriter(t) \/ PopToken(t) \/ PopNoToken(t) \/ PopLooksClosed(t)
  \/ pop_buffered(t) \/ pop_waits(t)

-----------------------------------------------------------------------------
(* close *)

CloseClaims(t) ==
  /\ At(t, "close")
  /\ IF ch.close_claimed
     THEN Goto(t, "c_other") /\ UNCHANGED <<ch, hist>>
     ELSE /\ ch' = [ch EXCEPT !.close_claimed = TRUE]
          /\ hist' = [hist EXCEPT !.early = hist.sent]
          /\ Goto(t, "c_set")
  /\ UNCHANGED <<selVars, fr, obj, calls>>

(* Another close closes the channel; it is closed when this one returns too. *)
CloseWaits(t) ==
  /\ At(t, "c_other")
  /\ ch.closed
  /\ Finish(t, "success")
  /\ UNCHANGED <<ch, selVars, obj, calls>>

CloseSets(t) ==
  /\ At(t, "c_set")
  /\ ch' = [ch EXCEPT !.closed = TRUE]
  /\ Goto(t, "c_mark")
  /\ UNCHANGED <<selVars, fr, obj, calls, hist>>

CloseMarks(t) ==
  /\ At(t, "c_mark")
  /\ ch.adr_written = NULL
  /\ ch' = [ch EXCEPT !.adr_written = ClosedMark]
  /\ Goto(t, "c_readers")
  /\ UNCHANGED <<selVars, fr, obj, calls, hist>>

(* Mutant: readers that wait for a hand-over are not posted. *)
ClosePostsReaders_noIm(t) ==
  /\ At(t, "c_readers")
  /\ ch' = [ch EXCEPT !.readsem = @ + 1]
  /\ Goto(t, "c_read_sub")
  /\ UNCHANGED <<selVars, fr, obj, calls, hist>>

ClosePostsReaders(t) ==
  /\ At(t, "c_readers")
  /\ ch' = [ch EXCEPT !.readsem_im = @ + 1, !.readsem = @ + 1]
  /\ Goto(t, "c_read_sub")
  /\ UNCHANGED <<selVars, fr, obj, calls, hist>>

ClosePostsReadSub(t) ==
  /\ At(t, "c_read_sub")
  /\ PostFirst("pop")
  /\ Goto(t, "c_write_sub")
  /\ UNCHANGED <<ch, subs, mtx, fr, obj, calls, hist>>

ClosePostsWriteSub(t) ==
  /\ At(t, "c_write_sub")
  /\ PostFirst("push")
  /\ Goto(t, "c_writers")
  /\ UNCHANGED <<ch, subs, mtx, fr, obj, calls, hist>>

ClosePostsWriters(t) ==
  /\ At(t, "c_writers")
  /\ ch' = [ch EXCEPT !.writesem = @ + 1]
  /\ Goto(t, IF Cap = 0 THEN "c_unadvertise" ELSE "c_im")
  /\ UNCHANGED <<selVars, fr, obj, calls, hist>>

CloseUnadvertises(t) ==
  /\ At(t, "c_unadvertise")
  /\ ch' = [ch EXCEPT !.read_adr = NULL]
  /\ Goto(t, "c_im")
  /\ UNCHANGED <<selVars, fr, obj, calls, hist>>

CloseEnds(t) ==
  /\ At(t, "c_im")
  /\ ch' = [ch EXCEPT !.writesem_im = @ + 1]
  /\ Finish(t, "success")
  /\ UNCHANGED <<selVars, obj, calls>>

close(t) ==
  \/ CloseClaims(t) \/ CloseWaits(t) \/ CloseSets(t) \/ CloseMarks(t) \/ ClosePostsReaders(t)
  \/ ClosePostsReadSub(t) \/ ClosePostsWriteSub(t) \/ ClosePostsWriters(t)
  \/ CloseUnadvertises(t) \/ CloseEnds(t)

-----------------------------------------------------------------------------
(* channel_select_priv with one case *)

SelSubscribes(t) ==
  /\ At(t, "sel")
  /\ mtx[Dir(t)] = NULL
  /\ subs' = [subs EXCEPT ![Dir(t)] = Append(@, t)]
  /\ sel' = [sel EXCEPT ![t] = [state |-> "scanning", sem |-> 0]]
  /\ Goto(t, Dir(t))
  /\ UNCHANGED <<ch, mtx, fr, obj, calls, hist>>

(* What the attempt without waiting returned; with one case a closed channel  *)
(* means that all are closed.                                                 *)
SelResult(t) ==
  /\ At(t, "sel_result")
  /\ IF fr[t].result # "not_ready"
     THEN Goto(t, "sel_leave") /\ UNCHANGED <<sel, fr>>
     ELSE IF fr[t].tmo = "else"
     THEN /\ fr' = [fr EXCEPT ![t].result = "timeout"]
          /\ Goto(t, "sel_leave")
          /\ UNCHANGED sel
     ELSE /\ sel' = [sel EXCEPT ![t].state = "waiting"]
          /\ Goto(t, IF Cap = 0 THEN "sel_recheck" ELSE "sel_sleep")
          /\ UNCHANGED fr
  /\ UNCHANGED <<ch, subs, mtx, obj, calls, hist>>

(* select_recheck_after_waiting *)
RecheckLock(t) ==
  /\ At(t, "sel_recheck")
  /\ mtx[Peer(Dir(t))] = NULL
  /\ mtx' = [mtx EXCEPT ![Peer(Dir(t))] = t]
  /\ fr' = [fr EXCEPT ![t].adr = 1, ![t].found = FALSE]
  /\ Goto(t, "sel_recheck_scan")
  /\ UNCHANGED <<ch, subs, sel, obj, calls, hist>>

(* Mutant: an opposing select that waits already is not woken. *)
RecheckPeer_silent(t) ==
  /\ At(t, "sel_recheck_scan")
  /\ fr[t].adr <= Len(subs[Peer(Dir(t))])
  /\ LET s == subs[Peer(Dir(t))][fr[t].adr] IN
       IF sel[s].state = "waiting" /\ s < t
       THEN /\ mtx' = [mtx EXCEPT ![Peer(Dir(t))] = NULL]
            /\ fr' = [fr EXCEPT ![t].adr = NULL, ![t].found = FALSE]
            /\ Goto(t, "sel_sleep")
            /\ UNCHANGED sel
       ELSE /\ fr' = [fr EXCEPT ![t].adr = @ + 1,
                                ![t].found = @ \/ sel[s].state = "waiting"]
            /\ UNCHANGED <<sel, mtx, pc>>
  /\ UNCHANGED <<ch, subs, obj, calls, hist>>

RecheckPeer(t) ==
  /\ At(t, "sel_recheck_scan")
  /\ fr[t].adr <= Len(subs[Peer(Dir(t))])
  /\ LET s == subs[Peer(Dir(t))][fr[t].adr] IN
       IF sel[s].state = "waiting" /\ s < t
       THEN /\ sel' = [sel EXCEPT ![s].sem = @ + 1]
            /\ mtx' = [mtx EXCEPT ![Peer(Dir(t))] = NULL]
            /\ fr' = [fr EXCEPT ![t].adr = NULL, ![t].found = FALSE]
            /\ Goto(t, "sel_sleep")
       ELSE /\ fr' = [fr EXCEPT ![t].adr = @ + 1,
                                ![t].found = @ \/ sel[s].state = "waiting"]
            /\ UNCHANGED <<sel, mtx, pc>>
  /\ UNCHANGED <<ch, subs, obj, calls, hist>>

RecheckEnds(t) ==
  /\ At(t, "sel_recheck_scan")
  /\ fr[t].adr > Len(subs[Peer(Dir(t))])
  /\ mtx' = [mtx EXCEPT ![Peer(Dir(t))] = NULL]
  /\ fr' = [fr EXCEPT ![t].adr = NULL, ![t].found = FALSE]
  /\ Goto(t, IF fr[t].found THEN "sel_rescan" ELSE "sel_sleep")
  /\ UNCHANGED <<ch, subs, sel, obj, calls, hist>>

SelRescans(t) ==
  /\ At(t, "sel_rescan")
  /\ IF sel[t].state = "waiting"
     THEN /\ sel' = [sel EXCEPT ![t].state = "scanning"]
          /\ Goto(t, Dir(t))
     ELSE /\ Goto(t, "sel_sleep")
          /\ UNCHANGED sel
  /\ UNCHANGED <<ch, subs, mtx, fr, obj, calls, hist>>

(* The semaphore is taken, or timed_wait runs out of time. *)
SelWakes(t) ==
  /\ At(t, "sel_sleep")
  /\ \/ /\ sel[t].sem > 0
        /\ sel' = [sel EXCEPT ![t].sem = @ - 1]
        /\ UNCHANGED fr
     \/ /\ sel[t].sem = 0
        /\ fr[t].tmo = "timed"
        /\ fr' = [fr EXCEPT ![t].result = "timeout"]
        /\ UNCHANGED sel
  /\ Goto(t, "sel_woken")
  /\ UNCHANGED <<ch, subs, mtx, obj, calls, hist>>

(* No time is left before the wait: the state word is set back and the loop left. *)
SelOutOfTime(t) ==
  /\ At(t, "sel_sleep")
  /\ fr[t].tmo = "timed"
  /\ sel' = [sel EXCEPT ![t].state = "scanning"]
  /\ fr' = [fr EXCEPT ![t].result = "timeout"]
  /\ Goto(t, "sel_leave")
  /\ UNCHANGED <<ch, subs, mtx, obj, calls, hist>>

(* Mutant: a wake-up is taken for a served case, without another scan. *)
SelWoken_trusts(t) ==
  /\ At(t, "sel_woken")
  /\ sel' = [sel EXCEPT ![t].state = "scanning"]
  /\ fr' = [fr EXCEPT ![t].result = IF @ = "timeout" THEN @ ELSE "success"]
  /\ Goto(t, "sel_leave")
  /\ UNCHANGED <<ch, subs, mtx, obj, calls, hist>>

SelWoken(t) ==
  /\ At(t, "sel_woken")
  /\ IF sel[t].state = "waiting"
     THEN /\ sel' = [sel EXCEPT ![t].state = "scanning"]
          /\ Goto(t, IF fr[t].result = "timeout" THEN "sel_leave" ELSE Dir(t))
     ELSE /\ Goto(t, "sel_claimed")
          /\ UNCHANGED sel
  /\ UNCHANGED <<ch, subs, mtx, fr, obj, calls, hist>>

(* Claimed: wait until the other side has stored the index of the case. *)
SelServed(t) ==
  /\ At(t, "sel_claimed")
  /\ sel[t].state = "served"
  /\ fr' = [fr EXCEPT ![t].result = "success"]
  /\ Goto(t, "sel_leave")
  /\ UNCHANGED <<ch, selVars, obj, calls, hist>>

(* Leave the list and post the next subscriber. *)
SelLeaves(t) ==
  /\ At(t, "sel_leave")
  /\ mtx[Dir(t)] = NULL
  /\ subs' = [subs EXCEPT ![Dir(t)] = RemoveFirst(@, t)]
  /\ sel' = [s \in Thread |->
               IF \E i \in 1..(Len(subs[Dir(t)]) - 1) :
                    subs[Dir(t)][i] = t /\ subs[Dir(t)][i + 1] = s
               THEN [sel[s] EXCEPT !.sem = @ + 1] ELSE sel[s]]
  /\ Finish(t, fr[t].result)
  /\ UNCHANGED <<ch, mtx, obj, calls>>

channel_select(t) ==
  \/ SelSubscribes(t) \/ SelResult(t) \/ RecheckLock(t) \/ RecheckPeer(t) \/ RecheckEnds(t)
  \/ SelRescans(t) \/ SelWakes(t) \/ SelOutOfTime(t) \/ SelWoken(t) \/ SelServed(t)
  \/ SelLeaves(t)

Step(t) ==
  \/ to_select(t) \/ try_push_impl(t) \/ try_pop_impl(t) \/ close(t) \/ channel_select(t)

Next == UNCHANGED use /\ \E t \in Thread : Begin(t) \/ Step(t)

Spec == Init /\ [][Next]_vars

(* Every thread is scheduled: what it is about to do happens if it stays possible. *)
FairSpec == Spec /\ \A t \in Thread : WF_vars(UNCHANGED use /\ Step(t))

-----------------------------------------------------------------------------
(* Properties *)

Labels ==
  {"idle", "to_select", "to_select_scan", "to_select_copy", "to_select_post",
   "push", "p_adr", "p_copy", "p_publish", "p_post", "p_sem", "p_closed", "p_adv", "p_check",
   "p_retract", "p_note", "p_await", "p_im", "p_mine", "p_free", "p_idx", "p_slot", "p_store",
   "p_avail", "p_readsem", "p_sub",
   "pop", "r_adr", "r_copy", "r_publish", "r_post", "r_sem", "r_closed", "r_avail", "r_idx",
   "r_slot", "r_load", "r_free", "r_writesem", "r_sub", "r_adv", "r_check", "r_retract",
   "r_note", "r_await", "r_im", "r_mine",
   "close", "c_other", "c_set", "c_mark", "c_readers", "c_read_sub", "c_write_sub",
   "c_writers", "c_unadvertise", "c_im",
   "sel", "sel_result", "sel_recheck", "sel_recheck_scan", "sel_rescan", "sel_sleep",
   "sel_woken", "sel_claimed", "sel_leave"}

Value == {NoVal} \cup (Thread \X (1..MaxCalls))

(* The counters of the ring stay within the capacity, every address is one of a  *)
(* thread, and every thread is at a step of the code.                            *)
TypeOK ==
  /\ ch.closed \in BOOLEAN /\ ch.close_claimed \in BOOLEAN
  /\ {ch.writesem, ch.readsem, ch.writesem_im, ch.readsem_im} \subseteq Nat
  /\ {ch.write_adr, ch.read_adr, ch.adr_read} \subseteq Thread \cup {NULL}
  /\ ch.adr_written \in Thread \cup {NULL, ClosedMark}
  /\ ch.write_free \in 0..Cap /\ ch.read_avail \in 0..Cap
  /\ Cap > 0 => ch.buf_elem_write_idx \in Slot /\ ch.buf_elem_read_idx \in Slot
  /\ ch.statusbuf \in [Slot -> {"unused", "writing", "written", "reading"}]
  /\ ch.ringbuf \in [Slot -> Value]
  /\ obj \in [Thread -> Value]
  /\ pc \in [Thread -> Labels]
  /\ \A t \in Thread : sel[t].state \in {"scanning", "waiting", "claimed", "served"}

Got == {hist.got[i] : i \in 1..Len(hist.got)}
Buffered == {ch.ringbuf[i] : i \in {j \in Slot : ch.statusbuf[j] = "written"}}
Quiet == \A t \in Thread : At(t, "idle")

Closers(u) == {t \in Thread : "close" \in u.may[t]}

(* An unbuffered channel that nobody closes and on which no select runs out of time: *)
(* a close can come between a hand-over and its acknowledgement, and a time-out      *)
(* between the claim of a select and the copy.                                       *)
HandsOver(u) == u.cap = 0 => Closers(u) = {} /\ "timed" \notin u.timeouts

(* A value is received at most once and only if its sender was not told that the *)
(* send failed; when no call is under way, the values whose senders were told of *)
(* success are exactly those received or in the buffer.                          *)
ExactlyOnce ==
  /\ \A i, j \in 1..Len(hist.got) : i # j => hist.got[i] # hist.got[j]
  /\ Got \cap hist.refused = {}
  /\ Quiet => hist.sent = Got \cup Buffered

Senders(u) == {t \in Thread : u.may[t] \cap PushOps # {}}
Receivers(u) == {t \in Thread : u.may[t] \cap PopOps # {}}

(* Slots are freed out of order when two receivers are in the ring, and then, in a  *)
(* ring of three or more, two senders can be waiting for the same slot.             *)
InOrder(u) ==
  u.cap <= 2 \/ Cardinality(Senders(u)) <= 1 \/ Cardinality(Receivers(u)) <= 1

(* Values leave the buffer in the order in which slots were reserved: the reader *)
(* with the k-th read reservation gets the value of the k-th write reservation,  *)
(* however late its writer fills the slot.  (After a close a sender may still    *)
(* write to the object of a receiver that has left the call that lent it.)       *)
SlotOrder ==
  \A t \in Thread :
    /\ At(t, "r_load") => ch.ringbuf[fr[t].adr] = hist.order[fr[t].ticket]
    /\ pc[t] \in {"r_free", "r_writesem", "r_sub"} /\ ~ch.closed => obj[t] = hist.order[fr[t].ticket]

(* A token of writesem stands for space in the ring: whoever passed the second   *)
(* check for a closed channel finds a free entry, so the branch that returns     *)
(* not_ready without giving its token back is never taken.                       *)
TokenMeansSpace ==
  Cardinality({t \in Thread : At(t, "p_free")}) <= ch.write_free

Blocked(t) ==
  \/ At(t, "p_sem") /\ ch.writesem = 0 /\ ~NoBlock(t)
  \/ At(t, "p_publish") /\ ch.adr_written # NULL
  \/ At(t, "p_await") /\ fr[t].in_progress /\ ch.adr_read # t
  \/ At(t, "p_im") /\ ch.writesem_im = 0
  \/ At(t, "p_slot") /\ ch.statusbuf[fr[t].adr] # "unused"
  \/ At(t, "r_sem") /\ ch.readsem = 0 /\ ~NoBlock(t)
  \/ At(t, "r_publish") /\ ch.adr_read # NULL
  \/ At(t, "r_await") /\ fr[t].in_progress /\ ch.adr_written \notin {t, ClosedMark}
  \/ At(t, "r_im") /\ ch.readsem_im = 0
  \/ At(t, "r_slot") /\ ch.statusbuf[fr[t].adr] # "written"
  \/ At(t, "c_other") /\ ~ch.closed
  \/ At(t, "c_mark") /\ ch.adr_written # NULL
  \/ At(t, "sel_sleep") /\ sel[t].sem = 0 /\ fr[t].tmo = "inf"
  \/ At(t, "sel_claimed") /\ sel[t].state # "served"
  \/ \E d \in {"push", "pop"} :
       /\ mtx[d] # NULL
       /\ \/ pc[t] \in {"to_select", "sel_recheck"} /\ d = Peer(Dir(t))
          \/ pc[t] \in {"sel", "sel_leave"} /\ d = Dir(t)
          \/ pc[t] \in {"p_note", "p_sub", "c_read_sub"} /\ d = "pop"
          \/ pc[t] \in {"r_note", "r_sub", "c_write_sub"} /\ d = "push"

Pushing(t) == ~At(t, "idle") /\ fr[t].op \in PushOps
Popping(t) == ~At(t, "idle") /\ fr[t].op \in PopOps

(* Nobody waits for what is there: when no thread can go on, no call waits to    *)
(* push while another waits to pop, none waits at free space or at a buffered    *)
(* value, and none waits to receive from a closed channel.                       *)
NobodyWaitsInVain ==
  (\A t \in Thread : At(t, "idle") \/ Blocked(t)) =>
    IF ch.closed
    THEN ~\E r \in Thread : Popping(r)
    ELSE /\ ~\E s, r \in Thread : Pushing(s) /\ Popping(r)
         /\ (\E s \in Thread : Pushing(s)) => ch.write_free = 0
         /\ (\E r \in Thread : Popping(r)) => ch.read_avail = 0

(* Every receive from a buffered channel that may be closed waits for a value.  One *)
(* that does not can look before the last values come and ask for `closed` after it. *)
OnlyWaits(u) ==
  u.cap > 0 /\ Closers(u) # {} => \A t \in Thread : u.may[t] \cap PopOps \subseteq {"pop"}

(* A receive that reports a closed channel comes after as many values were       *)
(* claimed by receivers as had been sent before the close.                       *)
ClosedMeansDrained == ~hist.undrained

(* Whoever takes an advertised address finds its owner still in the call that    *)
(* advertised it, unless the channel was closed: "there is a reader waiting for  *)
(* us", "there is a writer waiting for us".                                      *)
PartnerIsThere ==
  \A t \in Thread : ~ch.closed =>
    /\ At(t, "p_copy") => pc[fr[t].adr] \in {"r_check", "r_retract", "r_note", "r_await", "r_im", "r_mine"}
    /\ At(t, "r_copy") => pc[fr[t].adr] \in {"p_check", "p_retract", "p_note", "p_await", "p_im", "p_mine"}

(* A close releases every receive that waits or starts later. *)
CloseReleasesReaders == ch.closed ~> ~\E t \in Thread : Popping(t)
=============================================================================

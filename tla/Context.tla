------------------------------ MODULE Context ------------------------------
(***************************************************************************)
(* The tree of cancellable contexts (vlib/context: cancel.v, deadline.v,   *)
(* cause.v): with_cancel, with_deadline, with_cancel_cause and             *)
(* with_deadline_cause, their cancel functions, the threads they spawn,    *)
(* and the recursive cancel that holds a parent's mutex while it cancels   *)
(* the children.                                                           *)
(*                                                                         *)
(* A process is one call or one spawned thread: <<"make", c>> is the with_ *)
(* call that makes c, <<"cancel", c>> a call of its cancel function,       *)
(* <<"timer", c>> the thread that sleeps until its deadline, <<"watch", c>> *)
(* the thread that waits for the done channel of its parent.               *)
(*                                                                         *)
(* The map of children is read and written without the parent's mutex.  An *)
(* insertion or a deletion is two steps here, and when another one comes   *)
(* between them, one of the two may be lost.  A loop over the map sees an  *)
(* entry that comes or goes meanwhile, or does not see it.                 *)
(***************************************************************************)
EXTENDS Naturals, Sequences, FiniteSets, Relation

CONSTANTS Ctx,    \* the contexts a program may make
          Bg,     \* background(): never cancelled
          Trees   \* the programs to look at

Kinds == {"cancel", "timer", "cause", "timer_cause"}

ASSUME ContextAssumption ==
  /\ Bg \notin Ctx
  /\ Trees \subseteq [parent : [Ctx -> Ctx \cup {Bg}], kind : [Ctx -> Kinds],
                      serial : BOOLEAN]   \* one thread makes and cancels the children of a context

Roles == {"make", "cancel", "timer", "watch"}
Proc == Roles \X Ctx
Free == <<"free", Bg>>

VARIABLES
  tree,                 \* the program, chosen at the start
  mutex,                \* who holds the mutex of a context
  err, cause, children, \* fields of CancelContext and CauseContext
  done,                 \* the channel done: "open", "sent" (holds the 0) or "closed"
  pc, stack, snap,      \* of a process: its place, its calls of cancel, the map it read
  inTime, late          \* history: children made before a cancel began; contexts made after

vars == <<tree, mutex, err, cause, children, done, pc, stack, snap, inTime, late>>
ctxVars == <<mutex, err, cause, children, done>>
histVars == <<inTime, late>>

Parent(c) == tree.parent[c]
Kind(c) == tree.kind[c]
HasCause(c) == Kind(c) \in {"cause", "timer_cause"}

Init ==
  /\ tree \in Trees
  /\ mutex = [c \in Ctx |-> Free]
  /\ err = [c \in Ctx |-> "none"]
  /\ cause = [c \in Ctx |-> "none"]
  /\ children = [c \in Ctx |-> {}]
  /\ done = [c \in Ctx |-> "open"]
  /\ pc = [p \in Proc |-> "idle"]
  /\ stack = [p \in Proc |-> <<>>]
  /\ snap = [p \in Proc |-> {}]
  /\ inTime = [c \in Ctx |-> {}]
  /\ late = {}

At(p, l) == pc[p] = l /\ stack[p] = <<>>
Made(c) == At(<<"make", c>>, "returned")
Unlocked(c) == c # Bg => mutex[c] = Free
Canceled(c) == err[c] # "none" /\ mutex[c] = Free

Goto(p, l) == pc' = [pc EXCEPT ![p] = l]

(* Process p calls cancel on c, and goes on at l when it returns.  `rm` says what *)
(* remove_child is given: nothing, the id under which c is registered, or the id  *)
(* of the CancelContext inside it, under which nothing is.                        *)
Frame(c, e, rm, at) == [n |-> c, err |-> e, rm |-> rm, at |-> at, seen |-> {}, todo |-> {}]

(* Canceler.cancel(false, err), by the type of c. *)
CancelerFrame(c, e) ==
  Frame(c, e, "no", IF HasCause(c) THEN "cause" ELSE "lock")

Calls(p, f, l) == Goto(p, l) /\ stack' = [stack EXCEPT ![p] = <<f>>]

Top(p) == Head(stack[p])
Frm(p, l) == stack[p] # <<>> /\ Top(p).at = l
SetTop(p, f) == stack' = [stack EXCEPT ![p] = <<f>> \o Tail(@)]
TopGoto(p, l) == SetTop(p, [Top(p) EXCEPT !.at = l])
Pop(p) == stack' = [stack EXCEPT ![p] = Tail(@)]

-----------------------------------------------------------------------------
(* CancelContext.cancel, with what TimerContext.cancel and CauseContext.cancel *)
(* do before and after it.                                                     *)

(* The context whose cause a lookup of cause_context_key from c finds: value() hands *)
(* the key on to the parent until a CauseContext answers.                            *)
HandsOn == [e \in Ctx \X Ctx |-> ~HasCause(e[1]) /\ Parent(e[1]) = e[2]]

Inherits(c) ==
  LET found == {k \in Ctx : /\ HasCause(k) /\ Parent(c) # Bg
                            /\ ReflexiveTransitiveClosure(HandsOn, Ctx)[Parent(c), k]}
  IN IF found = {} THEN "none" ELSE cause[CHOOSE k \in found : TRUE]

CancelCause(p) ==
  /\ Frm(p, "cause")
  /\ LET c == Top(p).n IN
       cause' = IF Top(p).err = "canceled" /\ Inherits(c) # "none"
                THEN [cause EXCEPT ![c] = Inherits(c)] ELSE cause
  /\ TopGoto(p, "lock")
  /\ UNCHANGED <<mutex, err, children, done, pc, snap, histVars>>

(* Already cancelled: only TimerContext.cancel goes on to remove_child. *)
CancelAgain(p) ==
  /\ Frm(p, "lock")
  /\ mutex[Top(p).n] = Free
  /\ err[Top(p).n] # "none"
  /\ IF Top(p).rm = "self" /\ Kind(Top(p).n) = "timer" THEN TopGoto(p, "remove") ELSE Pop(p)
  /\ UNCHANGED <<ctxVars, pc, snap, histVars>>

CancelStarts(p) ==
  /\ Frm(p, "lock")
  /\ mutex[Top(p).n] = Free
  /\ err[Top(p).n] = "none"
  /\ mutex' = [mutex EXCEPT ![Top(p).n] = p]
  /\ err' = [err EXCEPT ![Top(p).n] = Top(p).err]
  /\ inTime' = [inTime EXCEPT ![Top(p).n] = {c \in Ctx : Parent(c) = Top(p).n /\ Made(c)}]
  /\ TopGoto(p, "send")
  /\ UNCHANGED <<cause, children, done, pc, snap, late>>

CancelSends(p) ==
  /\ Frm(p, "send")
  /\ done' = [done EXCEPT ![Top(p).n] = "sent"]
  /\ TopGoto(p, "close")
  /\ UNCHANGED <<mutex, err, cause, children, pc, snap, histVars>>

CancelCloses(p) ==
  /\ Frm(p, "close")
  /\ done' = [done EXCEPT ![Top(p).n] = "closed"]
  /\ SetTop(p, [Top(p) EXCEPT !.at = "loop", !.todo = children[Top(p).n]])
  /\ UNCHANGED <<mutex, err, cause, children, pc, snap, histVars>>

CancelChild(p) ==
  /\ Frm(p, "loop")
  /\ \E k \in children[Top(p).n] \ Top(p).seen :
       stack' = [stack EXCEPT ![p] =
                   <<CancelerFrame(k, Top(p).err), [Top(p) EXCEPT !.seen = @ \cup {k}]>> \o Tail(@)]
  /\ UNCHANGED <<ctxVars, pc, snap, histVars>>

(* Mutant: remove_child is called before the mutex is released. *)
CancelEnds_locked(p) ==
  /\ Frm(p, "loop")
  /\ Top(p).todo \cap children[Top(p).n] \subseteq Top(p).seen
  /\ children' = [children EXCEPT ![Top(p).n] = {}]
  /\ IF Top(p).rm = "no"
     THEN Pop(p) /\ mutex' = [mutex EXCEPT ![Top(p).n] = Free]
     ELSE /\ Unlocked(Parent(Top(p).n))
          /\ TopGoto(p, "remove")
          /\ mutex' = [mutex EXCEPT ![Top(p).n] = Free]
  /\ UNCHANGED <<err, cause, done, pc, snap, histVars>>

(* Mutant: the mutex is not released. *)
CancelEnds_keepsMutex(p) ==
  /\ Frm(p, "loop")
  /\ Top(p).todo \cap children[Top(p).n] \subseteq Top(p).seen
  /\ children' = [children EXCEPT ![Top(p).n] = {}]
  /\ IF Top(p).rm = "no" THEN Pop(p) ELSE TopGoto(p, "remove")
  /\ UNCHANGED <<mutex, err, cause, done, pc, snap, histVars>>

CancelEnds(p) ==
  /\ Frm(p, "loop")
  /\ Top(p).todo \cap children[Top(p).n] \subseteq Top(p).seen
  /\ children' = [children EXCEPT ![Top(p).n] = {}]
  /\ mutex' = [mutex EXCEPT ![Top(p).n] = Free]
  /\ IF Top(p).rm = "no" THEN Pop(p) ELSE TopGoto(p, "remove")
  /\ UNCHANGED <<err, cause, done, pc, snap, histVars>>

(* remove_child: parent_cancel_context locks the mutex of the parent twice. *)
RemoveLooks(p) ==
  /\ Frm(p, "remove")
  /\ Unlocked(Parent(Top(p).n))
  /\ IF Parent(Top(p).n) = Bg THEN Pop(p)
     ELSE IF done[Parent(Top(p).n)] = "closed" THEN Pop(p)
     ELSE TopGoto(p, "remove_lock")
  /\ UNCHANGED <<ctxVars, pc, snap, histVars>>

RemoveReads(p) ==
  /\ Frm(p, "remove_lock")
  /\ mutex[Parent(Top(p).n)] = Free
  /\ snap' = [snap EXCEPT ![p] = children[Parent(Top(p).n)]]
  /\ TopGoto(p, "delete")
  /\ UNCHANGED <<ctxVars, pc, histVars>>

(* Mutant: the id of the embedded CancelContext is deleted. *)
RemoveDeletes_inner(p) ==
  /\ Frm(p, "delete")
  /\ snap' = [snap EXCEPT ![p] = {}]
  /\ Pop(p)
  /\ UNCHANGED <<ctxVars, pc, histVars>>

RemoveDeletes(p) ==
  /\ Frm(p, "delete")
  /\ LET c == Top(p).n IN
       IF Top(p).rm = "self"
       THEN \E was \in {children[Parent(c)], snap[p]} :
              children' = [children EXCEPT ![Parent(c)] = was \ {c}]
       ELSE UNCHANGED children
  /\ snap' = [snap EXCEPT ![p] = {}]
  /\ Pop(p)
  /\ UNCHANGED <<mutex, err, cause, done, pc, histVars>>

cancel(p) ==
  \/ CancelCause(p) \/ CancelAgain(p) \/ CancelStarts(p) \/ CancelSends(p) \/ CancelCloses(p)
  \/ CancelChild(p) \/ CancelEnds(p) \/ RemoveLooks(p) \/ RemoveReads(p) \/ RemoveDeletes(p)

-----------------------------------------------------------------------------
(* with_cancel, with_deadline, with_cancel_cause, with_deadline_cause: make c *)
(* and enter it in the tree (propagate_cancel).                               *)

SiblingBusy(c) ==
  \E k \in Ctx \ {c}, r \in {"make", "cancel"} :
    Parent(k) = Parent(c) /\ ~At(<<r, k>>, "idle") /\ ~At(<<r, k>>, "returned")

(* propagate_cancel starts with parent.done(). *)
MakeBegins(c) ==
  LET p == <<"make", c>> IN
  /\ At(p, "idle")
  /\ Parent(c) # Bg => Made(Parent(c))
  /\ Unlocked(Parent(c))
  /\ tree.serial => ~SiblingBusy(c)
  /\ late' = IF Parent(c) # Bg /\ Canceled(Parent(c)) THEN late \cup {c} ELSE late
  /\ Goto(p, IF Parent(c) = Bg THEN "made" ELSE "select")
  /\ UNCHANGED <<ctxVars, stack, snap, inTime>>

(* The select with an else branch takes the 0, but skips a closed channel. *)
MakeSelects(c) ==
  LET p == <<"make", c>> IN
  /\ At(p, "select")
  /\ IF done[Parent(c)] = "sent"
     THEN done' = [done EXCEPT ![Parent(c)] = "open"] /\ Goto(p, "inherit")
     ELSE Goto(p, "lookup") /\ UNCHANGED done
  /\ UNCHANGED <<mutex, err, cause, children, stack, snap, histVars>>

(* child.cancel(false, parent.err()) *)
MakeInherits(c) ==
  LET p == <<"make", c>> IN
  /\ At(p, "inherit")
  /\ mutex[Parent(c)] = Free
  /\ Calls(p, CancelerFrame(c, err[Parent(c)]), "made")
  /\ UNCHANGED <<ctxVars, snap, histVars>>

(* Mutant: no thread is started for a parent that is done. *)
MakeLooksUp_noWatch(c) ==
  LET p == <<"make", c>> IN
  /\ At(p, "lookup")
  /\ mutex[Parent(c)] = Free
  /\ Goto(p, IF done[Parent(c)] = "closed" THEN "made" ELSE "lookup_lock")
  /\ UNCHANGED <<ctxVars, stack, snap, histVars>>

(* parent_cancel_context: none if the parent is done, and then a thread watches. *)
MakeLooksUp(c) ==
  LET p == <<"make", c>> IN
  /\ At(p, "lookup")
  /\ mutex[Parent(c)] = Free
  /\ pc' = IF done[Parent(c)] = "closed"
           THEN [pc EXCEPT ![p] = "made", ![<<"watch", c>>] = "waits"]
           ELSE [pc EXCEPT ![p] = "lookup_lock"]
  /\ UNCHANGED <<ctxVars, stack, snap, histVars>>

MakeFindsParent(c) ==
  LET p == <<"make", c>> IN
  /\ At(p, "lookup_lock")
  /\ mutex[Parent(c)] = Free
  /\ Goto(p, "check")
  /\ UNCHANGED <<ctxVars, stack, snap, histVars>>

(* p.err is read, and the map written, without the mutex. *)
MakeChecks(c) ==
  LET p == <<"make", c>> IN
  /\ At(p, "check")
  /\ IF err[Parent(c)] = "none"
     THEN /\ Goto(p, "enroll")
          /\ snap' = [snap EXCEPT ![p] = children[Parent(c)]]
          /\ UNCHANGED stack
     ELSE /\ Calls(p, CancelerFrame(c, err[Parent(c)]), "made")
          /\ UNCHANGED snap
  /\ UNCHANGED <<ctxVars, histVars>>

(* Mutant: the child is not entered. *)
MakeEnrolls_not(c) ==
  LET p == <<"make", c>> IN
  /\ At(p, "enroll")
  /\ snap' = [snap EXCEPT ![p] = {}]
  /\ Goto(p, "made")
  /\ UNCHANGED <<ctxVars, stack, histVars>>

MakeEnrolls(c) ==
  LET p == <<"make", c>> IN
  /\ At(p, "enroll")
  /\ \E was \in {children[Parent(c)], snap[p]} :
       children' = [children EXCEPT ![Parent(c)] = was \cup {c}]
  /\ snap' = [snap EXCEPT ![p] = {}]
  /\ Goto(p, "made")
  /\ UNCHANGED <<mutex, err, cause, done, stack, histVars>>

(* The deadline: passed already, or left to a thread.  with_deadline starts the *)
(* thread only if the context is not cancelled, and looks under its mutex.      *)
MakeExpired(c) ==
  LET p == <<"make", c>> IN
  /\ At(p, "made")
  /\ Kind(c) \in {"timer", "timer_cause"}
  /\ Calls(p, Frame(c, "deadline", IF Kind(c) = "timer" THEN "self" ELSE "no", "lock"), "returned")
  /\ cause' = IF Kind(c) = "timer_cause" THEN [cause EXCEPT ![c] = "deadline_cause"] ELSE cause
  /\ UNCHANGED <<mutex, err, children, done, snap, histVars>>

MakeReturns(c) ==
  LET p == <<"make", c>> IN
  /\ At(p, "made")
  /\ Kind(c) = "timer" => mutex[c] = Free
  /\ pc' = [pc EXCEPT ![p] = "returned",
              ![<<"timer", c>>] = IF \/ Kind(c) = "timer_cause"
                                     \/ Kind(c) = "timer" /\ err[c] = "none"
                                  THEN "sleeps" ELSE "idle"]
  /\ UNCHANGED <<ctxVars, stack, snap, histVars>>

make(c) ==
  \/ MakeSelects(c) \/ MakeInherits(c) \/ MakeLooksUp(c) \/ MakeFindsParent(c) \/ MakeChecks(c)
  \/ MakeEnrolls(c) \/ MakeExpired(c) \/ MakeReturns(c)

-----------------------------------------------------------------------------
(* The cancel functions and the spawned threads. *)

(* A CancelFn.  Those of with_cancel_cause and with_deadline_cause cancel the *)
(* CancelContext inside the CauseContext.                                     *)
CancelFn(c) ==
  LET p == <<"cancel", c>> IN
  /\ At(p, "idle")
  /\ Made(c)
  /\ tree.serial => ~SiblingBusy(c)
  /\ Kind(c) # "cause"
  /\ Calls(p, Frame(c, "canceled", IF Kind(c) = "timer_cause" THEN "inner" ELSE "self", "lock"), "returned")
  /\ UNCHANGED <<ctxVars, snap, histVars>>

(* CancelCauseFunc: the first cause is kept. *)
CancelCauseFunc(c) ==
  LET p == <<"cancel", c>> IN
  /\ At(p, "idle")
  /\ Made(c)
  /\ tree.serial => ~SiblingBusy(c)
  /\ Kind(c) = "cause"
  /\ \/ UNCHANGED cause
     \/ /\ mutex[c] = Free
        /\ cause' = IF cause[c] = "none" THEN [cause EXCEPT ![c] = "own"] ELSE cause
  /\ Calls(p, Frame(c, "canceled", "inner", "lock"), "returned")
  /\ UNCHANGED <<mutex, err, children, done, snap, histVars>>

TimerFires(c) ==
  LET p == <<"timer", c>> IN
  /\ At(p, "sleeps")
  /\ IF Kind(c) = "timer"
     THEN /\ Calls(p, Frame(c, "deadline", "self", "lock"), "returned")
          /\ UNCHANGED cause
     ELSE /\ mutex[c] = Free
          /\ cause' = IF err[c] = "none" THEN [cause EXCEPT ![c] = "deadline_cause"] ELSE cause
          /\ Calls(p, Frame(c, "deadline", "inner", "lock"), "returned")
  /\ UNCHANGED <<mutex, err, children, done, snap, histVars>>

(* The select without an else branch also takes a closed channel. *)
WatchWakes(c) ==
  LET p == <<"watch", c>> IN
  /\ At(p, "waits")
  /\ done[Parent(c)] = "closed"
  /\ Goto(p, "woken")
  /\ UNCHANGED <<ctxVars, stack, snap, histVars>>

WatchCancels(c) ==
  LET p == <<"watch", c>> IN
  /\ At(p, "woken")
  /\ mutex[Parent(c)] = Free
  /\ Calls(p, CancelerFrame(c, err[Parent(c)]), "returned")
  /\ UNCHANGED <<ctxVars, snap, histVars>>

threads(c) == TimerFires(c) \/ WatchWakes(c) \/ WatchCancels(c)

-----------------------------------------------------------------------------
UserCall == \E c \in Ctx : MakeBegins(c) \/ CancelFn(c) \/ CancelCauseFunc(c)

Step(c) ==
  /\ make(c) \/ threads(c) \/ \E r \in Roles : cancel(<<r, c>>)
  /\ UNCHANGED tree

Next == (UserCall /\ UNCHANGED tree) \/ \E c \in Ctx : Step(c)

Spec == Init /\ [][Next]_vars

(* As long as some thread can go on, one does: no call and no thread runs for  *)
(* ever, so more need not be asked of the scheduler.  Sleeps end.              *)
FairSpec == Spec /\ WF_vars(\E c \in Ctx : Step(c))

-----------------------------------------------------------------------------
(* Properties *)

Errors == {"none", "canceled", "deadline"}
FrameLabels ==
  {"cause", "lock", "send", "close", "loop", "remove", "remove_lock", "delete"}

(* Every field has its type, the calls of a process go down the tree, and who   *)
(* holds a mutex is in a call of cancel on its context.                         *)
TypeOK ==
  /\ err \in [Ctx -> Errors]
  /\ cause \in [Ctx -> {"none", "own", "deadline_cause"}]
  /\ done \in [Ctx -> {"open", "sent", "closed"}]
  /\ children \in [Ctx -> SUBSET Ctx]
  /\ snap \in [Proc -> SUBSET Ctx]
  /\ \A p \in Proc : \A i \in 1..Len(stack[p]) :
       /\ stack[p][i].at \in FrameLabels
       /\ i < Len(stack[p]) => Parent(stack[p][i].n) = stack[p][i + 1].n
  /\ \A c \in Ctx : mutex[c] = Free
       \/ \E i \in 1..Len(stack[mutex[c]]) :
            stack[mutex[c]][i].n = c /\ stack[mutex[c]][i].at \in {"send", "close", "loop"}

(* The map of children is not raced: siblings are made and cancelled by one thread, *)
(* and no deadline of one of them removes it in a thread of its own.                *)
Unraced ==
  \A t \in Trees : \A c, k \in Ctx :
    c # k /\ t.parent[c] = t.parent[k] /\ t.parent[c] # Bg => t.serial /\ t.kind[c] # "timer"

(* When a cancel has released its context, every child that was made before it  *)
(* began is cancelled too, with its done channel closed.                        *)
CancelReachesChildren ==
  \A c \in Ctx : Canceled(c) =>
    done[c] = "closed" /\ \A k \in inTime[c] : Canceled(k)

(* "Canceling this context releases resources associated with it": a context    *)
(* whose cancel function returned is no longer among the children of its parent *)
(* (with_cancel and with_deadline, cancel.v:36, deadline.v:29).                 *)
CancelReleases ==
  \A c \in Ctx :
    /\ At(<<"cancel", c>>, "returned")
    /\ Kind(c) \in {"cancel", "timer"}
    /\ Parent(c) # Bg
    => c \notin children[Parent(c)] \/ err[Parent(c)] # "none"

(* Every call returns: no cancel waits for a mutex for ever.                    *)
CallsReturn ==
  <>[](\A r \in {"make", "cancel"}, c \in Ctx : At(<<r, c>>, "idle") \/ At(<<r, c>>, "returned"))

(* A context that is made under a parent that is cancelled already is cancelled *)
(* in the end: the select skips the closed channel, and a thread watches it.    *)
LateChildIsCanceled == <>[](\A c \in late : Canceled(c))

(* "The returned context's done channel is closed when the returned cancel      *)
(* function is called or when the parent context's done channel is closed"      *)
(* (cancel.v:32).                                                               *)
ParentCancelReachesChild ==
  \A c \in Ctx :
    (Parent(c) # Bg /\ Made(c) /\ done[Parent(c)] = "closed") ~> done[c] = "closed"
=============================================================================

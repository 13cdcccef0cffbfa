--------------------------- MODULE Context_proofs ---------------------------
(***************************************************************************)
(* The safety properties of the tree of contexts, for every set of         *)
(* contexts, every tree and every mixture of their types.  What a cancel   *)
(* reaches and releases depends on the map of children not being raced     *)
(* (Unraced): those theorems are about programs that enter and cancel the  *)
(* children of one context in one thread, or have one child per context.   *)
(***************************************************************************)
EXTENDS Context, TLAPS

-----------------------------------------------------------------------------
(* The inductive invariant, for every tree *)

Held == {"send", "close", "loop"}
Removing == {"remove", "remove_lock", "delete"}

Frames == [n : Ctx, err : Errors \ {"none"}, rm : {"no", "self", "inner"},
           at : FrameLabels, seen : SUBSET Ctx, todo : SUBSET Ctx]

UnderWay == {"select", "inherit", "lookup", "lookup_lock", "check", "enroll"}
Places == UnderWay \cup {"idle", "made", "sleeps", "waits", "woken", "returned"}

Types ==
  /\ tree \in Trees
  /\ err \in [Ctx -> Errors]
  /\ cause \in [Ctx -> {"none", "own", "deadline_cause"}]
  /\ done \in [Ctx -> {"open", "sent", "closed"}]
  /\ children \in [Ctx -> SUBSET Ctx]
  /\ mutex \in [Ctx -> Proc \cup {Free}]
  /\ pc \in [Proc -> Places]
  /\ stack \in [Proc -> Seq(Frames)]
  /\ snap \in [Proc -> SUBSET Ctx]
  /\ inTime \in [Ctx -> SUBSET Ctx]

(* Where the processes of a context are. *)
PlacesOf(c) ==
  /\ pc[<<"make", c>>] \in UnderWay \cup {"idle", "made", "returned"}
  /\ pc[<<"cancel", c>>] \in {"idle", "returned"}
  /\ pc[<<"timer", c>>] \in {"idle", "sleeps", "returned"}
  /\ pc[<<"watch", c>>] \in {"idle", "waits", "woken", "returned"}
  /\ pc[<<"make", c>>] \in UnderWay => Parent(c) # Bg
  /\ pc[<<"make", c>>] = "inherit" => err[Parent(c)] # "none"
  /\ pc[<<"cancel", c>>] # "idle" => pc[<<"make", c>>] = "returned"
  /\ pc[<<"timer", c>>] # "idle" =>
       pc[<<"make", c>>] = "returned" /\ Kind(c) \in {"timer", "timer_cause"}
  /\ pc[<<"watch", c>>] # "idle" =>
       /\ pc[<<"make", c>>] \in {"made", "returned"}
       /\ Parent(c) # Bg /\ done[Parent(c)] = "closed"

PlaceInv == \A c \in Ctx : PlacesOf(c)

(* The calls of p: the innermost one is at work, the others wait in their loops *)
(* over the children, and the outermost one is a cancel of p's own context.     *)
CallsOf(p) ==
  LET s == stack[p] IN
  s # <<>> =>
    /\ pc[p] \in {"made", "returned"}
    /\ s[Len(s)].n = p[2]
    /\ s[Len(s)].rm = "self" => p[1] = "cancel" \/ Kind(p[2]) = "timer"
    /\ p[1] = "cancel" /\ Kind(p[2]) \in {"cancel", "timer"} => s[Len(s)].rm = "self"
    /\ \A i \in 1..Len(s) :
         /\ i > 1 => s[i].at = "loop"
         /\ i < Len(s) => s[i].rm = "no" /\ Parent(s[i].n) = s[i + 1].n
         /\ s[i].at \in Removing => s[i].rm # "no" /\ Canceled(s[i].n)
         /\ s[i].at \in {"remove_lock", "delete"} => Parent(s[i].n) # Bg

CallInv == \A p \in Proc : CallsOf(p)

(* A mutex is held by the cancel that closes the done channel and goes over the *)
(* children.                                                                    *)
HoldsOf(p) ==
  \A i \in 1..Len(stack[p]) :
    /\ stack[p][i].at \in Held => mutex[stack[p][i].n] = p
    /\ stack[p][i].at = "send" => done[stack[p][i].n] = "open"
    /\ stack[p][i].at = "close" => done[stack[p][i].n] # "closed"
    /\ stack[p][i].at = "loop" => done[stack[p][i].n] = "closed"
    /\ \A j \in 1..Len(stack[p]) :
         stack[p][i].at \in Held /\ stack[p][j].at \in Held /\ i # j => stack[p][i].n # stack[p][j].n

HasHolder(c) ==
  \E i \in 1..Len(stack[mutex[c]]) :
    stack[mutex[c]][i].n = c /\ stack[mutex[c]][i].at \in Held

MutexOf(c) ==
  /\ mutex[c] # Free => err[c] # "none" /\ HasHolder(c)
  /\ err[c] = "none" => done[c] = "open"
  /\ Canceled(c) => done[c] = "closed"

LockInv == (\A p \in Proc : HoldsOf(p)) /\ (\A c \in Ctx : MutexOf(c))

(* A map of children, and what was read of one, has children only. *)
ChildInv ==
  /\ \A c \in Ctx : \A k \in children[c] : Parent(k) = c
  /\ \A p \in Proc : \A k \in snap[p] : Parent(k) = Parent(p[2])

IInv == Types /\ PlaceInv /\ CallInv /\ LockInv /\ ChildInv

-----------------------------------------------------------------------------
(* The inductive invariant where the map of children is not raced *)

Working(c) ==
  \E r \in {"make", "cancel"} : ~At(<<r, c>>, "idle") /\ ~At(<<r, c>>, "returned")

SerialInv ==
  tree.serial => \A c, k \in Ctx : c # k /\ Parent(c) = Parent(k) => ~(Working(c) /\ Working(k))

(* Process p is about to write the map of children of its context's parent. *)
Pending(p) ==
  \/ pc[p] = "enroll"
  \/ stack[p] # <<>> /\ stack[p][1].at = "delete" /\ stack[p][1].rm = "self"

(* What it has read is still there. *)
PendingInv ==
  \A p \in Proc : Pending(p) =>
    \/ Canceled(Parent(p[2]))
    \/ snap[p] \ {p[2]} = children[Parent(p[2])] \ {p[2]}

(* A context whose parent is not cancelled is among its children, or was cancelled. *)
EnrolledInv ==
  \A c \in Ctx : pc[<<"make", c>>] \in {"made", "returned"} /\ Parent(c) # Bg =>
    err[Parent(c)] # "none" \/ c \in children[Parent(c)] \/ Canceled(c)

(* A cancel that is not yet in its loop has seen no child. *)
SeenInv ==
  \A p \in Proc : \A i \in 1..Len(stack[p]) :
    stack[p][i].at \in {"cause", "lock", "send", "close"} => stack[p][i].seen = {}

(* What a cancel has still to do for the children that were there when it began. *)
ToReach(p, i, k) ==
  LET f == stack[p][i] IN
  \/ Canceled(k)
  \/ f.at \in {"send", "close"} /\ k \in children[f.n]
  \/ f.at = "loop" /\ k \in (children[f.n] \cap f.todo) \ f.seen
  \/ f.at = "loop" /\ i > 1 /\ stack[p][i - 1].n = k

ReachOf(p) ==
  \A i \in 1..Len(stack[p]) :
    stack[p][i].at \in Held => \A k \in inTime[stack[p][i].n] : ToReach(p, i, k)

InTimeOf(c) ==
  /\ err[c] = "none" => inTime[c] = {}
  /\ Canceled(c) => \A k \in inTime[c] : Canceled(k)

ReachInv == (\A p \in Proc : ReachOf(p)) /\ (\A c \in Ctx : InTimeOf(c))

(* Process p has called cancel, and has not yet got the mutex. *)
Outset(p) == Len(stack[p]) = 1 /\ stack[p][1].at \in {"cause", "lock"}

(* A context of with_cancel is cancelled by its own cancel function, or its parent is. *)
InheritInv ==
  \A p \in Proc :
    Kind(p[2]) = "cancel" /\ p[1] # "cancel" /\ Parent(p[2]) # Bg /\ stack[p] # <<>>
      => err[Parent(p[2])] # "none"

OutsetInv ==
  \A c \in Ctx :
    /\ Kind(c) = "cancel" /\ Parent(c) # Bg /\ err[c] # "none"
    /\ pc[<<"cancel", c>>] = "idle" \/ Outset(<<"cancel", c>>)
    => err[Parent(c)] # "none"

RInv ==
  /\ SerialInv /\ PendingInv /\ EnrolledInv /\ SeenInv /\ ReachInv
  /\ InheritInv /\ OutsetInv /\ CancelReleases

-----------------------------------------------------------------------------
(* Stacks *)

(* The innermost call is at the head of a stack. *)
LEMMA TopFacts ==
  ASSUME Types, NEW p \in Proc, stack[p] # <<>>
  PROVE  /\ Top(p) = stack[p][1] /\ Top(p) \in Frames
         /\ Len(stack[p]) \in Nat \ {0} /\ 1 \in 1..Len(stack[p])
         /\ \A i \in 1..Len(stack[p]) : stack[p][i] \in Frames
BY DEF Types, Top

(* An empty stack has no calls. *)
LEMMA EmptyStack ==
  ASSUME Types, NEW p \in Proc
  PROVE  stack[p] \in Seq(Frames) /\ (stack[p] = <<>> <=> Len(stack[p]) = 0)
BY DEF Types

(* The innermost call is now f, and nothing else on the stacks has changed. *)
Replaced(p, f) ==
  /\ stack' \in [Proc -> Seq(Frames)]
  /\ \A q \in Proc \ {p} : stack'[q] = stack[q]
  /\ stack'[p] # <<>> /\ Len(stack'[p]) = Len(stack[p])
  /\ stack'[p][1] = f
  /\ \A i \in 2..Len(stack[p]) : stack'[p][i] = stack[p][i]

(* What SetTop does. *)
LEMMA SetTopFacts ==
  ASSUME Types, NEW p \in Proc, stack[p] # <<>>, NEW f \in Frames, SetTop(p, f)
  PROVE  Replaced(p, f)
<1> DEFINE t == Tail(stack[p])  u == <<f>> \o t
<1>1. stack[p] \in Seq(Frames) /\ t \in Seq(Frames) /\ Len(t) = Len(stack[p]) - 1
      /\ Len(stack[p]) \in Nat \ {0}
  BY DEF Types
<1>2. u \in Seq(Frames) /\ Len(u) = Len(stack[p]) /\ u[1] = f /\ u # <<>>
  BY <1>1
<1>3. \A i \in 2..Len(stack[p]) : u[i] = stack[p][i]
  BY <1>1
<1>4. stack' = [stack EXCEPT ![p] = u]
  BY DEF SetTop
<1> HIDE DEF u
<1> QED
  BY <1>2, <1>3, <1>4 DEF Replaced, Types

(* The frame in place of the innermost one when a call goes on at l. *)
LEMMA TopGotoFacts ==
  ASSUME Types, NEW p \in Proc, stack[p] # <<>>, NEW l \in FrameLabels, TopGoto(p, l)
  PROVE  \E f \in Frames :
           /\ Replaced(p, f)
           /\ f.at = l /\ f.n = Top(p).n /\ f.err = Top(p).err /\ f.rm = Top(p).rm
           /\ f.seen = Top(p).seen /\ f.todo = Top(p).todo
<1> DEFINE f == [Top(p) EXCEPT !.at = l]
<1>1. Top(p) \in Frames
  BY TopFacts
<1>2. f \in Frames /\ f.at = l /\ f.n = Top(p).n /\ f.err = Top(p).err /\ f.rm = Top(p).rm
      /\ f.seen = Top(p).seen /\ f.todo = Top(p).todo
  BY <1>1 DEF Frames
<1>3. Replaced(p, f)
  BY <1>2, SetTopFacts DEF TopGoto
<1> QED
  BY <1>2, <1>3

(* The innermost call has returned. *)
Popped(p) ==
  /\ stack' \in [Proc -> Seq(Frames)]
  /\ \A q \in Proc \ {p} : stack'[q] = stack[q]
  /\ Len(stack'[p]) = Len(stack[p]) - 1
  /\ \A i \in 1..Len(stack'[p]) : stack'[p][i] = stack[p][i + 1]

(* What Pop does. *)
LEMMA PopFacts ==
  ASSUME Types, NEW p \in Proc, stack[p] # <<>>, Pop(p)
  PROVE  Popped(p)
<1> DEFINE t == Tail(stack[p])
<1>1. t \in Seq(Frames) /\ Len(t) = Len(stack[p]) - 1
      /\ \A i \in 1..Len(t) : t[i] = stack[p][i + 1]
  BY DEF Types
<1>2. stack' = [stack EXCEPT ![p] = t]
  BY DEF Pop
<1> HIDE DEF t
<1> QED
  BY <1>1, <1>2 DEF Popped, Types

(* A call f is on top of the innermost one, which has become g. *)
Pushed(p, f, g) ==
  /\ stack' \in [Proc -> Seq(Frames)]
  /\ \A q \in Proc \ {p} : stack'[q] = stack[q]
  /\ stack'[p] # <<>> /\ Len(stack'[p]) = Len(stack[p]) + 1
  /\ stack'[p][1] = f /\ stack'[p][2] = g
  /\ \A i \in 3..Len(stack[p]) + 1 : stack'[p][i] = stack[p][i - 1]

(* What CancelChild does to the stack. *)
LEMMA PushFacts ==
  ASSUME Types, NEW p \in Proc, stack[p] # <<>>, NEW f \in Frames, NEW g \in Frames,
         stack' = [stack EXCEPT ![p] = <<f, g>> \o Tail(@)]
  PROVE  Pushed(p, f, g)
<1> DEFINE t == Tail(stack[p])  u == <<f, g>> \o t
<1>1. stack[p] \in Seq(Frames) /\ t \in Seq(Frames) /\ Len(t) = Len(stack[p]) - 1
      /\ Len(stack[p]) \in Nat \ {0} /\ \A i \in 1..Len(t) : t[i] = stack[p][i + 1]
  BY DEF Types
<1>2. <<f, g>> \in Seq(Frames) /\ Len(<<f, g>>) = 2
  OBVIOUS
<1>3. u \in Seq(Frames) /\ Len(u) = Len(stack[p]) + 1 /\ u[1] = f /\ u[2] = g /\ u # <<>>
  BY <1>1, <1>2
<1>4. \A i \in 3..Len(stack[p]) + 1 : u[i] = stack[p][i - 1]
  BY <1>1, <1>2
<1>5. stack' = [stack EXCEPT ![p] = u]
  OBVIOUS
<1> HIDE DEF u
<1> QED
  BY <1>3, <1>4, <1>5 DEF Pushed, Types

(* Process p has made the call f, and is at l. *)
Called(p, f, l) ==
  /\ stack' \in [Proc -> Seq(Frames)]
  /\ \A q \in Proc \ {p} : stack'[q] = stack[q]
  /\ stack'[p] # <<>> /\ Len(stack'[p]) = 1 /\ stack'[p][1] = f
  /\ pc' = [pc EXCEPT ![p] = l]

(* What Calls does. *)
LEMMA CallsFacts ==
  ASSUME Types, NEW p \in Proc, NEW f \in Frames, NEW l \in Places, Calls(p, f, l)
  PROVE  Called(p, f, l)
BY DEF Types, Calls, Called, Goto

-----------------------------------------------------------------------------
(* Steps *)

(* The processes, and who is none. *)
LEMMA ProcFacts ==
  /\ \A r \in Roles, c \in Ctx : <<r, c>> \in Proc /\ <<r, c>>[1] = r /\ <<r, c>>[2] = c
  /\ \A p \in Proc : p[1] \in Roles /\ p[2] \in Ctx /\ p = <<p[1], p[2]>>
  /\ \A p \in Proc : p # Free
  /\ Bg \notin Ctx
BY ContextAssumption DEF Proc, Roles, Free

(* The fields of a tree. *)
LEMMA TreeFacts ==
  ASSUME Types, NEW c \in Ctx
  PROVE  Parent(c) \in Ctx \cup {Bg} /\ Kind(c) \in Kinds /\ tree.serial \in BOOLEAN
BY ContextAssumption DEF Types, Parent, Kind

(* What the process of a call or thread does itself, outside of cancel. *)
OwnStep(c) ==
  \/ MakeBegins(c) \/ make(c) \/ CancelFn(c) \/ CancelCauseFunc(c) \/ threads(c)

(* A step is one of a cancel under way, or a process's own. *)
LEMMA NextCases ==
  ASSUME Next
  PROVE  /\ tree' = tree
         /\ (\E p \in Proc : cancel(p)) \/ (\E c \in Ctx : OwnStep(c))
BY ProcFacts DEF Next, UserCall, Step, OwnStep

(* A call of cancel starts with a frame. *)
LEMMA FrameFacts ==
  ASSUME NEW c \in Ctx, NEW e \in Errors \ {"none"}, NEW rm \in {"no", "self", "inner"},
         NEW l \in FrameLabels
  PROVE  LET f == Frame(c, e, rm, l) IN
         f \in Frames /\ f.n = c /\ f.err = e /\ f.rm = rm /\ f.at = l /\ f.seen = {}
BY DEF Frame, Frames

(* A cancel of a child starts with a frame that does not remove it. *)
LEMMA CancelerFacts ==
  ASSUME NEW c \in Ctx, NEW e \in Errors \ {"none"}
  PROVE  LET f == CancelerFrame(c, e) IN
         f \in Frames /\ f.n = c /\ f.rm = "no" /\ f.at \in {"cause", "lock"} /\ f.seen = {}
<1>1. CASE HasCause(c)
  BY <1>1, FrameFacts DEF CancelerFrame, FrameLabels
<1>2. CASE ~HasCause(c)
  BY <1>2, FrameFacts DEF CancelerFrame, FrameLabels
<1> QED
  BY <1>1, <1>2

(* An inherited cause is the cause of a context, or none. *)
LEMMA InheritsType ==
  ASSUME Types, NEW c \in Ctx
  PROVE  Inherits(c) \in {"none", "own", "deadline_cause"}
<1> DEFINE found == {k \in Ctx : /\ HasCause(k) /\ Parent(c) # Bg
                                 /\ ReflexiveTransitiveClosure(HandsOn, Ctx)[Parent(c), k]}
<1>1. found \subseteq Ctx /\ Inherits(c) = IF found = {} THEN "none" ELSE cause[CHOOSE k \in found : TRUE]
  BY Zenon DEF Inherits
<1> HIDE DEF found
<1>2. found # {} => (CHOOSE k \in found : TRUE) \in Ctx
  BY <1>1
<1> QED
  BY <1>1, <1>2 DEF Types

(* What is known of the innermost call. *)
LEMMA InnermostFacts ==
  ASSUME IInv, NEW p \in Proc, stack[p] # <<>>
  PROVE  /\ Top(p) \in Frames /\ Top(p) = stack[p][1] /\ Top(p).n \in Ctx
         /\ Len(stack[p]) \in Nat \ {0}
         /\ pc[p] \in {"made", "returned"}
         /\ Top(p).rm # "no" => Len(stack[p]) = 1
         /\ Len(stack[p]) = 1 => Top(p).n = p[2]
         /\ Top(p).at \in Removing => Len(stack[p]) = 1 /\ Top(p).n = p[2] /\ Canceled(Top(p).n)
         /\ Top(p).at \in {"remove_lock", "delete"} => Parent(Top(p).n) \in Ctx
         /\ Top(p).at \in Held => mutex[Top(p).n] = p
<1>1. Top(p) \in Frames /\ Top(p) = stack[p][1] /\ Top(p).n \in Ctx
      /\ Len(stack[p]) \in Nat \ {0} /\ 1 \in 1..Len(stack[p])
  BY TopFacts DEF IInv, Frames
<1>2. CallsOf(p) /\ HoldsOf(p)
  BY DEF IInv, CallInv, LockInv
<1>3. Parent(Top(p).n) \in Ctx \cup {Bg}
  BY <1>1, TreeFacts DEF IInv
<1>4. /\ pc[p] \in {"made", "returned"}
      /\ stack[p][Len(stack[p])].n = p[2]
      /\ 1 < Len(stack[p]) => Top(p).rm = "no"
      /\ Top(p).at \in Removing => Top(p).rm # "no" /\ Canceled(Top(p).n)
      /\ Top(p).at \in {"remove_lock", "delete"} => Parent(Top(p).n) # Bg
  BY <1>1, <1>2 DEF CallsOf
<1>5. Top(p).at \in Held => mutex[Top(p).n] = p
  BY <1>1, <1>2 DEF HoldsOf
<1>6. Len(stack[p]) = 1 \/ 1 < Len(stack[p])
  <2>1. \A m \in Nat \ {0} : m = 1 \/ 1 < m
    OBVIOUS
  <2> QED
    BY <1>1, <2>1
<1> QED
  BY <1>1, <1>3, <1>4, <1>5, <1>6

(* The steps of a cancel keep the types. *)
LEMMA CancelTypes ==
  ASSUME IInv, tree' = tree, NEW p \in Proc, cancel(p)
  PROVE  Types'
<1> DEFINE c == Top(p).n
<1> USE DEF IInv
<1>0. stack[p] # <<>>
  BY DEF cancel, CancelCause, CancelAgain, CancelStarts, CancelSends, CancelCloses, CancelChild,
         CancelEnds, RemoveLooks, RemoveReads, RemoveDeletes, Frm
<1>1. Top(p) \in Frames /\ c \in Ctx /\ Top(p).err \in Errors \ {"none"}
      /\ Top(p).seen \in SUBSET Ctx
  BY <1>0, TopFacts DEF Frames
<1>2. Parent(c) \in Ctx \cup {Bg}
  BY <1>1, TreeFacts
<1>3. ASSUME TopGoto(p, "lock") \/ TopGoto(p, "remove") \/ TopGoto(p, "send") \/ TopGoto(p, "close")
             \/ TopGoto(p, "remove_lock") \/ TopGoto(p, "delete") \/ Pop(p)
      PROVE  stack' \in [Proc -> Seq(Frames)]
  BY <1>0, <1>3, TopGotoFacts, PopFacts DEF Replaced, Popped, FrameLabels
<1> HIDE DEF c
<1>4. CASE CancelCause(p)
  <2>1. cause' \in [Ctx -> {"none", "own", "deadline_cause"}]
    <3>1. Inherits(c) \in {"none", "own", "deadline_cause"}
      BY <1>1, InheritsType
    <3> QED
      BY <1>4, <1>1, <3>1 DEF CancelCause, Types, c
  <2> QED
    BY <1>4, <1>3, <2>1 DEF CancelCause, Types, histVars
<1>5. CASE CancelAgain(p)
  BY <1>5, <1>3 DEF CancelAgain, Types, histVars, ctxVars
<1>6. CASE CancelStarts(p)
  BY <1>6, <1>1, <1>3 DEF CancelStarts, Types, Errors, c
<1>7. CASE CancelSends(p)
  BY <1>7, <1>1, <1>3 DEF CancelSends, Types, histVars, c
<1>8. CASE CancelCloses(p)
  <2> DEFINE f == [Top(p) EXCEPT !.at = "loop", !.todo = children[Top(p).n]]
  <2>1. f \in Frames
    BY <1>1 DEF Types, Frames, FrameLabels, c
  <2>2. Replaced(p, f)
    BY <1>8, <1>0, <2>1, SetTopFacts DEF CancelCloses
  <2> QED
    BY <1>8, <1>1, <2>2 DEF CancelCloses, Types, histVars, c, Replaced
<1>9. CASE CancelChild(p)
  <2>1. PICK k \in Ctx : stack' = [stack EXCEPT ![p] =
                   <<CancelerFrame(k, Top(p).err), [Top(p) EXCEPT !.seen = @ \cup {k}]>> \o Tail(@)]
    BY <1>9, <1>1 DEF CancelChild, Types, c
  <2>2. CancelerFrame(k, Top(p).err) \in Frames
    BY <1>1, CancelerFacts
  <2>3. [Top(p) EXCEPT !.seen = @ \cup {k}] \in Frames
    BY <1>1 DEF Frames
  <2>4. stack' \in [Proc -> Seq(Frames)]
    BY <1>0, <2>1, <2>2, <2>3, PushFacts DEF Pushed
  <2> QED
    BY <1>9, <2>4 DEF CancelChild, Types, histVars, ctxVars
<1>10. CASE CancelEnds(p)
  BY <1>10, <1>1, <1>3 DEF CancelEnds, Types, histVars, c
<1>11. CASE RemoveLooks(p)
  BY <1>11, <1>3 DEF RemoveLooks, Types, histVars, ctxVars
<1>12. CASE RemoveReads(p)
  <2>1. Parent(c) \in Ctx
    BY <1>0, <1>12, InnermostFacts DEF RemoveReads, Frm, c
  <2> QED
    BY <1>12, <1>1, <2>1, <1>3 DEF RemoveReads, Types, histVars, ctxVars, c
<1>13. CASE RemoveDeletes(p)
  <2>1. children' \in [Ctx -> SUBSET Ctx]
    BY <1>13, <1>1, <1>2 DEF RemoveDeletes, Types, c
  <2>2. snap' \in [Proc -> SUBSET Ctx]
    BY <1>13 DEF RemoveDeletes, Types
  <2> QED
    BY <1>13, <1>3, <2>1, <2>2 DEF RemoveDeletes, Types, histVars
<1> QED
  BY <1>4, <1>5, <1>6, <1>7, <1>8, <1>9, <1>10, <1>11, <1>12, <1>13 DEF cancel

(* Process p calls cancel on its own context: the call f, after which it is at l. *)
Starts(p, f, l) ==
  /\ Called(p, f, l) /\ stack[p] = <<>>
  /\ f \in Frames /\ f.n = p[2] /\ f.at \in {"cause", "lock"} /\ f.seen = {}
  /\ f.rm = "self" => p[1] = "cancel" \/ Kind(p[2]) = "timer"
  /\ p[1] = "cancel" /\ Kind(p[2]) \in {"cancel", "timer"} => f.rm = "self"
  /\ \/ /\ p[1] = "make" /\ pc[p] \in {"inherit", "check"} /\ l = "made"
        /\ err[Parent(p[2])] # "none"
     \/ /\ p[1] = "make" /\ pc[p] = "made" /\ l = "returned"
        /\ Kind(p[2]) \in {"timer", "timer_cause"}
     \/ /\ p[1] = "cancel" /\ pc[p] = "idle" /\ l = "returned"
        /\ Made(p[2]) /\ (tree.serial => ~SiblingBusy(p[2]))
     \/ p[1] = "timer" /\ pc[p] = "sleeps" /\ l = "returned"
     \/ p[1] = "watch" /\ pc[p] = "woken" /\ l = "returned"
  /\ cause' \in [Ctx -> {"none", "own", "deadline_cause"}]
  /\ UNCHANGED <<mutex, err, children, done, snap, inTime>>

(* The own steps that call cancel, and those that do not. *)
OwnCall(c) ==
  \/ MakeInherits(c) \/ (MakeChecks(c) /\ err[Parent(c)] # "none") \/ MakeExpired(c)
  \/ CancelFn(c) \/ CancelCauseFunc(c) \/ TimerFires(c) \/ WatchCancels(c)

OwnMove(c) ==
  \/ MakeBegins(c) \/ MakeSelects(c) \/ MakeLooksUp(c) \/ MakeFindsParent(c)
  \/ (MakeChecks(c) /\ err[Parent(c)] = "none") \/ MakeEnrolls(c) \/ MakeReturns(c) \/ WatchWakes(c)

(* Every own step is of one of the two sorts. *)
LEMMA OwnCases ==
  ASSUME NEW c \in Ctx, OwnStep(c)
  PROVE  OwnCall(c) \/ OwnMove(c)
BY DEF OwnStep, make, threads, OwnCall, OwnMove

(* A call of cancel that inherits the error of the parent. *)
LEMMA InheritStarts ==
  ASSUME IInv, NEW c \in Ctx, NEW r \in Roles \ {"cancel"}, NEW l \in {"made", "returned"},
         Parent(c) \in Ctx, err[Parent(c)] # "none",
         Calls(<<r, c>>, CancelerFrame(c, err[Parent(c)]), l)
  PROVE  LET f == CancelerFrame(c, err[Parent(c)]) IN
         /\ Called(<<r, c>>, f, l) /\ f \in Frames /\ f.n = c /\ f.at \in {"cause", "lock"}
         /\ f.rm = "no" /\ f.seen = {}
<1> DEFINE f == CancelerFrame(c, err[Parent(c)])
<1>1. err[Parent(c)] \in Errors \ {"none"}
  BY DEF IInv, Types
<1>2. f \in Frames /\ f.n = c /\ f.rm = "no" /\ f.at \in {"cause", "lock"} /\ f.seen = {}
  BY <1>1, CancelerFacts
<1> HIDE DEF f
<1>3. Calls(<<r, c>>, f, l) /\ l \in Places
  BY DEF f, Places
<1>4. Called(<<r, c>>, f, l)
  BY <1>2, <1>3, CallsFacts, ProcFacts DEF IInv
<1> QED
  BY <1>2, <1>4 DEF f

(* Every call of cancel starts in the same way. *)
LEMMA OwnCallStarts ==
  ASSUME IInv, NEW c \in Ctx, OwnCall(c)
  PROVE  \E r \in Roles, f \in Frames, l \in {"made", "returned"} : Starts(<<r, c>>, f, l)
<1>1. /\ <<"make", c>> \in Proc /\ <<"make", c>>[1] = "make" /\ <<"make", c>>[2] = c
      /\ <<"cancel", c>> \in Proc /\ <<"cancel", c>>[1] = "cancel" /\ <<"cancel", c>>[2] = c
      /\ <<"timer", c>> \in Proc /\ <<"timer", c>>[1] = "timer" /\ <<"timer", c>>[2] = c
      /\ <<"watch", c>> \in Proc /\ <<"watch", c>>[1] = "watch" /\ <<"watch", c>>[2] = c
  BY ProcFacts DEF Roles
<1>2. Parent(c) \in Ctx \cup {Bg} /\ Kind(c) \in Kinds
  BY TreeFacts DEF IInv
<1>3. cause \in [Ctx -> {"none", "own", "deadline_cause"}]
  BY DEF IInv, Types
<1>4. "made" \in Places /\ "returned" \in Places /\ "lock" \in FrameLabels
      /\ "canceled" \in Errors \ {"none"} /\ "deadline" \in Errors \ {"none"}
  BY DEF Places, FrameLabels, Errors
<1>5. /\ {"make", "cancel", "timer", "watch"} = Roles
  BY DEF Roles
<1>6. CASE MakeInherits(c)
  <2>1. Parent(c) \in Ctx /\ err[Parent(c)] # "none"
    BY <1>6, <1>2 DEF MakeInherits, IInv, PlaceInv, PlacesOf, At, UnderWay
  <2>2. Calls(<<"make", c>>, CancelerFrame(c, err[Parent(c)]), "made") /\ At(<<"make", c>>, "inherit")
    BY <1>6 DEF MakeInherits
  <2>3. Starts(<<"make", c>>, CancelerFrame(c, err[Parent(c)]), "made")
    <3> DEFINE f == CancelerFrame(c, err[Parent(c)])
    <3>1. Called(<<"make", c>>, f, "made") /\ f \in Frames /\ f.n = c /\ f.at \in {"cause", "lock"}
         /\ f.rm = "no" /\ f.seen = {}
      BY <2>1, <2>2, <1>5, InheritStarts
    <3> HIDE DEF f
    <3>2. Starts(<<"make", c>>, f, "made")
      BY <3>1, <2>1, <2>2, <1>1, <1>3, <1>6 DEF Starts, MakeInherits, At, ctxVars, histVars
    <3> QED
      BY <3>2 DEF f
  <2> QED
    BY <2>1, <2>3, <1>5 DEF Starts
<1>7. CASE MakeChecks(c) /\ err[Parent(c)] # "none"
  <2>1. Parent(c) \in Ctx /\ err[Parent(c)] # "none"
    BY <1>7, <1>2 DEF MakeChecks, IInv, PlaceInv, PlacesOf, At, UnderWay
  <2>2. Calls(<<"make", c>>, CancelerFrame(c, err[Parent(c)]), "made") /\ At(<<"make", c>>, "check")
    BY <1>7 DEF MakeChecks
  <2>3. Starts(<<"make", c>>, CancelerFrame(c, err[Parent(c)]), "made")
    <3> DEFINE f == CancelerFrame(c, err[Parent(c)])
    <3>1. Called(<<"make", c>>, f, "made") /\ f \in Frames /\ f.n = c /\ f.at \in {"cause", "lock"}
         /\ f.rm = "no" /\ f.seen = {}
      BY <2>1, <2>2, <1>5, InheritStarts
    <3> HIDE DEF f
    <3>2. Starts(<<"make", c>>, f, "made")
      BY <3>1, <2>1, <2>2, <1>1, <1>3, <1>7 DEF Starts, MakeChecks, At, ctxVars, histVars
    <3> QED
      BY <3>2 DEF f
  <2> QED
    BY <2>1, <2>3, <1>5 DEF Starts
<1>8. CASE MakeExpired(c)
  <2> DEFINE f == Frame(c, "deadline", IF Kind(c) = "timer" THEN "self" ELSE "no", "lock")
  <2>1. f \in Frames /\ f.n = c /\ f.at = "lock" /\ f.seen = {} /\ (f.rm = "self" => Kind(c) = "timer")
    <3>1. CASE Kind(c) = "timer"
      BY <3>1, <1>4, FrameFacts
    <3>2. CASE Kind(c) # "timer"
      BY <3>2, <1>4, FrameFacts
    <3> QED
      BY <3>1, <3>2
  <2>2. Calls(<<"make", c>>, f, "returned") /\ At(<<"make", c>>, "made")
    BY <1>8 DEF MakeExpired
  <2> HIDE DEF f
  <2>3. Called(<<"make", c>>, f, "returned")
    BY <2>1, <2>2, <1>1, <1>4, CallsFacts DEF IInv
  <2>4. Starts(<<"make", c>>, f, "returned")
    BY <2>1, <2>2, <2>3, <1>1, <1>3, <1>8 DEF Starts, MakeExpired, At, histVars
  <2> QED
    BY <2>1, <2>4, <1>5
<1>9. CASE CancelFn(c)
  <2> DEFINE f == Frame(c, "canceled", IF Kind(c) = "timer_cause" THEN "inner" ELSE "self", "lock")
  <2>1. f \in Frames /\ f.n = c /\ f.at = "lock" /\ f.seen = {} /\ (Kind(c) # "timer_cause" => f.rm = "self")
    <3>1. CASE Kind(c) = "timer_cause"
      BY <3>1, <1>4, FrameFacts
    <3>2. CASE Kind(c) # "timer_cause"
      BY <3>2, <1>4, FrameFacts
    <3> QED
      BY <3>1, <3>2
  <2>2. Calls(<<"cancel", c>>, f, "returned") /\ At(<<"cancel", c>>, "idle")
    BY <1>9 DEF CancelFn
  <2> HIDE DEF f
  <2>3. Called(<<"cancel", c>>, f, "returned")
    BY <2>1, <2>2, <1>1, <1>4, CallsFacts DEF IInv
  <2>4. Starts(<<"cancel", c>>, f, "returned")
    BY <2>1, <2>2, <2>3, <1>1, <1>3, <1>9 DEF Starts, CancelFn, At, histVars, ctxVars
  <2> QED
    BY <2>1, <2>4, <1>5
<1>10. CASE CancelCauseFunc(c)
  <2> DEFINE f == Frame(c, "canceled", "inner", "lock")
  <2>1. f \in Frames /\ f.n = c /\ f.at = "lock" /\ f.seen = {} /\ f.rm = "inner"
    BY <1>4, FrameFacts
  <2>2. Calls(<<"cancel", c>>, f, "returned") /\ At(<<"cancel", c>>, "idle") /\ Kind(c) = "cause"
    BY <1>10 DEF CancelCauseFunc
  <2> HIDE DEF f
  <2>3. Called(<<"cancel", c>>, f, "returned")
    BY <2>1, <2>2, <1>1, <1>4, CallsFacts DEF IInv
  <2>4. Starts(<<"cancel", c>>, f, "returned")
    BY <2>1, <2>2, <2>3, <1>1, <1>3, <1>10 DEF Starts, CancelCauseFunc, At, histVars
  <2> QED
    BY <2>1, <2>4, <1>5
<1>11. CASE TimerFires(c)
  <2> DEFINE f == Frame(c, "deadline", IF Kind(c) = "timer" THEN "self" ELSE "inner", "lock")
  <2>1. f \in Frames /\ f.n = c /\ f.at = "lock" /\ f.seen = {} /\ (f.rm = "self" => Kind(c) = "timer")
    <3>1. CASE Kind(c) = "timer"
      BY <3>1, <1>4, FrameFacts
    <3>2. CASE Kind(c) # "timer"
      BY <3>2, <1>4, FrameFacts
    <3> QED
      BY <3>1, <3>2
  <2>2. Calls(<<"timer", c>>, f, "returned") /\ At(<<"timer", c>>, "sleeps")
    BY <1>11 DEF TimerFires
  <2> HIDE DEF f
  <2>3. Called(<<"timer", c>>, f, "returned")
    BY <2>1, <2>2, <1>1, <1>4, CallsFacts DEF IInv
  <2>4. Starts(<<"timer", c>>, f, "returned")
    BY <2>1, <2>2, <2>3, <1>1, <1>3, <1>11 DEF Starts, TimerFires, At, histVars
  <2> QED
    BY <2>1, <2>4, <1>5
<1>12. CASE WatchCancels(c)
  <2>0. pc[<<"watch", c>>] = "woken"
    BY <1>12 DEF WatchCancels, At
  <2>1. Parent(c) \in Ctx /\ done[Parent(c)] = "closed"
    BY <1>2, <2>0 DEF IInv, PlaceInv, PlacesOf
  <2>11. err[Parent(c)] # "none"
    BY <2>1 DEF IInv, LockInv, MutexOf
  <2>2. Calls(<<"watch", c>>, CancelerFrame(c, err[Parent(c)]), "returned") /\ At(<<"watch", c>>, "woken")
    BY <1>12 DEF WatchCancels
  <2>3. Starts(<<"watch", c>>, CancelerFrame(c, err[Parent(c)]), "returned")
    <3> DEFINE f == CancelerFrame(c, err[Parent(c)])
    <3>1. Called(<<"watch", c>>, f, "returned") /\ f \in Frames /\ f.n = c /\ f.at \in {"cause", "lock"}
         /\ f.rm = "no" /\ f.seen = {}
      BY <2>1, <2>11, <2>2, <1>5, InheritStarts
    <3> HIDE DEF f
    <3>2. Starts(<<"watch", c>>, f, "returned")
      BY <3>1, <2>1, <2>2, <1>1, <1>3, <1>12 DEF Starts, WatchCancels, At, ctxVars, histVars
    <3> QED
      BY <3>2 DEF f
  <2> QED
    BY <2>1, <2>3, <1>5 DEF Starts
<1> QED
  BY <1>6, <1>7, <1>8, <1>9, <1>10, <1>11, <1>12 DEF OwnCall

(* The own steps keep the types. *)
LEMMA OwnTypes ==
  ASSUME IInv, tree' = tree, NEW c \in Ctx, OwnStep(c)
  PROVE  Types'
<1>1. CASE OwnCall(c)
  <2>1. PICK r \in Roles, f \in Frames, l \in {"made", "returned"} : Starts(<<r, c>>, f, l)
    BY <1>1, OwnCallStarts
  <2>2. Types /\ <<r, c>> \in Proc /\ l \in Places
    BY ProcFacts DEF IInv, Places
  <2> QED
    BY <2>1, <2>2 DEF Starts, Called, Types
<1>2. CASE OwnMove(c)
  <2>1. Types /\ <<"make", c>> \in Proc /\ <<"watch", c>> \in Proc /\ <<"timer", c>> \in Proc
    BY ProcFacts DEF IInv, Roles
  <2>2. Parent(c) \in Ctx \cup {Bg}
    BY <2>1, TreeFacts
  <2>3. CASE MakeBegins(c)
    BY <2>1, <2>3 DEF MakeBegins, Types, Goto, Places, UnderWay, ctxVars
  <2>4. CASE MakeSelects(c)
    BY <2>1, <2>4 DEF MakeSelects, Types, Goto, Places, UnderWay, histVars
  <2>5. CASE MakeLooksUp(c)
    BY <2>1, <2>5 DEF MakeLooksUp, Types, Goto, Places, UnderWay, histVars, ctxVars
  <2>6. CASE MakeFindsParent(c)
    BY <2>1, <2>6 DEF MakeFindsParent, Types, Goto, Places, UnderWay, histVars, ctxVars
  <2>7. CASE MakeChecks(c) /\ err[Parent(c)] = "none"
    <3>1. Parent(c) \in Ctx
      BY <2>2, <2>7 DEF MakeChecks, At, IInv, PlaceInv, PlacesOf, UnderWay
    <3> QED
      BY <2>1, <2>7, <3>1, ZenonT(30) DEF MakeChecks, Types, Goto, Places, UnderWay, histVars, ctxVars
  <2>8. CASE MakeEnrolls(c)
    <3>1. Parent(c) \in Ctx
      BY <2>2, <2>8 DEF MakeEnrolls, At, IInv, PlaceInv, PlacesOf, UnderWay
    <3>2. children' \in [Ctx -> SUBSET Ctx]
      BY <2>1, <2>8, <3>1 DEF MakeEnrolls, Types
    <3> QED
      BY <2>1, <2>8, <3>2 DEF MakeEnrolls, Types, Goto, Places, UnderWay, histVars
  <2>9. CASE MakeReturns(c)
    BY <2>1, <2>9 DEF MakeReturns, Types, Places, UnderWay, histVars, ctxVars
  <2>10. CASE WatchWakes(c)
    BY <2>1, <2>10 DEF WatchWakes, Types, Goto, Places, UnderWay, histVars, ctxVars
  <2> QED
    BY <1>2, <2>3, <2>4, <2>5, <2>6, <2>7, <2>8, <2>9, <2>10 DEF OwnMove
<1> QED
  BY <1>1, <1>2, OwnCases

(* What a step does not take back: an error, a closed channel, a finished cancel. *)
Lasting ==
  \A c \in Ctx :
    /\ err[c] # "none" => err'[c] = err[c]
    /\ done[c] = "closed" => done'[c] = "closed"
    /\ Canceled(c) => Canceled(c)'

(* The steps of a cancel take none of it back. *)
LEMMA CancelLasting ==
  ASSUME IInv, tree' = tree, NEW p \in Proc, cancel(p)
  PROVE  Lasting
<1> DEFINE c == Top(p).n
<1>0. stack[p] # <<>>
  BY DEF cancel, CancelCause, CancelAgain, CancelStarts, CancelSends, CancelCloses, CancelChild,
         CancelEnds, RemoveLooks, RemoveReads, RemoveDeletes, Frm
<1>1. /\ c \in Ctx /\ Top(p) = stack[p][1] /\ 1 \in 1..Len(stack[p])
      /\ Top(p).at \in Held => mutex[c] = p
  BY <1>0, InnermostFacts
<1>2. /\ Top(p).at = "send" => done[c] = "open"
      /\ Top(p).at = "close" => done[c] # "closed"
  BY <1>1 DEF IInv, LockInv, HoldsOf
<1>3. Types /\ p # Free
  BY ProcFacts DEF IInv
<1> HIDE DEF c
<1>4. CASE UNCHANGED <<mutex, err, done>>
  BY <1>4 DEF Lasting, Canceled
<1>5. CASE CancelStarts(p)
  BY <1>1, <1>3, <1>5 DEF CancelStarts, Lasting, Canceled, Types, c
<1>6. CASE CancelSends(p)
  BY <1>1, <1>2, <1>3, <1>6 DEF CancelSends, Lasting, Canceled, Types, Frm, c
<1>7. CASE CancelCloses(p)
  BY <1>1, <1>2, <1>3, <1>7 DEF CancelCloses, Lasting, Canceled, Types, Frm, c
<1>8. CASE CancelEnds(p)
  BY <1>1, <1>3, <1>8 DEF CancelEnds, Lasting, Canceled, Types, c
<1> QED
  BY <1>4, <1>5, <1>6, <1>7, <1>8 DEF cancel, CancelCause, CancelAgain, CancelChild, RemoveLooks, RemoveReads,
     RemoveDeletes, ctxVars

(* Nor do the own steps. *)
LEMMA OwnLasting ==
  ASSUME IInv, tree' = tree, NEW c \in Ctx, OwnStep(c)
  PROVE  Lasting
<1>1. CASE UNCHANGED <<mutex, err, done>>
  BY <1>1 DEF Lasting, Canceled
<1>2. CASE MakeSelects(c)
  <2>1. Types
    BY DEF IInv
  <2> QED
    BY <1>2, <2>1 DEF MakeSelects, Lasting, Canceled, Types
<1> QED
  BY <1>1, <1>2 DEF OwnStep, make, threads, MakeBegins, MakeInherits, MakeLooksUp, MakeFindsParent, MakeChecks,
     MakeEnrolls, MakeExpired, MakeReturns, CancelFn, CancelCauseFunc, TimerFires, WatchWakes,
     WatchCancels, ctxVars

-----------------------------------------------------------------------------
(* Places *)

(* The steps of a cancel leave the processes where they are. *)
LEMMA CancelPlaces ==
  ASSUME IInv, tree' = tree, NEW p \in Proc, cancel(p)
  PROVE  PlaceInv'
<1>1. Lasting
  BY CancelLasting
<1>2. pc' = pc
  BY DEF cancel, CancelCause, CancelAgain, CancelStarts, CancelSends, CancelCloses, CancelChild,
         CancelEnds, RemoveLooks, RemoveReads, RemoveDeletes
<1>3. \A c \in Ctx : Parent(c) \in Ctx \cup {Bg} /\ Parent(c)' = Parent(c) /\ Kind(c)' = Kind(c)
  BY TreeFacts DEF IInv, Parent, Kind
<1>5. ASSUME NEW c \in Ctx
      PROVE  /\ Parent(c) # Bg => (err[Parent(c)] # "none" => err'[Parent(c)] # "none")
                                  /\ (done[Parent(c)] = "closed" => done'[Parent(c)] = "closed")
  BY <1>1, <1>3 DEF Lasting
<1>4. \A c \in Ctx : pc[<<"make", c>>] \in UnderWay \/ pc[<<"make", c>>] # "inherit"
  BY DEF UnderWay
<1>6. ASSUME NEW c \in Ctx PROVE PlacesOf(c)'
  <2>1. PlacesOf(c)
    BY DEF IInv, PlaceInv
  <2>2. pc[<<"make", c>>] = "inherit" => Parent(c) # Bg
    BY <2>1, <1>4 DEF PlacesOf
  <2> QED
    BY <1>2, <1>3, <1>5, <2>1, <2>2 DEF PlacesOf
<1> QED
  BY <1>6 DEF PlaceInv

(* A step of a process that moves from one place to another. *)
LEMMA PlacesMove ==
  ASSUME IInv, tree' = tree, Lasting, NEW c \in Ctx,
         \A k \in Ctx \ {c}, r \in Roles : pc'[<<r, k>>] = pc[<<r, k>>],
         /\ pc'[<<"make", c>>] \in UnderWay \cup {"idle", "made", "returned"}
         /\ pc'[<<"cancel", c>>] \in {"idle", "returned"}
         /\ pc'[<<"timer", c>>] \in {"idle", "sleeps", "returned"}
         /\ pc'[<<"watch", c>>] \in {"idle", "waits", "woken", "returned"}
         /\ pc'[<<"make", c>>] \in UnderWay => Parent(c) # Bg
         /\ pc'[<<"make", c>>] = "inherit" => err'[Parent(c)] # "none"
         /\ pc'[<<"cancel", c>>] # "idle" => pc'[<<"make", c>>] = "returned"
         /\ pc'[<<"timer", c>>] # "idle" =>
              pc'[<<"make", c>>] = "returned" /\ Kind(c) \in {"timer", "timer_cause"}
         /\ pc'[<<"watch", c>>] # "idle" =>
              /\ pc'[<<"make", c>>] \in {"made", "returned"}
              /\ Parent(c) # Bg /\ done'[Parent(c)] = "closed"
  PROVE  PlaceInv'
<1>1. \A k \in Ctx : Parent(k) \in Ctx \cup {Bg} /\ Parent(k)' = Parent(k) /\ Kind(k)' = Kind(k)
  BY TreeFacts DEF IInv, Parent, Kind
<1>2. \A k \in Ctx : pc[<<"make", k>>] \in UnderWay \/ pc[<<"make", k>>] # "inherit"
  BY DEF UnderWay
<1>3. "make" \in Roles /\ "cancel" \in Roles /\ "timer" \in Roles /\ "watch" \in Roles
  BY DEF Roles
<1>4. ASSUME NEW k \in Ctx \ {c}
      PROVE  /\ pc'[<<"make", k>>] = pc[<<"make", k>>] /\ pc'[<<"cancel", k>>] = pc[<<"cancel", k>>]
             /\ pc'[<<"timer", k>>] = pc[<<"timer", k>>] /\ pc'[<<"watch", k>>] = pc[<<"watch", k>>]
  BY <1>3
<1>5. ASSUME NEW k \in Ctx
      PROVE  /\ Parent(k) # Bg => (err[Parent(k)] # "none" => err'[Parent(k)] # "none")
                                  /\ (done[Parent(k)] = "closed" => done'[Parent(k)] = "closed")
  BY <1>1 DEF Lasting
<1>6. ASSUME NEW k \in Ctx \ {c} PROVE PlacesOf(k)'
  <2>1. PlacesOf(k)
    BY DEF IInv, PlaceInv
  <2>2. pc[<<"make", k>>] = "inherit" => Parent(k) # Bg
    BY <2>1, <1>2 DEF PlacesOf
  <2> QED
    BY <1>1, <1>4, <1>5, <2>1, <2>2 DEF PlacesOf
<1>7. PlacesOf(c)'
  BY <1>1 DEF PlacesOf
<1> QED
  BY <1>6, <1>7 DEF PlaceInv

(* The own steps keep every process in its own code. *)
LEMMA OwnPlaces ==
  ASSUME IInv, tree' = tree, NEW c \in Ctx, OwnStep(c)
  PROVE  PlaceInv'
<1>1. Lasting
  BY OwnLasting
<1>2. /\ Types
      /\ \A r \in Roles, k \in Ctx : <<r, k>> \in Proc
      /\ \A r, q \in Roles, k \in Ctx : (r # q \/ k # c) => <<r, k>> # <<q, c>>
      /\ "make" \in Roles /\ "cancel" \in Roles /\ "timer" \in Roles /\ "watch" \in Roles
  BY ProcFacts DEF IInv, Roles
<1>3. Parent(c) \in Ctx \cup {Bg} /\ Kind(c) \in Kinds
  BY <1>2, TreeFacts
<1>4. /\ pc[<<"make", c>>] \in UnderWay \cup {"idle", "made", "returned"}
      /\ pc[<<"cancel", c>>] \in {"idle", "returned"}
      /\ pc[<<"timer", c>>] \in {"idle", "sleeps", "returned"}
      /\ pc[<<"watch", c>>] \in {"idle", "waits", "woken", "returned"}
      /\ pc[<<"make", c>>] \in UnderWay => Parent(c) # Bg
      /\ pc[<<"make", c>>] = "inherit" => err[Parent(c)] # "none"
      /\ pc[<<"cancel", c>>] # "idle" => pc[<<"make", c>>] = "returned"
      /\ pc[<<"timer", c>>] # "idle" =>
           pc[<<"make", c>>] = "returned" /\ Kind(c) \in {"timer", "timer_cause"}
      /\ pc[<<"watch", c>>] # "idle" =>
           /\ pc[<<"make", c>>] \in {"made", "returned"}
           /\ Parent(c) # Bg /\ done[Parent(c)] = "closed"
  BY DEF IInv, PlaceInv, PlacesOf
<1>5. pc \in [Proc -> Places]
  BY <1>2 DEF Types
<1>6. /\ Parent(c) # Bg => (err[Parent(c)] # "none" => err'[Parent(c)] # "none")
                           /\ (done[Parent(c)] = "closed" => done'[Parent(c)] = "closed")
  BY <1>1, <1>3 DEF Lasting
<1>7. CASE OwnCall(c)
  <2>1. PICK r \in Roles, f \in Frames, l \in {"made", "returned"} : Starts(<<r, c>>, f, l)
    BY <1>7, OwnCallStarts
  <2>2. <<r, c>>[1] = r /\ <<r, c>>[2] = c /\ <<r, c>> \in Proc
    BY ProcFacts
  <2>3. pc' = [pc EXCEPT ![<<r, c>>] = l]
    BY <2>1 DEF Starts, Called
  <2>4. /\ pc'[<<r, c>>] = l /\ \A q \in Roles, k \in Ctx : (q # r \/ k # c) => pc'[<<q, k>>] = pc[<<q, k>>]
    BY <2>2, <2>3, <1>2, <1>5
  <2>5. \/ r = "make" /\ pc[<<r, c>>] \in {"inherit", "check"} /\ l = "made"
        \/ r = "make" /\ pc[<<r, c>>] = "made" /\ l = "returned"
        \/ r = "cancel" /\ l = "returned" /\ pc[<<"make", c>>] = "returned"
        \/ r = "timer" /\ pc[<<r, c>>] = "sleeps" /\ l = "returned"
        \/ r = "watch" /\ pc[<<r, c>>] = "woken" /\ l = "returned"
    BY <2>1, <2>2 DEF Starts, Made, At
  <2>6. "inherit" \in UnderWay /\ "check" \in UnderWay /\ "made" \notin UnderWay /\ "returned" \notin UnderWay
    BY DEF UnderWay
  <2> QED
    BY <1>1, <1>2, <1>4, <1>6, <2>4, <2>5, <2>6, PlacesMove
<1>8. CASE OwnMove(c)
  <2>0. /\ {"select", "inherit", "lookup", "lookup_lock", "check", "enroll"} = UnderWay
    BY DEF UnderWay
  <2>1. ASSUME NEW r \in Roles, NEW l, pc' = [pc EXCEPT ![<<r, c>>] = l]
        PROVE  /\ pc'[<<r, c>>] = l
               /\ \A q \in Roles, k \in Ctx : (q # r \/ k # c) => pc'[<<q, k>>] = pc[<<q, k>>]
    BY <2>1, <1>2, <1>5
  <2>3. CASE MakeBegins(c)
    <3>1. pc[<<"make", c>>] = "idle" /\ pc' = [pc EXCEPT ![<<"make", c>>] = IF Parent(c) = Bg THEN "made" ELSE "select"]
      BY <2>3 DEF MakeBegins, Goto, At
    <3>2. /\ pc'[<<"make", c>>] = IF Parent(c) = Bg THEN "made" ELSE "select"
          /\ \A q \in Roles, k \in Ctx : (q # "make" \/ k # c) => pc'[<<q, k>>] = pc[<<q, k>>]
      BY <3>1, <2>1, <1>2
    <3> QED
      BY <1>1, <1>2, <1>4, <1>6, <2>0, <3>1, <3>2, PlacesMove
  <2>4. CASE MakeSelects(c)
    <3>1. pc[<<"make", c>>] = "select" /\ (\E l \in {"inherit", "lookup"} : pc' = [pc EXCEPT ![<<"make", c>>] = l])
          /\ (pc' = [pc EXCEPT ![<<"make", c>>] = "lookup"] \/ done[Parent(c)] = "sent")
      BY <2>4 DEF MakeSelects, Goto, At
    <3>2. /\ pc'[<<"make", c>>] \in {"inherit", "lookup"}
          /\ pc'[<<"make", c>>] = "lookup" \/ done[Parent(c)] = "sent"
          /\ \A q \in Roles, k \in Ctx : (q # "make" \/ k # c) => pc'[<<q, k>>] = pc[<<q, k>>]
      BY <3>1, <2>1, <1>2
    <3>3. done[Parent(c)] = "sent" => err[Parent(c)] # "none"
      BY <1>3, <1>4, <2>0, <3>1 DEF IInv, LockInv, MutexOf
    <3> QED
      BY <1>1, <1>2, <1>4, <1>6, <2>0, <3>1, <3>2, <3>3, PlacesMove
  <2>5. CASE MakeLooksUp(c)
    <3>1. pc[<<"make", c>>] = "lookup"
      BY <2>5 DEF MakeLooksUp, At
    <3>2. CASE done[Parent(c)] = "closed"
      <4>1. pc' = [pc EXCEPT ![<<"make", c>>] = "made", ![<<"watch", c>>] = "waits"]
        BY <2>5, <3>2 DEF MakeLooksUp
      <4>2. /\ pc'[<<"make", c>>] = "made" /\ pc'[<<"watch", c>>] = "waits"
            /\ \A q \in Roles, k \in Ctx : (q \notin {"make", "watch"} \/ k # c) => pc'[<<q, k>>] = pc[<<q, k>>]
        BY <4>1, <1>2, <1>5
      <4> QED
        BY <1>1, <1>2, <1>4, <1>6, <2>0, <3>1, <3>2, <4>2, PlacesMove
    <3>3. CASE done[Parent(c)] # "closed"
      <4>1. pc' = [pc EXCEPT ![<<"make", c>>] = "lookup_lock"]
        BY <2>5, <3>3 DEF MakeLooksUp
      <4>2. /\ pc'[<<"make", c>>] = "lookup_lock"
            /\ \A q \in Roles, k \in Ctx : (q # "make" \/ k # c) => pc'[<<q, k>>] = pc[<<q, k>>]
        BY <4>1, <2>1, <1>2
      <4> QED
        BY <1>1, <1>2, <1>4, <1>6, <2>0, <3>1, <4>2, PlacesMove
    <3> QED
      BY <3>2, <3>3
  <2>6. ASSUME NEW l \in {"check", "enroll", "made"}, pc[<<"make", c>>] \in UnderWay,
               pc' = [pc EXCEPT ![<<"make", c>>] = l]
        PROVE  PlaceInv'
    <3>1. /\ pc'[<<"make", c>>] = l
          /\ \A q \in Roles, k \in Ctx : (q # "make" \/ k # c) => pc'[<<q, k>>] = pc[<<q, k>>]
      BY <2>6, <2>1, <1>2
    <3> QED
      BY <1>1, <1>2, <1>4, <1>6, <2>0, <2>6, <3>1, PlacesMove
  <2>7. CASE MakeFindsParent(c) \/ (MakeChecks(c) /\ err[Parent(c)] = "none") \/ MakeEnrolls(c)
    BY <2>6, <2>7, <2>0 DEF MakeFindsParent, MakeChecks, MakeEnrolls, Goto, At
  <2>9. CASE MakeReturns(c)
    <3>1. pc[<<"make", c>>] = "made" /\ (\E l \in {"sleeps", "idle"} :
            /\ pc' = [pc EXCEPT ![<<"make", c>>] = "returned", ![<<"timer", c>>] = l]
            /\ l = "sleeps" => Kind(c) \in {"timer", "timer_cause"})
      BY <2>9 DEF MakeReturns, At
    <3>2. /\ pc'[<<"make", c>>] = "returned" /\ pc'[<<"timer", c>>] \in {"sleeps", "idle"}
          /\ pc'[<<"timer", c>>] = "sleeps" => Kind(c) \in {"timer", "timer_cause"}
          /\ \A q \in Roles, k \in Ctx : (q \notin {"make", "timer"} \/ k # c) => pc'[<<q, k>>] = pc[<<q, k>>]
      BY <3>1, <1>2, <1>5
    <3> QED
      BY <1>1, <1>2, <1>4, <1>6, <2>0, <3>1, <3>2, PlacesMove, ZenonT(30)
  <2>10. CASE WatchWakes(c)
    <3>1. pc[<<"watch", c>>] = "waits" /\ pc' = [pc EXCEPT ![<<"watch", c>>] = "woken"]
      BY <2>10 DEF WatchWakes, Goto, At
    <3>2. /\ pc'[<<"watch", c>>] = "woken"
          /\ \A q \in Roles, k \in Ctx : (q # "watch" \/ k # c) => pc'[<<q, k>>] = pc[<<q, k>>]
      BY <3>1, <2>1, <1>2
    <3> QED
      BY <1>1, <1>2, <1>4, <1>6, <2>0, <3>1, <3>2, PlacesMove
  <2> QED
    BY <1>8, <2>3, <2>4, <2>5, <2>7, <2>9, <2>10 DEF OwnMove
<1> QED
  BY <1>7, <1>8, OwnCases

-----------------------------------------------------------------------------
(* Calls *)

(* A process that keeps its stack and its place keeps what is known of its calls. *)
LEMMA CallsKept ==
  ASSUME IInv, tree' = tree, Lasting, NEW q \in Proc, stack'[q] = stack[q],
         stack[q] # <<>> => pc'[q] = pc[q]
  PROVE  CallsOf(q)'
<1>1. CallsOf(q)
  BY DEF IInv, CallInv
<1>2. \A k : Parent(k)' = Parent(k) /\ Kind(k)' = Kind(k)
  BY DEF Parent, Kind
<1>3. stack[q] # <<>> => \A i \in 1..Len(stack[q]) : stack[q][i].n \in Ctx
  BY TopFacts DEF IInv, Frames
<1>4. \A i \in 1..Len(stack[q]) : stack[q] # <<>> /\ Canceled(stack[q][i].n) => Canceled(stack[q][i].n)'
  BY <1>3 DEF Lasting
<1> QED
  BY <1>1, <1>2, <1>4 DEF CallsOf

(* The innermost call has gone on. *)
LEMMA CallsReplaced ==
  ASSUME IInv, tree' = tree, Lasting, NEW p \in Proc, stack[p] # <<>>, pc'[p] = pc[p],
         NEW f \in Frames, Replaced(p, f), f.n = Top(p).n, f.rm = Top(p).rm,
         f.at \in Removing => f.rm # "no" /\ Canceled(f.n)',
         f.at \in {"remove_lock", "delete"} => Parent(f.n) # Bg
  PROVE  CallsOf(p)'
<1>1. CallsOf(p)
  BY DEF IInv, CallInv
<1>2. \A k : Parent(k)' = Parent(k) /\ Kind(k)' = Kind(k)
  BY DEF Parent, Kind
<1>3. /\ Top(p) = stack[p][1] /\ Len(stack[p]) \in Nat \ {0} /\ Len(stack'[p]) = Len(stack[p])
      /\ stack'[p][1] = f /\ \A i \in 2..Len(stack[p]) : stack'[p][i] = stack[p][i]
  BY TopFacts DEF IInv, Replaced
<1>4. \A i \in 1..Len(stack[p]) : stack'[p][i].n = stack[p][i].n /\ stack'[p][i].rm = stack[p][i].rm
  BY <1>3
<1>5. \A i \in 1..Len(stack[p]) : i > 1 => stack'[p][i].at = "loop" /\ stack'[p][i].at = stack[p][i].at
  BY <1>1, <1>3 DEF CallsOf
<1>6. /\ stack'[p] # <<>> /\ pc'[p] \in {"made", "returned"}
      /\ stack'[p][Len(stack'[p])].n = p[2]
      /\ stack'[p][Len(stack'[p])].rm = "self" => p[1] = "cancel" \/ Kind(p[2]) = "timer"
      /\ p[1] = "cancel" /\ Kind(p[2]) \in {"cancel", "timer"} => stack'[p][Len(stack'[p])].rm = "self"
  BY <1>1, <1>3, <1>4 DEF CallsOf, Replaced
<1>7. ASSUME NEW i \in 1..Len(stack'[p])
      PROVE  /\ i > 1 => stack'[p][i].at = "loop"
             /\ i < Len(stack'[p]) => stack'[p][i].rm = "no" /\ Parent(stack'[p][i].n) = stack'[p][i + 1].n
             /\ stack'[p][i].at \in Removing => stack'[p][i].rm # "no" /\ Canceled(stack[p][i].n)'
             /\ stack'[p][i].at \in {"remove_lock", "delete"} => Parent(stack'[p][i].n) # Bg
  <2>1. i > 1 => stack'[p][i].at = "loop" /\ stack'[p][i].at \notin Removing
    BY <1>3, <1>5, <1>7 DEF Removing
  <2>2. i < Len(stack'[p]) => stack'[p][i].rm = "no" /\ Parent(stack'[p][i].n) = stack'[p][i + 1].n
    <3>1. i < Len(stack[p]) => i \in 1..Len(stack[p]) /\ i + 1 \in 1..Len(stack[p])
      BY <1>3, <1>7
    <3>2. i < Len(stack[p]) => stack[p][i].rm = "no" /\ Parent(stack[p][i].n) = stack[p][i + 1].n
      BY <1>1, <3>1 DEF CallsOf
    <3> QED
      BY <1>3, <1>4, <3>1, <3>2
  <2>3. i = 1 \/ i > 1
    BY <1>3, <1>7
  <2> QED
    BY <1>3, <2>1, <2>2, <2>3
<1> QED
  BY <1>2, <1>6, <1>7 DEF CallsOf

(* The innermost call has returned. *)
LEMMA CallsPopped ==
  ASSUME IInv, tree' = tree, Lasting, NEW p \in Proc, stack[p] # <<>>, pc'[p] = pc[p], Popped(p)
  PROVE  CallsOf(p)'
<1>1. CallsOf(p)
  BY DEF IInv, CallInv
<1>2. \A k : Parent(k)' = Parent(k) /\ Kind(k)' = Kind(k)
  BY DEF Parent, Kind
<1>3. /\ Len(stack[p]) \in Nat \ {0} /\ Len(stack'[p]) = Len(stack[p]) - 1
      /\ stack'[p] \in Seq(Frames)
      /\ \A i \in 1..Len(stack'[p]) : stack'[p][i] = stack[p][i + 1] /\ i + 1 \in 1..Len(stack[p])
  BY TopFacts DEF IInv, Popped
<1>4. \A i \in 1..Len(stack'[p]) : stack'[p][i].at = "loop"
  BY <1>1, <1>3 DEF CallsOf
<1> SUFFICES ASSUME stack'[p] # <<>> PROVE CallsOf(p)'
  BY DEF CallsOf
<1>5. Len(stack'[p]) \in Nat \ {0}
  BY <1>3
<1>6. stack'[p][Len(stack'[p])] = stack[p][Len(stack[p])]
  BY <1>3, <1>5, SMTT(30)
<1>7. /\ pc'[p] \in {"made", "returned"}
      /\ stack'[p][Len(stack'[p])].n = p[2]
      /\ stack'[p][Len(stack'[p])].rm = "self" => p[1] = "cancel" \/ Kind(p[2]) = "timer"
      /\ p[1] = "cancel" /\ Kind(p[2]) \in {"cancel", "timer"} => stack'[p][Len(stack'[p])].rm = "self"
  BY <1>1, <1>6 DEF CallsOf
<1>8. ASSUME NEW i \in 1..Len(stack'[p])
      PROVE  /\ i > 1 => stack'[p][i].at = "loop"
             /\ i < Len(stack'[p]) => stack'[p][i].rm = "no" /\ Parent(stack'[p][i].n) = stack'[p][i + 1].n
             /\ stack'[p][i].at \in Removing => stack'[p][i].rm # "no" /\ Canceled(stack[p][i].n)'
             /\ stack'[p][i].at \in {"remove_lock", "delete"} => Parent(stack'[p][i].n) # Bg
  <2>1. i < Len(stack'[p]) => stack'[p][i].rm = "no" /\ Parent(stack'[p][i].n) = stack'[p][i + 1].n
    <3> SUFFICES ASSUME i < Len(stack'[p])
                 PROVE  stack'[p][i].rm = "no" /\ Parent(stack'[p][i].n) = stack'[p][i + 1].n
      OBVIOUS
    <3> DEFINE j == i + 1
    <3>1. /\ j \in 1..Len(stack[p]) /\ j < Len(stack[p]) /\ j \in 1..Len(stack'[p])
      BY <1>3, <1>8
    <3>2. stack'[p][i] = stack[p][j] /\ stack'[p][j] = stack[p][j + 1]
      BY <1>3, <1>8, <3>1
    <3> HIDE DEF j
    <3>3. stack[p][j].rm = "no" /\ Parent(stack[p][j].n) = stack[p][j + 1].n
      BY <1>1, <3>1 DEF CallsOf
    <3> QED
      BY <3>2, <3>3 DEF j
  <2> QED
    BY <1>4, <1>8, <2>1 DEF Removing
<1> QED
  BY <1>2, <1>7, <1>8 DEF CallsOf

(* The innermost call, which is in its loop, has called cancel on a child. *)
LEMMA CallsPushed ==
  ASSUME IInv, tree' = tree, Lasting, NEW p \in Proc, stack[p] # <<>>, pc'[p] = pc[p],
         NEW f \in Frames, NEW g \in Frames, Pushed(p, f, g),
         g.n = Top(p).n, g.rm = Top(p).rm, g.at = "loop",
         f.rm = "no", f.at \in {"cause", "lock"}, Parent(f.n) = g.n
  PROVE  CallsOf(p)'
<1>1. CallsOf(p)
  BY DEF IInv, CallInv
<1>2. \A k : Parent(k)' = Parent(k) /\ Kind(k)' = Kind(k)
  BY DEF Parent, Kind
<1>3. /\ Top(p) = stack[p][1] /\ Len(stack[p]) \in Nat \ {0} /\ Len(stack'[p]) = Len(stack[p]) + 1
      /\ stack'[p][1] = f /\ stack'[p][2] = g
      /\ \A i \in 3..Len(stack[p]) + 1 : stack'[p][i] = stack[p][i - 1]
  BY TopFacts DEF IInv, Pushed
<1>4. \A i \in 2..Len(stack'[p]) : /\ i - 1 \in 1..Len(stack[p])
                                   /\ stack'[p][i].n = stack[p][i - 1].n
                                   /\ stack'[p][i].rm = stack[p][i - 1].rm
  <2> SUFFICES ASSUME NEW i \in 2..Len(stack'[p])
               PROVE  /\ i - 1 \in 1..Len(stack[p])
                      /\ stack'[p][i].n = stack[p][i - 1].n
                      /\ stack'[p][i].rm = stack[p][i - 1].rm
    OBVIOUS
  <2>1. i - 1 \in 1..Len(stack[p]) /\ (i = 2 \/ i \in 3..Len(stack[p]) + 1)
    BY <1>3
  <2>2. CASE i = 2
    <3>1. i - 1 = 1
      BY <2>2
    <3> QED
      BY <2>1, <2>2, <3>1, <1>3
  <2> QED
    BY <2>1, <2>2, <1>3
<1>5. \A i \in 2..Len(stack'[p]) : stack'[p][i].at = "loop"
  <2> SUFFICES ASSUME NEW i \in 2..Len(stack'[p]) PROVE stack'[p][i].at = "loop"
    OBVIOUS
  <2>1. CASE i = 2
    BY <2>1, <1>3
  <2>2. CASE i # 2
    <3>1. i \in 3..Len(stack[p]) + 1 /\ i - 1 \in 1..Len(stack[p]) /\ i - 1 > 1
      BY <2>2, <1>3
    <3> QED
      BY <3>1, <1>1, <1>3, SMTT(30) DEF CallsOf
  <2> QED
    BY <2>1, <2>2
<1>6. /\ stack'[p] # <<>> /\ pc'[p] \in {"made", "returned"}
      /\ stack'[p][Len(stack'[p])].n = p[2]
      /\ stack'[p][Len(stack'[p])].rm = "self" => p[1] = "cancel" \/ Kind(p[2]) = "timer"
      /\ p[1] = "cancel" /\ Kind(p[2]) \in {"cancel", "timer"} => stack'[p][Len(stack'[p])].rm = "self"
  <2>1. Len(stack'[p]) \in 2..Len(stack'[p]) /\ Len(stack'[p]) - 1 = Len(stack[p])
    BY <1>3
  <2>2. /\ stack'[p][Len(stack'[p])].n = stack[p][Len(stack[p])].n
        /\ stack'[p][Len(stack'[p])].rm = stack[p][Len(stack[p])].rm
    BY <1>4, <2>1
  <2> QED
    BY <1>1, <2>2 DEF CallsOf, Pushed
<1>7. ASSUME NEW i \in 1..Len(stack'[p])
      PROVE  /\ i > 1 => stack'[p][i].at = "loop"
             /\ i < Len(stack'[p]) => stack'[p][i].rm = "no" /\ Parent(stack'[p][i].n) = stack'[p][i + 1].n
             /\ stack'[p][i].at \in Removing => stack'[p][i].rm # "no" /\ Canceled(stack[p][i].n)'
             /\ stack'[p][i].at \in {"remove_lock", "delete"} => Parent(stack'[p][i].n) # Bg
  <2>1. i > 1 => stack'[p][i].at = "loop"
    BY <1>3, <1>5, <1>7
  <2>2. stack'[p][i].at \in {"loop", "cause", "lock"}
    BY <2>1, <1>3, <1>7
  <2>3. i < Len(stack'[p]) => stack'[p][i].rm = "no" /\ Parent(stack'[p][i].n) = stack'[p][i + 1].n
    <3>1. CASE i = 1
      BY <3>1, <1>3
    <3>2. CASE i > 1 /\ i < Len(stack'[p])
      <4> DEFINE j == i - 1
      <4>1. /\ i \in 2..Len(stack'[p]) /\ i + 1 \in 2..Len(stack'[p]) /\ (i + 1) - 1 = j + 1
            /\ j \in 1..Len(stack[p]) /\ j < Len(stack[p])
        BY <3>2, <1>3, <1>7
      <4>2. /\ stack'[p][i].n = stack[p][j].n /\ stack'[p][i].rm = stack[p][j].rm
            /\ stack'[p][i + 1].n = stack[p][j + 1].n
        BY <4>1, <1>4
      <4> HIDE DEF j
      <4>3. stack[p][j].rm = "no" /\ Parent(stack[p][j].n) = stack[p][j + 1].n
        BY <1>1, <4>1 DEF CallsOf
      <4> QED
        BY <4>2, <4>3
    <3>3. i = 1 \/ i > 1
      BY <1>3, <1>7
    <3> QED
      BY <3>1, <3>2, <3>3
  <2> QED
    BY <2>1, <2>2, <2>3 DEF Removing
<1> QED
  BY <1>2, <1>6, <1>7 DEF CallsOf

(* What a call pushed by CancelChild and the call below it are. *)
LEMMA ChildFacts ==
  ASSUME IInv, NEW p \in Proc, CancelChild(p)
  PROVE  \E k \in children[Top(p).n] \ Top(p).seen, f \in Frames, g \in Frames :
           /\ Pushed(p, f, g)
           /\ k \in Ctx /\ Parent(k) = Top(p).n
           /\ f.n = k /\ f.rm = "no" /\ f.at \in {"cause", "lock"} /\ f.seen = {}
           /\ g.n = Top(p).n /\ g.rm = Top(p).rm /\ g.at = "loop" /\ g.todo = Top(p).todo
           /\ g.seen = Top(p).seen \cup {k}
<1>0. stack[p] # <<>> /\ Top(p).at = "loop"
  BY DEF CancelChild, Frm
<1>1. Top(p) \in Frames /\ Top(p).n \in Ctx /\ Top(p).err \in Errors \ {"none"}
  BY <1>0, InnermostFacts DEF Frames
<1>2. PICK k \in children[Top(p).n] \ Top(p).seen : stack' = [stack EXCEPT ![p] =
                   <<CancelerFrame(k, Top(p).err), [Top(p) EXCEPT !.seen = @ \cup {k}]>> \o Tail(@)]
  BY DEF CancelChild
<1>3. k \in Ctx /\ Parent(k) = Top(p).n
  BY <1>1, <1>2 DEF IInv, Types, ChildInv
<1> DEFINE f == CancelerFrame(k, Top(p).err)
           g == [Top(p) EXCEPT !.seen = @ \cup {k}]
<1>4. f \in Frames /\ f.n = k /\ f.rm = "no" /\ f.at \in {"cause", "lock"} /\ f.seen = {}
  BY <1>1, <1>3, CancelerFacts
<1>5. /\ g \in Frames /\ g.n = Top(p).n /\ g.rm = Top(p).rm /\ g.at = "loop" /\ g.todo = Top(p).todo
      /\ g.seen = Top(p).seen \cup {k}
  BY <1>0, <1>1, <1>3 DEF Frames
<1>6. stack' = [stack EXCEPT ![p] = <<f, g>> \o Tail(@)]
  BY <1>2
<1> HIDE DEF f, g
<1>7. Pushed(p, f, g)
  BY <1>0, <1>4, <1>5, <1>6, PushFacts DEF IInv
<1> QED
  BY <1>3, <1>4, <1>5, <1>7

(* What CancelCloses makes of the innermost call. *)
LEMMA ClosesFacts ==
  ASSUME IInv, NEW p \in Proc, CancelCloses(p)
  PROVE  \E f \in Frames :
           /\ Replaced(p, f)
           /\ f.at = "loop" /\ f.n = Top(p).n /\ f.rm = Top(p).rm /\ f.seen = Top(p).seen
           /\ f.todo = children[Top(p).n]
<1>0. stack[p] # <<>>
  BY DEF CancelCloses, Frm
<1>1. Top(p) \in Frames /\ Top(p).n \in Ctx
  BY <1>0, InnermostFacts
<1> DEFINE f == [Top(p) EXCEPT !.at = "loop", !.todo = children[Top(p).n]]
<1>2. /\ f \in Frames /\ f.at = "loop" /\ f.n = Top(p).n /\ f.rm = Top(p).rm /\ f.seen = Top(p).seen
      /\ f.todo = children[Top(p).n]
  BY <1>1 DEF IInv, Types, Frames, FrameLabels
<1>3. Replaced(p, f)
  BY <1>0, <1>2, SetTopFacts DEF IInv, CancelCloses
<1> QED
  BY <1>2, <1>3

(* The steps of a cancel keep what is known of the calls. *)
LEMMA CancelCalls ==
  ASSUME IInv, tree' = tree, NEW p \in Proc, cancel(p)
  PROVE  CallInv'
<1>0. stack[p] # <<>>
  BY DEF cancel, CancelCause, CancelAgain, CancelStarts, CancelSends, CancelCloses, CancelChild,
         CancelEnds, RemoveLooks, RemoveReads, RemoveDeletes, Frm
<1>1. Lasting
  BY CancelLasting
<1>2. pc' = pc
  BY DEF cancel, CancelCause, CancelAgain, CancelStarts, CancelSends, CancelCloses, CancelChild,
         CancelEnds, RemoveLooks, RemoveReads, RemoveDeletes
<1>3. Types /\ Top(p) \in Frames /\ Top(p).n \in Ctx /\ Parent(Top(p).n) \in Ctx \cup {Bg}
  BY <1>0, InnermostFacts, TreeFacts DEF IInv
<1>c. PICK c \in Ctx : c = Top(p).n
  BY <1>3
<1>d. Top(p).at \in Removing => Top(p).rm # "no" /\ Canceled(c)' /\ (Top(p).at # "remove" => Parent(c) # Bg)
  <2>1. Top(p).at \in Removing => Canceled(c) /\ Top(p).rm # "no" /\ (Top(p).at # "remove" => Parent(c) # Bg)
    <3>1. CallsOf(p) /\ Top(p) = stack[p][1] /\ 1 \in 1..Len(stack[p])
      BY <1>0, InnermostFacts DEF IInv, CallInv
    <3> QED
      BY <1>c, <1>0, <3>1 DEF CallsOf, Removing
  <2> QED
    BY <1>1, <1>c, <2>1 DEF Lasting
<1>4. ASSUME CallsOf(p)', \A q \in Proc \ {p} : stack'[q] = stack[q] PROVE CallInv'
  BY <1>1, <1>2, <1>4, CallsKept DEF CallInv
<1>5. ASSUME NEW l \in FrameLabels, TopGoto(p, l),
             l \in Removing => Top(p).rm # "no" /\ Canceled(c)',
             l \in {"remove_lock", "delete"} => Parent(c) # Bg
      PROVE  CallInv'
  <2>1. PICK f \in Frames : Replaced(p, f) /\ f.at = l /\ f.n = Top(p).n /\ f.rm = Top(p).rm
    BY <1>0, <1>3, <1>5, TopGotoFacts
  <2>2. /\ f.at \in Removing => f.rm # "no" /\ Canceled(f.n)'
        /\ f.at \in {"remove_lock", "delete"} => Parent(f.n) # Bg
    BY <1>c, <1>5, <2>1
  <2>3. CallsOf(p)'
    BY <1>0, <1>1, <1>2, <1>5, <2>1, <2>2, CallsReplaced
  <2> QED
    BY <1>4, <2>1, <2>3 DEF Replaced
<1>6. ASSUME Pop(p) PROVE CallInv'
  <2>1. Popped(p)
    BY <1>0, <1>3, <1>6, PopFacts
  <2> QED
    BY <1>0, <1>1, <1>2, <1>4, <2>1, CallsPopped DEF Popped
<1>7. {"lock", "send", "close", "remove", "remove_lock", "delete"} \subseteq FrameLabels
      /\ "lock" \notin Removing /\ "send" \notin Removing /\ "close" \notin Removing
  BY DEF FrameLabels, Removing
<1>8. CASE CancelCause(p)
  BY <1>5, <1>7, <1>8 DEF CancelCause
<1>9. CASE CancelAgain(p)
  <2>1. Canceled(c)
    BY <1>c, <1>9 DEF CancelAgain, Canceled
  <2>2. Canceled(c)'
    BY <1>1, <2>1 DEF Lasting
  <2>3. CASE TopGoto(p, "remove") /\ Top(p).rm = "self"
    BY <1>5, <1>7, <2>2, <2>3
  <2> QED
    BY <1>6, <1>9, <2>3 DEF CancelAgain
<1>10. CASE CancelStarts(p)
  BY <1>5, <1>7, <1>10 DEF CancelStarts
<1>11. CASE CancelSends(p)
  BY <1>5, <1>7, <1>11 DEF CancelSends
<1>12. CASE CancelCloses(p)
  <2>1. PICK f \in Frames : Replaced(p, f) /\ f.at = "loop" /\ f.n = Top(p).n /\ f.rm = Top(p).rm
    BY <1>12, ClosesFacts
  <2>2. CallsOf(p)'
    BY <1>0, <1>1, <1>2, <2>1, CallsReplaced DEF Removing
  <2> QED
    BY <1>4, <2>1, <2>2 DEF Replaced
<1>13. CASE CancelChild(p)
  <2>1. PICK k \in Ctx, f \in Frames, g \in Frames :
           /\ Pushed(p, f, g) /\ Parent(k) = Top(p).n
           /\ f.n = k /\ f.rm = "no" /\ f.at \in {"cause", "lock"}
           /\ g.n = Top(p).n /\ g.rm = Top(p).rm /\ g.at = "loop"
    BY <1>13, ChildFacts
  <2>2. CallsOf(p)'
    BY <1>0, <1>1, <1>2, <2>1, CallsPushed
  <2> QED
    BY <1>4, <2>1, <2>2 DEF Pushed
<1>14. CASE CancelEnds(p)
  <2>1. err[c] # "none"
    BY <1>0, <1>c, <1>14, InnermostFacts, ProcFacts DEF CancelEnds, Frm, Held, IInv, LockInv, MutexOf
  <2>2. Canceled(c)'
    BY <1>3, <1>c, <1>14, <2>1 DEF CancelEnds, Canceled, Types
  <2>3. CASE TopGoto(p, "remove") /\ Top(p).rm # "no"
    BY <1>5, <1>7, <2>2, <2>3
  <2> QED
    BY <1>6, <1>14, <2>3 DEF CancelEnds
<1>15. CASE RemoveLooks(p)
  <2>1. CASE Pop(p)
    BY <1>6, <2>1
  <2>2. CASE ~Pop(p)
    BY <1>5, <1>7, <1>15, <1>c, <1>d, <2>2 DEF RemoveLooks, Frm, Removing
  <2> QED
    BY <2>1, <2>2
<1>16. CASE RemoveReads(p)
  BY <1>5, <1>7, <1>16, <1>d DEF RemoveReads, Frm, Removing
<1>17. CASE RemoveDeletes(p)
  BY <1>6, <1>17 DEF RemoveDeletes
<1> QED
  BY <1>8, <1>9, <1>10, <1>11, <1>12, <1>13, <1>14, <1>15, <1>16, <1>17 DEF cancel

(* An own step that calls nothing changes no stack, and moves no process that is in a call. *)
LEMMA MoveFacts ==
  ASSUME IInv, tree' = tree, NEW c \in Ctx, OwnMove(c)
  PROVE  /\ stack' = stack /\ \A q \in Proc : stack[q] # <<>> => pc'[q] = pc[q]
         /\ UNCHANGED <<mutex, err, inTime>>
         /\ stack[<<"make", c>>] = <<>> \/ WatchWakes(c)
<1>1. /\ <<"make", c>> \in Proc /\ <<"watch", c>> \in Proc /\ <<"timer", c>> \in Proc
      /\ pc \in [Proc -> Places]
  BY ProcFacts DEF IInv, Types, Roles
<1>2. /\ PlacesOf(c) /\ CallsOf(<<"watch", c>>) /\ CallsOf(<<"timer", c>>)
  BY <1>1 DEF IInv, PlaceInv, CallInv
<1>3. ASSUME NEW p \in Proc, NEW l, At(p, pc[p]), pc' = [pc EXCEPT ![p] = l]
      PROVE  \A q \in Proc : stack[q] # <<>> => pc'[q] = pc[q]
  BY <1>1, <1>3 DEF At
<1>4. CASE MakeBegins(c)
  <2>1. At(<<"make", c>>, pc[<<"make", c>>])
    BY <1>4 DEF MakeBegins, At
  <2> QED
    BY <1>1, <1>3, <1>4, <2>1 DEF MakeBegins, Goto, ctxVars, At
<1>5. CASE MakeSelects(c)
  <2>1. At(<<"make", c>>, pc[<<"make", c>>])
    BY <1>5 DEF MakeSelects, At
  <2> QED
    BY <1>1, <1>3, <1>5, <2>1 DEF MakeSelects, Goto, histVars, At
<1>6. CASE MakeLooksUp(c)
  <2>1. stack[<<"make", c>>] = <<>> /\ pc[<<"make", c>>] = "lookup"
    BY <1>6 DEF MakeLooksUp, At
  <2>2. stack[<<"watch", c>>] = <<>>
    BY <1>2, <2>1 DEF PlacesOf, CallsOf
  <2> QED
    BY <1>1, <1>6, <2>1, <2>2 DEF MakeLooksUp, ctxVars, histVars
<1>7. CASE MakeFindsParent(c)
  <2>1. At(<<"make", c>>, pc[<<"make", c>>])
    BY <1>7 DEF MakeFindsParent, At
  <2> QED
    BY <1>1, <1>3, <1>7, <2>1 DEF MakeFindsParent, Goto, ctxVars, histVars, At
<1>8. CASE MakeChecks(c) /\ err[Parent(c)] = "none"
  <2>1. At(<<"make", c>>, pc[<<"make", c>>])
    BY <1>8 DEF MakeChecks, At
  <2> QED
    BY <1>1, <1>3, <1>8, <2>1 DEF MakeChecks, Goto, ctxVars, histVars, At
<1>9. CASE MakeEnrolls(c)
  <2>1. At(<<"make", c>>, pc[<<"make", c>>])
    BY <1>9 DEF MakeEnrolls, At
  <2> QED
    BY <1>1, <1>3, <1>9, <2>1 DEF MakeEnrolls, Goto, histVars, At
<1>10. CASE MakeReturns(c)
  <2>1. stack[<<"make", c>>] = <<>> /\ pc[<<"make", c>>] = "made"
    BY <1>10 DEF MakeReturns, At
  <2>2. stack[<<"timer", c>>] = <<>>
    BY <1>2, <2>1 DEF PlacesOf, CallsOf
  <2> QED
    BY <1>1, <1>10, <2>1, <2>2 DEF MakeReturns, ctxVars, histVars
<1>11. CASE WatchWakes(c)
  <2>1. At(<<"watch", c>>, pc[<<"watch", c>>])
    BY <1>11 DEF WatchWakes, At
  <2> QED
    BY <1>1, <1>3, <1>11, <2>1 DEF WatchWakes, Goto, ctxVars, histVars, At
<1> QED
  BY <1>4, <1>5, <1>6, <1>7, <1>8, <1>9, <1>10, <1>11 DEF OwnMove

(* The own steps keep what is known of the calls. *)
LEMMA OwnCalls ==
  ASSUME IInv, tree' = tree, NEW c \in Ctx, OwnStep(c)
  PROVE  CallInv'
<1>1. Lasting
  BY OwnLasting
<1>2. CASE OwnCall(c)
  <2>1. PICK r \in Roles, f \in Frames, l \in {"made", "returned"} : Starts(<<r, c>>, f, l)
    BY <1>2, OwnCallStarts
  <2>2. PICK p \in Proc : p = <<r, c>>
    BY ProcFacts
  <2>3. Starts(p, f, l) /\ Types
    BY <2>1, <2>2 DEF IInv
  <2>4. ASSUME NEW q \in Proc, q # p PROVE CallsOf(q)'
    <3>1. stack'[q] = stack[q] /\ pc'[q] = pc[q]
      BY <2>3, <2>4 DEF Starts, Called, Types
    <3> QED
      BY <1>1, <3>1, CallsKept
  <2>5. CallsOf(p)'
    <3>1. /\ Len(stack'[p]) = 1 /\ stack'[p][1] = f /\ pc'[p] = l
          /\ f.n = p[2] /\ f.at \in {"cause", "lock"}
          /\ f.rm = "self" => p[1] = "cancel" \/ Kind(p[2]) = "timer"
          /\ p[1] = "cancel" /\ Kind(p[2]) \in {"cancel", "timer"} => f.rm = "self"
      BY <2>3 DEF Starts, Called, Types
    <3>2. Kind(p[2])' = Kind(p[2])
      BY DEF Kind
    <3> QED
      BY <3>1, <3>2 DEF CallsOf, Removing
  <2> QED
    BY <2>4, <2>5 DEF CallInv
<1>3. CASE OwnMove(c)
  BY <1>1, <1>3, MoveFacts, CallsKept DEF CallInv
<1> QED
  BY <1>2, <1>3, OwnCases

-----------------------------------------------------------------------------
(* Mutexes *)

(* The calls below the innermost one hold their mutexes. *)
LEMMA LowerFacts ==
  ASSUME IInv, NEW p \in Proc, stack[p] # <<>>, NEW i \in 2..Len(stack[p])
  PROVE  /\ stack[p][i] \in Frames /\ stack[p][i].n \in Ctx /\ stack[p][i].at = "loop"
         /\ mutex[stack[p][i].n] = p /\ done[stack[p][i].n] = "closed"
         /\ Top(p).at \in Held => stack[p][i].n # Top(p).n
         /\ mutex[Top(p).n] = Free => stack[p][i].n # Top(p).n
         /\ \A j \in 2..Len(stack[p]) : j # i => stack[p][i].n # stack[p][j].n
<1>1. /\ Top(p) = stack[p][1] /\ Len(stack[p]) \in Nat \ {0} /\ CallsOf(p) /\ HoldsOf(p)
      /\ p # Free
  BY InnermostFacts, ProcFacts DEF IInv, CallInv, LockInv
<1>2. i \in 1..Len(stack[p]) /\ i > 1 /\ 1 \in 1..Len(stack[p]) /\ 1 # i
  BY <1>1
<1>3. stack[p][i] \in Frames /\ stack[p][i].n \in Ctx
  BY <1>2, TopFacts DEF IInv, Frames
<1>4. stack[p][i].at = "loop"
  BY <1>1, <1>2 DEF CallsOf
<1>5. mutex[stack[p][i].n] = p /\ done[stack[p][i].n] = "closed"
  BY <1>1, <1>2, <1>4 DEF HoldsOf, Held
<1>6. Top(p).at \in Held => stack[p][i].n # Top(p).n
  BY <1>1, <1>2, <1>4 DEF HoldsOf, Held
<1>7. ASSUME NEW j \in 2..Len(stack[p]), j # i PROVE stack[p][i].n # stack[p][j].n
  <2>1. j \in 1..Len(stack[p]) /\ j > 1
    BY <1>1
  <2>2. stack[p][j].at = "loop"
    BY <1>1, <2>1 DEF CallsOf
  <2> QED
    BY <1>1, <1>2, <1>4, <1>7, <2>1, <2>2 DEF HoldsOf, Held
<1> QED
  BY <1>1, <1>3, <1>4, <1>5, <1>6, <1>7

(* A process that keeps its stack keeps its mutexes, if nobody else touches them. *)
LEMMA HoldsKept ==
  ASSUME IInv, NEW q \in Proc, stack'[q] = stack[q],
         \A c \in Ctx : mutex[c] = q =>
           /\ mutex'[c] = q
           /\ done[c] = "open" => done'[c] = "open"
           /\ done[c] # "closed" => done'[c] # "closed"
           /\ done[c] = "closed" => done'[c] = "closed"
  PROVE  HoldsOf(q)'
<1>1. HoldsOf(q)
  BY DEF IInv, LockInv
<1>2. ASSUME NEW i \in 1..Len(stack[q]) PROVE stack[q][i].n \in Ctx
  <2>1. stack[q] # <<>>
    BY EmptyStack, <1>2 DEF IInv
  <2> QED
    BY <2>1, <1>2, TopFacts DEF IInv, Frames
<1>3. ASSUME NEW i \in 1..Len(stack[q])
      PROVE  /\ stack[q][i].at \in Held => mutex'[stack[q][i].n] = q
             /\ stack[q][i].at = "send" => done'[stack[q][i].n] = "open"
             /\ stack[q][i].at = "close" => done'[stack[q][i].n] # "closed"
             /\ stack[q][i].at = "loop" => done'[stack[q][i].n] = "closed"
  BY <1>1, <1>2, <1>3 DEF HoldsOf, Held
<1> QED
  BY <1>1, <1>3 DEF HoldsOf

(* The innermost call has gone on, and the others still hold their mutexes. *)
LEMMA HoldsReplaced ==
  ASSUME IInv, Lasting, NEW p \in Proc, stack[p] # <<>>, NEW f \in Frames, Replaced(p, f),
         \A i \in 2..Len(stack[p]) : mutex'[stack[p][i].n] = p,
         f.at \in Held => mutex'[f.n] = p /\ \A i \in 2..Len(stack[p]) : stack[p][i].n # f.n,
         f.at = "send" => done'[f.n] = "open",
         f.at = "close" => done'[f.n] # "closed",
         f.at = "loop" => done'[f.n] = "closed"
  PROVE  HoldsOf(p)'
<1>1. /\ Len(stack[p]) \in Nat \ {0} /\ Len(stack'[p]) = Len(stack[p]) /\ stack'[p][1] = f
      /\ \A i \in 2..Len(stack[p]) : stack'[p][i] = stack[p][i]
  BY InnermostFacts DEF Replaced
<1>2. \A i \in 1..Len(stack[p]) : i = 1 \/ i \in 2..Len(stack[p])
  BY <1>1
<1>3. \A i \in 2..Len(stack[p]) : /\ stack[p][i].at = "loop" /\ done'[stack[p][i].n] = "closed"
                                  /\ \A j \in 2..Len(stack[p]) : j # i => stack[p][i].n # stack[p][j].n
  BY LowerFacts DEF Lasting
<1>4. ASSUME NEW i \in 1..Len(stack'[p])
      PROVE  /\ stack'[p][i].at \in Held => mutex'[stack'[p][i].n] = p
             /\ stack'[p][i].at = "send" => done'[stack'[p][i].n] = "open"
             /\ stack'[p][i].at = "close" => done'[stack'[p][i].n] # "closed"
             /\ stack'[p][i].at = "loop" => done'[stack'[p][i].n] = "closed"
  BY <1>1, <1>2, <1>3, <1>4
<1>5. ASSUME NEW i \in 1..Len(stack'[p]), NEW j \in 1..Len(stack'[p]),
             stack'[p][i].at \in Held, stack'[p][j].at \in Held, i # j
      PROVE  stack'[p][i].n # stack'[p][j].n
  BY <1>1, <1>2, <1>3, <1>5
<1> QED
  BY <1>4, <1>5 DEF HoldsOf

(* The innermost call has returned, and the others still hold their mutexes. *)
LEMMA HoldsPopped ==
  ASSUME IInv, Lasting, NEW p \in Proc, stack[p] # <<>>, Popped(p),
         \A i \in 2..Len(stack[p]) : mutex'[stack[p][i].n] = p
  PROVE  HoldsOf(p)'
<1>1. /\ Len(stack[p]) \in Nat \ {0} /\ Len(stack'[p]) = Len(stack[p]) - 1
      /\ \A i \in 1..Len(stack'[p]) : stack'[p][i] = stack[p][i + 1]
  BY InnermostFacts DEF Popped
<1>2. \A i \in 1..Len(stack'[p]) : i + 1 \in 2..Len(stack[p])
  BY <1>1
<1>3. \A i \in 2..Len(stack[p]) : /\ stack[p][i].at = "loop" /\ done'[stack[p][i].n] = "closed"
                                  /\ \A j \in 2..Len(stack[p]) : j # i => stack[p][i].n # stack[p][j].n
  BY LowerFacts DEF Lasting
<1>4. ASSUME NEW i \in 1..Len(stack'[p])
      PROVE  /\ mutex'[stack'[p][i].n] = p /\ stack'[p][i].at = "loop"
             /\ done'[stack'[p][i].n] = "closed"
  <2>1. PICK a \in 2..Len(stack[p]) : a = i + 1
    BY <1>2
  <2>2. stack'[p][i] = stack[p][a]
    BY <1>1, <2>1
  <2> QED
    BY <1>3, <2>2
<1>5. ASSUME NEW i \in 1..Len(stack'[p]), NEW j \in 1..Len(stack'[p]), i # j
      PROVE  stack'[p][i].n # stack'[p][j].n
  <2>1. PICK a \in 2..Len(stack[p]) : a = i + 1
    BY <1>2
  <2>2. PICK b \in 2..Len(stack[p]) : b = j + 1
    BY <1>2
  <2>3. a # b /\ stack'[p][i] = stack[p][a] /\ stack'[p][j] = stack[p][b]
    BY <1>1, <1>5, <2>1, <2>2, SMTT(30)
  <2> QED
    BY <1>3, <2>3
<1> QED
  BY <1>4, <1>5 DEF HoldsOf

(* The innermost call has called cancel on a child. *)
LEMMA HoldsPushed ==
  ASSUME IInv, NEW p \in Proc, stack[p] # <<>>, NEW f \in Frames, NEW g \in Frames, Pushed(p, f, g),
         g.n = Top(p).n, g.at = Top(p).at, f.at \notin Held, UNCHANGED <<mutex, done>>
  PROVE  HoldsOf(p)'
<1>1. /\ Top(p) = stack[p][1] /\ Len(stack[p]) \in Nat \ {0} /\ Len(stack'[p]) = Len(stack[p]) + 1
      /\ stack'[p][1] = f /\ stack'[p][2] = g
      /\ \A i \in 3..Len(stack[p]) + 1 : stack'[p][i] = stack[p][i - 1]
  BY InnermostFacts DEF Pushed
<1>2. HoldsOf(p)
  BY DEF IInv, LockInv
<1>3. ASSUME NEW i \in 2..Len(stack'[p])
      PROVE  /\ i - 1 \in 1..Len(stack[p])
             /\ stack'[p][i].n = stack[p][i - 1].n /\ stack'[p][i].at = stack[p][i - 1].at
  <2>1. i - 1 \in 1..Len(stack[p]) /\ (i = 2 \/ i \in 3..Len(stack[p]) + 1)
    BY <1>1
  <2>2. CASE i = 2
    <3>1. i - 1 = 1
      BY <2>2
    <3> QED
      BY <2>1, <2>2, <3>1, <1>1
  <2> QED
    BY <2>1, <2>2, <1>1
<1>4. \A i \in 1..Len(stack'[p]) : i = 1 \/ i \in 2..Len(stack'[p])
  BY <1>1
<1>5. f.at # "send" /\ f.at # "close" /\ f.at # "loop"
  BY DEF Held
<1>6. ASSUME NEW i \in 1..Len(stack'[p])
      PROVE  /\ stack'[p][i].at \in Held => mutex'[stack'[p][i].n] = p
             /\ stack'[p][i].at = "send" => done'[stack'[p][i].n] = "open"
             /\ stack'[p][i].at = "close" => done'[stack'[p][i].n] # "closed"
             /\ stack'[p][i].at = "loop" => done'[stack'[p][i].n] = "closed"
  <2>1. CASE i = 1
    BY <2>1, <1>1, <1>5
  <2>2. CASE i \in 2..Len(stack'[p])
    <3>1. PICK a \in 1..Len(stack[p]) : a = i - 1
      BY <2>2, <1>3
    <3>2. stack'[p][i].n = stack[p][a].n /\ stack'[p][i].at = stack[p][a].at
      BY <2>2, <1>3, <3>1
    <3> QED
      BY <1>2, <3>2 DEF HoldsOf
  <2> QED
    BY <2>1, <2>2, <1>4
<1>7. ASSUME NEW i \in 1..Len(stack'[p]), NEW j \in 1..Len(stack'[p]),
             stack'[p][i].at \in Held, stack'[p][j].at \in Held, i # j
      PROVE  stack'[p][i].n # stack'[p][j].n
  <2>1. i \in 2..Len(stack'[p]) /\ j \in 2..Len(stack'[p])
    BY <1>1, <1>4, <1>7
  <2>2. PICK a \in 1..Len(stack[p]) : a = i - 1
    BY <2>1, <1>3
  <2>3. PICK b \in 1..Len(stack[p]) : b = j - 1
    BY <2>1, <1>3
  <2>4. a # b
    BY <1>7, <2>2, <2>3
  <2>5. /\ stack'[p][i].n = stack[p][a].n /\ stack'[p][i].at = stack[p][a].at
        /\ stack'[p][j].n = stack[p][b].n /\ stack'[p][j].at = stack[p][b].at
    BY <2>1, <2>2, <2>3, <1>3
  <2> QED
    BY <2>4, <2>5, <1>2, <1>7 DEF HoldsOf
<1> QED
  BY <1>6, <1>7 DEF HoldsOf

(* Somebody else's mutex. *)
LEMMA HolderKept ==
  ASSUME IInv, NEW k \in Ctx, mutex'[k] = mutex[k], stack'[mutex[k]] = stack[mutex[k]], HasHolder(k)
  PROVE  HasHolder(k)'
BY DEF HasHolder

(* The innermost call of p has gone on: it keeps its mutex, or has had none, or gets one. *)
LEMMA HolderReplaced ==
  ASSUME IInv, NEW p \in Proc, stack[p] # <<>>, NEW f \in Frames, Replaced(p, f), f.n = Top(p).n,
         NEW k \in Ctx, mutex'[k] = p,
         \/ k = f.n /\ f.at \in Held
         \/ mutex[k] = p /\ HasHolder(k) /\ (k # f.n \/ Top(p).at \notin Held)
  PROVE  HasHolder(k)'
<1>1. /\ Top(p) = stack[p][1] /\ Len(stack[p]) \in Nat \ {0} /\ Len(stack'[p]) = Len(stack[p])
      /\ stack'[p][1] = f /\ \A i \in 2..Len(stack[p]) : stack'[p][i] = stack[p][i]
      /\ 1 \in 1..Len(stack'[p])
  BY InnermostFacts DEF Replaced
<1>2. CASE k = f.n /\ f.at \in Held
  BY <1>1, <1>2 DEF HasHolder
<1>3. CASE mutex[k] = p /\ HasHolder(k) /\ (k # f.n \/ Top(p).at \notin Held)
  <2>1. PICK i \in 1..Len(stack[p]) : stack[p][i].n = k /\ stack[p][i].at \in Held
    BY <1>3 DEF HasHolder
  <2>2. i \in 2..Len(stack[p])
    BY <1>1, <1>3, <2>1
  <2> QED
    BY <1>1, <2>1, <2>2 DEF HasHolder
<1> QED
  BY <1>2, <1>3

(* The innermost call of p has returned. *)
LEMMA HolderPopped ==
  ASSUME IInv, NEW p \in Proc, stack[p] # <<>>, Popped(p),
         NEW k \in Ctx, mutex'[k] = p, mutex[k] = p, HasHolder(k), k # Top(p).n \/ Top(p).at \notin Held
  PROVE  HasHolder(k)'
<1>1. /\ Top(p) = stack[p][1] /\ Len(stack[p]) \in Nat \ {0} /\ Len(stack'[p]) = Len(stack[p]) - 1
      /\ \A i \in 1..Len(stack'[p]) : stack'[p][i] = stack[p][i + 1]
  BY InnermostFacts DEF Popped
<1>2. PICK i \in 1..Len(stack[p]) : stack[p][i].n = k /\ stack[p][i].at \in Held
  BY DEF HasHolder
<1>3. i \in 2..Len(stack[p])
  BY <1>1, <1>2
<1>4. PICK a \in 1..Len(stack'[p]) : a + 1 = i
  <2>1. i - 1 \in 1..Len(stack'[p]) /\ (i - 1) + 1 = i
    BY <1>1, <1>3
  <2> QED
    BY <2>1
<1>5. stack'[p][a] = stack[p][i]
  BY <1>1, <1>4
<1> QED
  BY <1>2, <1>5 DEF HasHolder

(* The innermost call of p has called cancel on a child. *)
LEMMA HolderPushed ==
  ASSUME IInv, NEW p \in Proc, stack[p] # <<>>, NEW f \in Frames, NEW g \in Frames, Pushed(p, f, g),
         g.n = Top(p).n, g.at = Top(p).at, NEW k \in Ctx, mutex'[k] = p, mutex[k] = p, HasHolder(k)
  PROVE  HasHolder(k)'
<1>1. /\ Top(p) = stack[p][1] /\ Len(stack[p]) \in Nat \ {0} /\ Len(stack'[p]) = Len(stack[p]) + 1
      /\ stack'[p][2] = g
      /\ \A i \in 3..Len(stack[p]) + 1 : stack'[p][i] = stack[p][i - 1]
  BY InnermostFacts DEF Pushed
<1>2. PICK i \in 1..Len(stack[p]) : stack[p][i].n = k /\ stack[p][i].at \in Held
  BY DEF HasHolder
<1>3. PICK a \in 1..Len(stack'[p]) : a = i + 1
  BY <1>1
<1>4. CASE i = 1
  BY <1>1, <1>2, <1>3, <1>4 DEF HasHolder
<1>5. CASE i # 1
  <2>1. a \in 3..Len(stack[p]) + 1 /\ a - 1 = i
    BY <1>1, <1>3, <1>5
  <2>2. stack'[p][a] = stack[p][i]
    BY <1>1, <2>1
  <2> QED
    BY <1>2, <2>2 DEF HasHolder
<1> QED
  BY <1>4, <1>5

(* Everybody but p keeps what it holds, and the mutexes that p does not hold their holders. *)
LEMMA LocksOfOthers ==
  ASSUME IInv, Lasting, NEW p \in Proc, \A q \in Proc \ {p} : stack'[q] = stack[q],
         \A c \in Ctx : mutex[c] \notin {p, Free} =>
           /\ mutex'[c] = mutex[c]
           /\ done[c] = "open" => done'[c] = "open"
           /\ done[c] # "closed" => done'[c] # "closed"
  PROVE  /\ \A q \in Proc \ {p} : HoldsOf(q)'
         /\ \A k \in Ctx : mutex[k] \notin {p, Free} => HasHolder(k)'
<1>1. ASSUME NEW q \in Proc \ {p} PROVE HoldsOf(q)'
  <2>1. \A c \in Ctx : mutex[c] = q => mutex[c] \notin {p, Free}
    BY <1>1, ProcFacts
  <2> QED
    BY <1>1, <2>1, HoldsKept DEF Lasting
<1>2. ASSUME NEW k \in Ctx, mutex[k] \notin {p, Free} PROVE HasHolder(k)'
  <2>1. mutex[k] \in Proc \ {p} /\ HasHolder(k)
    BY <1>2 DEF IInv, Types, LockInv, MutexOf
  <2> QED
    BY <1>2, <2>1, HolderKept
<1> QED
  BY <1>1, <1>2

(* The steps of a cancel keep what is known of the mutexes. *)
LEMMA CancelLocks ==
  ASSUME IInv, tree' = tree, NEW p \in Proc, cancel(p)
  PROVE  LockInv'
<1>0. stack[p] # <<>>
  BY DEF cancel, CancelCause, CancelAgain, CancelStarts, CancelSends, CancelCloses, CancelChild,
         CancelEnds, RemoveLooks, RemoveReads, RemoveDeletes, Frm
<1>1. Lasting
  BY CancelLasting
<1>2. Types /\ Top(p) \in Frames /\ Top(p).n \in Ctx /\ p # Free /\ (Top(p).at \in Held => mutex[Top(p).n] = p)
  BY <1>0, InnermostFacts, ProcFacts DEF IInv
<1>c. PICK c \in Ctx : c = Top(p).n
  BY <1>2
<1>m. \A k \in Ctx : MutexOf(k) /\ mutex[k] \in Proc \cup {Free}
  BY <1>2 DEF IInv, LockInv, Types
<1>l. \A i \in 2..Len(stack[p]) : /\ stack[p][i].n \in Ctx /\ mutex[stack[p][i].n] = p
                                  /\ Top(p).at \in Held => stack[p][i].n # c
                                  /\ mutex[c] = Free => stack[p][i].n # c
  BY <1>0, <1>c, LowerFacts
<1>3. ASSUME NEW l \in FrameLabels, TopGoto(p, l), l \notin Held, Top(p).at \notin Held,
             UNCHANGED <<mutex, err, done>>
      PROVE  LockInv'
  <2>1. PICK f \in Frames : Replaced(p, f) /\ f.at = l /\ f.n = Top(p).n
    BY <1>0, <1>2, <1>3, TopGotoFacts
  <2>2. HoldsOf(p)'
    BY <1>0, <1>1, <1>3, <1>l, <2>1, HoldsReplaced DEF Held
  <2>3. \A k \in Ctx : mutex[k] = p => HasHolder(k)'
    BY <1>0, <1>2, <1>3, <1>m, <2>1, HolderReplaced DEF MutexOf
  <2>4. /\ \A q \in Proc \ {p} : HoldsOf(q)'
        /\ \A k \in Ctx : mutex[k] \notin {p, Free} => HasHolder(k)'
    BY <1>1, <1>3, <2>1, LocksOfOthers DEF Replaced
  <2> QED
    BY <1>3, <1>m, <2>2, <2>3, <2>4 DEF LockInv, MutexOf, Canceled
<1>4. ASSUME Pop(p), Top(p).at \notin Held, UNCHANGED <<mutex, err, done>>
      PROVE  LockInv'
  <2>1. Popped(p)
    BY <1>0, <1>2, <1>4, PopFacts
  <2>2. HoldsOf(p)'
    BY <1>0, <1>1, <1>4, <1>l, <2>1, HoldsPopped
  <2>3. \A k \in Ctx : mutex[k] = p => HasHolder(k)'
    BY <1>0, <1>2, <1>4, <1>m, <2>1, HolderPopped DEF MutexOf
  <2>4. /\ \A q \in Proc \ {p} : HoldsOf(q)'
        /\ \A k \in Ctx : mutex[k] \notin {p, Free} => HasHolder(k)'
    BY <1>1, <1>4, <2>1, LocksOfOthers DEF Popped
  <2> QED
    BY <1>4, <1>m, <2>2, <2>3, <2>4 DEF LockInv, MutexOf, Canceled
<1>5. {"lock", "send", "close", "remove", "remove_lock", "delete"} \subseteq FrameLabels
      /\ {"cause", "lock", "remove", "remove_lock", "delete"} \cap Held = {}
      /\ {"send", "close", "loop"} = Held
  BY DEF FrameLabels, Held
<1>6. CASE CancelCause(p)
  BY <1>3, <1>5, <1>6 DEF CancelCause, Frm
<1>7. CASE CancelAgain(p)
  BY <1>3, <1>4, <1>5, <1>7 DEF CancelAgain, Frm, ctxVars
<1>8. CASE CancelStarts(p)
  <2>1. PICK f \in Frames : Replaced(p, f) /\ f.at = "send" /\ f.n = Top(p).n
    BY <1>0, <1>2, <1>5, <1>8, TopGotoFacts DEF CancelStarts
  <2>2. /\ mutex[c] = Free /\ err[c] = "none" /\ done' = done /\ Top(p).at = "lock"
        /\ mutex' = [mutex EXCEPT ![c] = p] /\ err' = [err EXCEPT ![c] = Top(p).err]
        /\ Top(p).err # "none" /\ done[c] = "open"
    <3>1. Top(p).err # "none"
      BY <1>2 DEF Frames
    <3> QED
      BY <1>8, <1>c, <1>m, <3>1 DEF CancelStarts, Frm, MutexOf
  <2>3. mutex'[c] = p /\ err'[c] # "none" /\ \A k \in Ctx \ {c} : mutex'[k] = mutex[k] /\ err'[k] = err[k]
    BY <1>2, <2>2 DEF Types
  <2>4. HoldsOf(p)'
    <3>1. \A i \in 2..Len(stack[p]) : stack[p][i].n # c /\ mutex'[stack[p][i].n] = p
      BY <1>l, <2>2, <2>3
    <3> QED
      BY <1>0, <1>1, <1>c, <2>1, <2>2, <2>3, <3>1, HoldsReplaced DEF Held
  <2>5. \A k \in Ctx : mutex'[k] = p => HasHolder(k)'
    <3>1. ASSUME NEW k \in Ctx, mutex'[k] = p PROVE HasHolder(k)'
      <4>1. CASE k = c
        BY <4>1, <1>0, <1>5, <1>c, <2>1, <3>1, HolderReplaced
      <4>2. CASE k # c
        <5>1. mutex[k] = p /\ HasHolder(k)
          BY <4>2, <2>3, <1>2, <1>m, <3>1 DEF MutexOf
        <5> QED
          BY <4>2, <5>1, <1>0, <1>c, <2>1, <3>1, HolderReplaced
      <4> QED
        BY <4>1, <4>2
    <3> QED
      BY <3>1
  <2>6. /\ \A q \in Proc \ {p} : HoldsOf(q)'
        /\ \A k \in Ctx : mutex[k] \notin {p, Free} => HasHolder(k)'
    BY <1>1, <2>1, <2>2, <2>3, LocksOfOthers DEF Replaced
  <2>7. ASSUME NEW k \in Ctx PROVE MutexOf(k)'
    <3>1. CASE k = c
      BY <3>1, <1>2, <2>2, <2>3, <2>5 DEF MutexOf, Canceled
    <3>2. CASE k # c
      BY <3>2, <1>m, <2>2, <2>3, <2>5, <2>6 DEF MutexOf, Canceled
    <3> QED
      BY <3>1, <3>2
  <2> QED
    BY <2>4, <2>6, <2>7 DEF LockInv
<1>9. CASE CancelSends(p) \/ CancelCloses(p)
  <2>1. PICK f \in Frames, d \in {"sent", "closed"} :
          /\ Replaced(p, f) /\ f.n = Top(p).n
          /\ done' = [done EXCEPT ![c] = d]
          /\ (f.at = "close" /\ d = "sent") \/ (f.at = "loop" /\ d = "closed")
    <3>1. CASE CancelSends(p)
      <4>1. PICK f \in Frames : Replaced(p, f) /\ f.at = "close" /\ f.n = Top(p).n
        BY <1>0, <1>2, <1>5, <3>1, TopGotoFacts DEF CancelSends
      <4>2. done' = [done EXCEPT ![c] = "sent"]
        BY <1>c, <3>1 DEF CancelSends
      <4> QED
        BY <4>1, <4>2
    <3>2. CASE CancelCloses(p)
      <4>1. PICK f \in Frames : Replaced(p, f) /\ f.at = "loop" /\ f.n = Top(p).n
        BY <3>2, ClosesFacts
      <4>2. done' = [done EXCEPT ![c] = "closed"]
        BY <1>c, <3>2 DEF CancelCloses
      <4> QED
        BY <4>1, <4>2
    <3> QED
      BY <1>9, <3>1, <3>2
  <2>2. Top(p).at \in Held /\ mutex[c] = p /\ UNCHANGED <<mutex, err>>
    BY <1>2, <1>5, <1>9, <1>c DEF CancelSends, CancelCloses, Frm
  <2>3. done'[c] = d /\ \A k \in Ctx \ {c} : done'[k] = done[k]
    BY <1>2, <2>1 DEF Types
  <2>4. HoldsOf(p)'
    <3>1. \A i \in 2..Len(stack[p]) : stack[p][i].n # c /\ mutex'[stack[p][i].n] = p
      BY <1>l, <2>2
    <3> QED
      BY <1>0, <1>1, <1>c, <2>1, <2>2, <2>3, <3>1, HoldsReplaced
  <2>5. \A k \in Ctx : mutex[k] = p => HasHolder(k)'
    BY <1>0, <1>2, <1>5, <1>c, <1>m, <2>1, <2>2, HolderReplaced DEF MutexOf
  <2>6. /\ \A q \in Proc \ {p} : HoldsOf(q)'
        /\ \A k \in Ctx : mutex[k] \notin {p, Free} => HasHolder(k)'
    BY <1>1, <2>1, <2>2, <2>3, LocksOfOthers DEF Replaced
  <2>7. ASSUME NEW k \in Ctx PROVE MutexOf(k)'
    <3>1. CASE k = c
      BY <3>1, <1>2, <1>m, <2>2, <2>3, <2>5 DEF MutexOf, Canceled
    <3>2. CASE k # c
      BY <3>2, <1>m, <2>2, <2>3, <2>5, <2>6 DEF MutexOf, Canceled
    <3> QED
      BY <3>1, <3>2
  <2> QED
    BY <2>4, <2>6, <2>7 DEF LockInv
<1>10. CASE CancelChild(p)
  <2>1. PICK f \in Frames, g \in Frames :
           /\ Pushed(p, f, g) /\ f.at \in {"cause", "lock"} /\ g.n = Top(p).n /\ g.at = "loop"
    BY <1>10, ChildFacts
  <2>2. Top(p).at = "loop" /\ UNCHANGED <<mutex, err, done>>
    BY <1>10 DEF CancelChild, Frm, ctxVars
  <2>3. HoldsOf(p)'
    BY <1>0, <1>5, <2>1, <2>2, HoldsPushed
  <2>4. \A k \in Ctx : mutex[k] = p => HasHolder(k)'
    BY <1>0, <1>2, <1>m, <2>1, <2>2, HolderPushed DEF MutexOf
  <2>5. /\ \A q \in Proc \ {p} : HoldsOf(q)'
        /\ \A k \in Ctx : mutex[k] \notin {p, Free} => HasHolder(k)'
    BY <1>1, <2>1, <2>2, LocksOfOthers DEF Pushed
  <2> QED
    BY <1>m, <2>2, <2>3, <2>4, <2>5 DEF LockInv, MutexOf, Canceled
<1>11. CASE CancelEnds(p)
  <2>1. /\ Top(p).at = "loop" /\ UNCHANGED <<err, done>> /\ mutex' = [mutex EXCEPT ![c] = Free]
        /\ mutex[c] = p
    BY <1>2, <1>5, <1>11, <1>c DEF CancelEnds, Frm
  <2>2. done[c] = "closed"
    <3>1. HoldsOf(p) /\ Top(p) = stack[p][1] /\ 1 \in 1..Len(stack[p])
      BY <1>0, InnermostFacts DEF IInv, LockInv
    <3> QED
      BY <1>c, <2>1, <3>1 DEF HoldsOf
  <2>3. mutex'[c] = Free /\ \A k \in Ctx \ {c} : mutex'[k] = mutex[k]
    BY <1>2, <2>1 DEF Types
  <2>4. \A i \in 2..Len(stack[p]) : mutex'[stack[p][i].n] = p
    BY <1>l, <1>5, <2>1, <2>3
  <2>5. /\ HoldsOf(p)' /\ \A q \in Proc \ {p} : stack'[q] = stack[q]
        /\ \A k \in Ctx : mutex'[k] = p => HasHolder(k)'
    <3>0. \A k \in Ctx : mutex'[k] = p => k # c /\ mutex[k] = p /\ HasHolder(k)
      BY <1>2, <1>m, <2>3 DEF MutexOf
    <3>1. CASE Pop(p)
      <4>1. Popped(p)
        BY <1>0, <1>2, <3>1, PopFacts
      <4> QED
        BY <4>1, <3>0, <1>0, <1>1, <1>c, <2>4, HoldsPopped, HolderPopped DEF Popped
    <3>2. CASE TopGoto(p, "remove")
      <4>1. PICK f \in Frames : Replaced(p, f) /\ f.at = "remove" /\ f.n = Top(p).n
        BY <1>0, <1>2, <1>5, <3>2, TopGotoFacts
      <4>2. HoldsOf(p)'
        BY <4>1, <1>0, <1>1, <1>5, <2>4, HoldsReplaced
      <4>3. \A k \in Ctx : mutex'[k] = p => HasHolder(k)'
        BY <4>1, <3>0, <1>0, <1>c, HolderReplaced
      <4> QED
        BY <4>1, <4>2, <4>3 DEF Replaced
    <3> QED
      BY <1>11, <3>1, <3>2 DEF CancelEnds
  <2>6. /\ \A q \in Proc \ {p} : HoldsOf(q)'
        /\ \A k \in Ctx : mutex[k] \notin {p, Free} => HasHolder(k)'
    BY <1>1, <2>1, <2>3, <2>5, LocksOfOthers
  <2>7. ASSUME NEW k \in Ctx PROVE MutexOf(k)'
    <3>1. CASE k = c
      BY <3>1, <1>2, <1>m, <2>1, <2>2, <2>3 DEF MutexOf, Canceled
    <3>2. CASE k # c
      BY <3>2, <1>m, <2>1, <2>3, <2>5, <2>6 DEF MutexOf, Canceled
    <3> QED
      BY <3>1, <3>2
  <2> QED
    BY <2>5, <2>6, <2>7 DEF LockInv
<1>12. CASE RemoveLooks(p)
  BY <1>3, <1>4, <1>5, <1>12 DEF RemoveLooks, Frm, ctxVars
<1>13. CASE RemoveReads(p)
  BY <1>3, <1>5, <1>13 DEF RemoveReads, Frm, ctxVars
<1>14. CASE RemoveDeletes(p)
  BY <1>4, <1>5, <1>14 DEF RemoveDeletes, Frm
<1> QED
  BY <1>6, <1>7, <1>8, <1>9, <1>10, <1>11, <1>12, <1>13, <1>14 DEF cancel

(* The own steps keep what is known of the mutexes. *)
LEMMA OwnLocks ==
  ASSUME IInv, tree' = tree, NEW c \in Ctx, OwnStep(c)
  PROVE  LockInv'
<1>1. Lasting
  BY OwnLasting
<1>2. Types /\ \A k \in Ctx : MutexOf(k) /\ mutex[k] \in Proc \cup {Free}
  BY DEF IInv, LockInv, Types
<1>3. CASE OwnCall(c)
  <2>1. PICK r \in Roles, f \in Frames, l \in {"made", "returned"} : Starts(<<r, c>>, f, l)
    BY <1>3, OwnCallStarts
  <2>2. PICK p \in Proc : p = <<r, c>>
    BY ProcFacts
  <2>3. /\ stack[p] = <<>> /\ \A q \in Proc \ {p} : stack'[q] = stack[q]
        /\ Len(stack'[p]) = 1 /\ stack'[p][1] = f /\ f.at \in {"cause", "lock"}
        /\ UNCHANGED <<mutex, err, done>>
    BY <2>1, <2>2 DEF Starts, Called
  <2>4. /\ \A q \in Proc \ {p} : HoldsOf(q)'
        /\ \A k \in Ctx : mutex[k] \notin {p, Free} => HasHolder(k)'
    BY <1>1, <2>3, LocksOfOthers
  <2>5. HoldsOf(p)'
    BY <2>3 DEF HoldsOf, Held
  <2>6. \A k \in Ctx : mutex[k] # p
    <3>1. Len(stack[p]) = 0 /\ p # Free
      BY <1>2, <2>3, EmptyStack, ProcFacts
    <3> QED
      BY <1>2, <3>1 DEF MutexOf, HasHolder
  <2> QED
    BY <1>2, <2>3, <2>4, <2>5, <2>6 DEF LockInv, MutexOf, Canceled
<1>4. CASE OwnMove(c)
  <2>1. stack' = stack /\ UNCHANGED <<mutex, err>>
    BY <1>4, MoveFacts
  <2>2. \A k \in Ctx : /\ done[k] = "open" => done'[k] = "open"
                       /\ done[k] # "closed" => done'[k] # "closed"
    <3>1. CASE UNCHANGED done
      BY <3>1
    <3>2. CASE MakeSelects(c)
      BY <3>2, <1>2 DEF MakeSelects, Types
    <3> QED
      BY <1>4, <3>1, <3>2 DEF OwnMove, MakeBegins, MakeLooksUp, MakeFindsParent, MakeChecks, MakeEnrolls,
         MakeReturns, WatchWakes, ctxVars
  <2>3. \A q \in Proc : HoldsOf(q)'
    BY <1>1, <2>1, <2>2, HoldsKept DEF Lasting
  <2>4. \A k \in Ctx : mutex[k] # Free => HasHolder(k)'
    BY <1>2, <2>1, HolderKept DEF MutexOf
  <2>5. \A k \in Ctx : Canceled(k)' => Canceled(k)
    BY <2>1 DEF Canceled
  <2> QED
    BY <1>1, <1>2, <2>1, <2>2, <2>3, <2>4, <2>5 DEF LockInv, MutexOf, Lasting
<1> QED
  BY <1>3, <1>4, OwnCases

-----------------------------------------------------------------------------
(* Children *)

(* The steps of a cancel write children only into the maps of children. *)
LEMMA CancelChildren ==
  ASSUME IInv, tree' = tree, NEW p \in Proc, cancel(p)
  PROVE  ChildInv'
<1>0. stack[p] # <<>>
  BY DEF cancel, CancelCause, CancelAgain, CancelStarts, CancelSends, CancelCloses, CancelChild,
         CancelEnds, RemoveLooks, RemoveReads, RemoveDeletes, Frm
<1>1. Types /\ ChildInv /\ \A k : Parent(k)' = Parent(k)
  BY DEF IInv, Parent
<1>2. CASE UNCHANGED <<children, snap>>
  BY <1>1, <1>2 DEF ChildInv
<1>3. CASE CancelEnds(p)
  <2>1. Top(p).n \in Ctx /\ snap' = snap
    BY <1>0, <1>3, InnermostFacts DEF CancelEnds
  <2>2. \A c \in Ctx : children'[c] \subseteq children[c]
    BY <1>1, <1>3, <2>1 DEF CancelEnds, Types
  <2> QED
    BY <1>1, <2>1, <2>2 DEF ChildInv
<1>4. CASE RemoveReads(p)
  <2>1. Top(p).n = p[2] /\ Parent(p[2]) \in Ctx
    BY <1>0, <1>4, InnermostFacts DEF RemoveReads, Frm, Removing
  <2>2. children' = children /\ snap' = [snap EXCEPT ![p] = children[Parent(p[2])]]
    BY <1>4, <2>1 DEF RemoveReads, ctxVars
  <2> QED
    BY <1>1, <2>1, <2>2 DEF ChildInv, Types
<1>5. CASE RemoveDeletes(p)
  <2>1. Top(p).n = p[2] /\ Parent(p[2]) \in Ctx
    BY <1>0, <1>5, InnermostFacts DEF RemoveDeletes, Frm, Removing
  <2>2. snap' = [snap EXCEPT ![p] = {}]
    BY <1>5 DEF RemoveDeletes
  <2>3. \A c \in Ctx : children'[c] \subseteq children[c] \/ (c = Parent(p[2]) /\ children'[c] \subseteq snap[p])
    BY <1>1, <1>5, <2>1 DEF RemoveDeletes, Types
  <2> QED
    BY <1>1, <2>1, <2>2, <2>3 DEF ChildInv, Types
<1> QED
  BY <1>2, <1>3, <1>4, <1>5 DEF cancel, CancelCause, CancelAgain, CancelStarts, CancelSends, CancelCloses,
     CancelChild, RemoveLooks, ctxVars

(* And so do the own steps. *)
LEMMA OwnChildren ==
  ASSUME IInv, tree' = tree, NEW c \in Ctx, OwnStep(c)
  PROVE  ChildInv'
<1>1. Types /\ ChildInv /\ (\A k : Parent(k)' = Parent(k)) /\ <<"make", c>> \in Proc /\ <<"make", c>>[2] = c
  BY ProcFacts DEF IInv, Parent, Roles
<1>2. CASE UNCHANGED <<children, snap>>
  BY <1>1, <1>2 DEF ChildInv
<1>3. CASE MakeChecks(c) /\ err[Parent(c)] = "none"
  <2>1. Parent(c) \in Ctx
    BY <1>1, <1>3, TreeFacts DEF MakeChecks, At, IInv, PlaceInv, PlacesOf, UnderWay
  <2>2. children' = children /\ snap' = [snap EXCEPT ![<<"make", c>>] = children[Parent(c)]]
    BY <1>3 DEF MakeChecks, ctxVars
  <2> QED
    BY <1>1, <2>1, <2>2 DEF ChildInv, Types
<1>4. CASE MakeEnrolls(c)
  <2>1. Parent(c) \in Ctx
    BY <1>1, <1>4, TreeFacts DEF MakeEnrolls, At, IInv, PlaceInv, PlacesOf, UnderWay
  <2>2. snap' = [snap EXCEPT ![<<"make", c>>] = {}]
    BY <1>4 DEF MakeEnrolls
  <2>3. \A k \in Ctx : \/ children'[k] = children[k]
                       \/ /\ k = Parent(c)
                          /\ children'[k] \subseteq children[k] \cup snap[<<"make", c>>] \cup {c}
    BY <1>1, <1>4, <2>1 DEF MakeEnrolls, Types
  <2>4. ASSUME NEW k \in Ctx, NEW j \in children'[k] PROVE Parent(j) = k
    <3>1. CASE children'[k] = children[k]
      BY <1>1, <2>4, <3>1 DEF ChildInv
    <3>2. CASE k = Parent(c) /\ j \in children[k] \cup snap[<<"make", c>>] \cup {c}
      BY <1>1, <2>4, <3>2 DEF ChildInv
    <3> QED
      BY <2>3, <2>4, <3>1, <3>2
  <2>5. ASSUME NEW p \in Proc, NEW j \in snap'[p] PROVE Parent(j) = Parent(p[2])
    BY <1>1, <2>2, <2>5 DEF ChildInv, Types
  <2> QED
    BY <1>1, <2>4, <2>5 DEF ChildInv
<1> QED
  BY <1>2, <1>3, <1>4 DEF OwnStep, make, threads, MakeBegins, MakeSelects, MakeInherits, MakeLooksUp,
     MakeFindsParent, MakeChecks, MakeExpired, MakeReturns, CancelFn, CancelCauseFunc, TimerFires, WatchWakes,
     WatchCancels, ctxVars

-----------------------------------------------------------------------------
(* The invariant and the types *)

(* IInv holds at the start. *)
LEMMA InitIInv == Init => IInv
<1> SUFFICES ASSUME Init PROVE IInv
  OBVIOUS
<1>1. Types
  BY DEF Init, Types, Errors, Places
<1>2. /\ \A p \in Proc : pc[p] = "idle" /\ stack[p] = <<>> /\ snap[p] = {}
      /\ \A c \in Ctx : mutex[c] = Free /\ err[c] = "none" /\ done[c] = "open" /\ children[c] = {}
  BY DEF Init
<1>3. ASSUME NEW c \in Ctx PROVE PlacesOf(c)
  <2>1. \A r \in Roles : pc[<<r, c>>] = "idle"
    BY <1>2, ProcFacts
  <2>2. /\ pc[<<"make", c>>] = "idle" /\ pc[<<"cancel", c>>] = "idle"
        /\ pc[<<"timer", c>>] = "idle" /\ pc[<<"watch", c>>] = "idle"
    BY <2>1 DEF Roles
  <2> QED
    BY <2>2 DEF PlacesOf, UnderWay
<1>4. PlaceInv
  BY <1>3 DEF PlaceInv
<1>5. CallInv
  BY <1>2 DEF CallInv, CallsOf
<1>6. LockInv
  <2>1. \A p \in Proc : Len(stack[p]) = 0
    BY <1>1, <1>2, EmptyStack
  <2> QED
    BY <1>2, <2>1 DEF LockInv, HoldsOf, MutexOf, Canceled
<1>7. ChildInv
  BY <1>2 DEF ChildInv
<1> QED
  BY <1>1, <1>4, <1>5, <1>6, <1>7 DEF IInv

(* Every step keeps it. *)
LEMMA NextIInv == IInv /\ [Next]_vars => IInv'
<1> SUFFICES ASSUME IInv, [Next]_vars PROVE IInv'
  OBVIOUS
<1>1. CASE Next
  <2>1. tree' = tree /\ ((\E p \in Proc : cancel(p)) \/ (\E c \in Ctx : OwnStep(c)))
    BY <1>1, NextCases
  <2>2. ASSUME NEW p \in Proc, cancel(p) PROVE IInv'
    BY <2>1, <2>2, CancelTypes, CancelPlaces, CancelCalls, CancelLocks, CancelChildren DEF IInv
  <2>3. ASSUME NEW c \in Ctx, OwnStep(c) PROVE IInv'
    BY <2>1, <2>3, OwnTypes, OwnPlaces, OwnCalls, OwnLocks, OwnChildren DEF IInv
  <2> QED
    BY <2>1, <2>2, <2>3
<1>2. CASE UNCHANGED vars
  BY <1>2, SMTT(30) DEF vars, IInv, Types, PlaceInv, PlacesOf, CallInv, CallsOf, LockInv, HoldsOf, MutexOf, HasHolder,
     ChildInv, Canceled, Parent, Kind
<1> QED
  BY <1>1, <1>2

(* The invariant of the tree of contexts, for every tree, raced or not. *)
THEOREM Invariance == Spec => []IInv
BY InitIInv, NextIInv, PTL DEF Spec

(* Every field has its type, the calls of cancel of a process go down the tree, *)
(* and a mutex is held by a call that has still to release it.                  *)
THEOREM ContextTypes == Spec => []TypeOK
<1>1. IInv => TypeOK
  <2> SUFFICES ASSUME IInv PROVE TypeOK
    OBVIOUS
  <2>1. ASSUME NEW p \in Proc, NEW i \in 1..Len(stack[p])
        PROVE  /\ stack[p][i].at \in FrameLabels
               /\ i < Len(stack[p]) => Parent(stack[p][i].n) = stack[p][i + 1].n
    <3>1. stack[p] # <<>>
      BY <2>1, EmptyStack DEF IInv
    <3>2. stack[p][i] \in Frames /\ CallsOf(p)
      BY <2>1, <3>1, TopFacts DEF IInv, CallInv
    <3> QED
      BY <2>1, <3>1, <3>2 DEF CallsOf, Frames
  <2> QED
    BY <2>1 DEF IInv, Types, TypeOK, LockInv, MutexOf, HasHolder, Held
<1> QED
  BY <1>1, Invariance, PTL


-----------------------------------------------------------------------------
(* Steps, by what they do to the stack and to the map of children *)

(* A step of a cancel that changes the innermost call of p into f. *)
Turns(p, f) ==
  /\ Replaced(p, f) /\ f.n = Top(p).n /\ f.rm = Top(p).rm
  /\ \/ CancelCause(p) /\ f.at = "lock" /\ f.seen = Top(p).seen
     \/ CancelAgain(p) /\ f.at = "remove"
     \/ CancelStarts(p) /\ f.at = "send" /\ f.seen = Top(p).seen
     \/ CancelSends(p) /\ f.at = "close" /\ f.seen = Top(p).seen
     \/ CancelCloses(p) /\ f.at = "loop" /\ f.seen = Top(p).seen /\ f.todo = children[Top(p).n]
     \/ CancelEnds(p) /\ f.at = "remove" /\ Top(p).rm # "no"
     \/ RemoveLooks(p) /\ f.at = "remove_lock"
     \/ RemoveReads(p) /\ f.at = "delete"

(* A step of a cancel that returns. *)
Returns(p) ==
  /\ Popped(p)
  /\ \/ CancelAgain(p) /\ ~(Top(p).rm = "self" /\ Kind(Top(p).n) = "timer")
     \/ CancelEnds(p) /\ Top(p).rm = "no"
     \/ RemoveLooks(p) /\ (Parent(Top(p).n) = Bg \/ done[Parent(Top(p).n)] = "closed")
     \/ RemoveDeletes(p)

(* A step of a cancel that goes on to the child k, with the call f; its own is now g. *)
Descends(p, k, f, g) ==
  /\ CancelChild(p) /\ Pushed(p, f, g)
  /\ k \in children[Top(p).n] \ Top(p).seen /\ Parent(k) = Top(p).n
  /\ f.n = k /\ f.rm = "no" /\ f.at \in {"cause", "lock"} /\ f.seen = {}
  /\ g.n = Top(p).n /\ g.rm = Top(p).rm /\ g.at = "loop" /\ g.todo = Top(p).todo
  /\ g.seen = Top(p).seen \cup {k}

(* Every step of a cancel is one of these. *)
LEMMA CancelCases ==
  ASSUME IInv, NEW p \in Proc, cancel(p)
  PROVE  /\ stack[p] # <<>> /\ pc' = pc
         /\ \A q \in Proc \ {p} : stack'[q] = stack[q]
         /\ \/ \E f \in Frames : Turns(p, f)
            \/ Returns(p)
            \/ \E k \in Ctx, f \in Frames, g \in Frames : Descends(p, k, f, g)
<1>1. stack[p] # <<>> /\ pc' = pc
  BY DEF cancel, CancelCause, CancelAgain, CancelStarts, CancelSends, CancelCloses, CancelChild,
         CancelEnds, RemoveLooks, RemoveReads, RemoveDeletes, Frm
<1>2. Types
  BY DEF IInv
<1>3. {"lock", "send", "close", "remove", "remove_lock", "delete"} \subseteq FrameLabels
  BY DEF FrameLabels
<1>4. \A l \in FrameLabels : TopGoto(p, l) =>
        \E f \in Frames : /\ Replaced(p, f) /\ f.n = Top(p).n /\ f.rm = Top(p).rm
                          /\ f.at = l /\ f.seen = Top(p).seen
  BY <1>1, <1>2, TopGotoFacts
<1>5. Pop(p) => Popped(p)
  BY <1>1, <1>2, PopFacts
<1>6. (\E f \in Frames : Turns(p, f)) \/ Returns(p) \/ \E k \in Ctx, f \in Frames, g \in Frames : Descends(p, k, f, g)
  <2>1. CASE CancelCause(p)
    BY <1>3, <1>4, <2>1 DEF CancelCause, Turns
  <2>2. CASE CancelAgain(p)
    BY <1>3, <1>4, <1>5, <2>2 DEF CancelAgain, Turns, Returns
  <2>3. CASE CancelStarts(p)
    BY <1>3, <1>4, <2>3 DEF CancelStarts, Turns
  <2>4. CASE CancelSends(p)
    BY <1>3, <1>4, <2>4 DEF CancelSends, Turns
  <2>5. CASE CancelCloses(p)
    BY <2>5, ClosesFacts DEF Turns
  <2>6. CASE CancelChild(p)
    BY <2>6, ChildFacts DEF Descends
  <2>7. CASE CancelEnds(p)
    BY <1>3, <1>4, <1>5, <2>7 DEF CancelEnds, Turns, Returns
  <2>8. CASE RemoveLooks(p)
    BY <1>3, <1>4, <1>5, <2>8 DEF RemoveLooks, Turns, Returns
  <2>9. CASE RemoveReads(p)
    BY <1>3, <1>4, <2>9 DEF RemoveReads, Turns
  <2>10. CASE RemoveDeletes(p)
    BY <1>5, <2>10 DEF RemoveDeletes, Returns
  <2> QED
    BY <2>1, <2>2, <2>3, <2>4, <2>5, <2>6, <2>7, <2>8, <2>9, <2>10 DEF cancel
<1> QED
  BY <1>1, <1>6 DEF Turns, Returns, Descends, Replaced, Popped, Pushed


-----------------------------------------------------------------------------
(* Siblings *)

(* At most one context is put to work by a step, and only while its siblings rest. *)
SetsToWork(c) ==
  \A k \in Ctx : Working(k)' => Working(k) \/ (k = c /\ (tree.serial => ~SiblingBusy(c)))

(* A process that works, or does not belong to a with_ call or a cancel function, may go on. *)
LEMMA WorkKept ==
  ASSUME NEW p \in Proc, \A q \in Proc \ {p} : stack'[q] = stack[q] /\ (pc'[q] = pc[q] \/ q[1] \in {"timer", "watch"}),
         \/ ~At(p, "idle") /\ ~At(p, "returned")
         \/ p[1] \in {"timer", "watch"}
         \/ tree.serial => ~SiblingBusy(p[2])
  PROVE  SetsToWork(p[2])
<1> SUFFICES ASSUME NEW k \in Ctx, Working(k)' PROVE Working(k) \/ (k = p[2] /\ (tree.serial => ~SiblingBusy(p[2])))
  BY DEF SetsToWork
<1>1. PICK r \in {"make", "cancel"} : ~At(<<r, k>>, "idle")' /\ ~At(<<r, k>>, "returned")'
  BY DEF Working
<1>2. <<r, k>> \in Proc /\ <<r, k>>[1] = r /\ <<r, k>>[2] = k
  BY <1>1, ProcFacts DEF Roles
<1>3. CASE <<r, k>> # p
  BY <1>1, <1>2, <1>3 DEF At, Working
<1>4. CASE <<r, k>> = p
  BY <1>1, <1>2, <1>4 DEF Working
<1> QED
  BY <1>3, <1>4

(* Every step sets at most one context to work. *)
LEMMA WorkStep ==
  ASSUME IInv, tree' = tree, (\E p \in Proc : cancel(p)) \/ (\E c \in Ctx : OwnStep(c))
  PROVE  \E c \in Ctx : SetsToWork(c)
<1>1. ASSUME NEW p \in Proc, cancel(p) PROVE \E c \in Ctx : SetsToWork(c)
  <2>1. stack[p] # <<>> /\ pc' = pc /\ \A q \in Proc \ {p} : stack'[q] = stack[q]
    BY <1>1, CancelCases
  <2>2. ~At(p, "idle") /\ ~At(p, "returned")
    BY <2>1 DEF At
  <2>3. SetsToWork(p[2])
    BY <2>1, <2>2, WorkKept
  <2> QED
    BY <2>3, ProcFacts
<1>2. ASSUME NEW c \in Ctx, OwnCall(c) PROVE SetsToWork(c)
  <2>1. PICK r \in Roles, f \in Frames, l \in {"made", "returned"} : Starts(<<r, c>>, f, l)
    BY <1>2, OwnCallStarts
  <2>2. PICK p \in Proc : p = <<r, c>> /\ p[2] = c /\ p[1] = r
    BY ProcFacts, ZenonT(30)
  <2>3. /\ \A q \in Proc \ {p} : stack'[q] = stack[q] /\ pc'[q] = pc[q]
        /\ \/ p[1] = "make" /\ pc[p] \in {"inherit", "check", "made"}
           \/ p[1] = "cancel" /\ (tree.serial => ~SiblingBusy(p[2]))
           \/ p[1] \in {"timer", "watch"}
    BY <2>1, <2>2 DEF Starts, Called, IInv, Types
  <2>4. SetsToWork(p[2])
    BY <2>3, WorkKept DEF At
  <2> QED
    BY <2>2, <2>4
<1>3. ASSUME NEW c \in Ctx, OwnMove(c) PROVE SetsToWork(c)
  <2>1. stack' = stack
    BY <1>3, MoveFacts
  <2>0. <<"make", c>> \in Proc /\ <<"make", c>>[1] = "make" /\ <<"make", c>>[2] = c
    BY ProcFacts DEF Roles
  <2>2. PICK p \in Proc : p = <<"make", c>> /\ p[2] = c /\ p[1] = "make"
    BY <2>0
  <2>3. pc \in [Proc -> Places] /\ <<"watch", c>> \in Proc /\ <<"watch", c>>[1] = "watch"
        /\ <<"timer", c>> \in Proc /\ <<"timer", c>>[1] = "timer" /\ <<"watch", c>>[2] = c
    BY ProcFacts DEF IInv, Types, Roles
  <2>4. CASE MakeBegins(c)
    <3>1. \A q \in Proc \ {p} : stack'[q] = stack[q] /\ pc'[q] = pc[q]
      BY <2>1, <2>2, <2>3, <2>4 DEF MakeBegins, Goto
    <3>2. tree.serial => ~SiblingBusy(p[2])
      BY <2>2, <2>4 DEF MakeBegins
    <3> QED
      BY <2>2, <3>1, <3>2, WorkKept
  <2>5. CASE WatchWakes(c)
    <3>1. \A q \in Proc \ {<<"watch", c>>} : stack'[q] = stack[q] /\ pc'[q] = pc[q]
      BY <2>1, <2>3, <2>5 DEF WatchWakes, Goto
    <3>2. SetsToWork(<<"watch", c>>[2])
      BY <2>3, <3>1, WorkKept
    <3> QED
      BY <2>3, <3>2
  <2>6. CASE ~MakeBegins(c) /\ ~WatchWakes(c)
    <3>1. pc[p] \in UnderWay \cup {"made"}
      BY <1>3, <2>2, <2>6 DEF OwnMove, MakeSelects, MakeLooksUp, MakeFindsParent, MakeChecks, MakeEnrolls,
         MakeReturns, At, UnderWay
    <3>2. \A q \in Proc \ {p} : pc'[q] = pc[q] \/ q[1] \in {"timer", "watch"}
      <4>1. CASE MakeLooksUp(c) \/ MakeReturns(c)
        BY <2>2, <2>3, <4>1 DEF MakeLooksUp, MakeReturns
      <4>2. CASE ~MakeLooksUp(c) /\ ~MakeReturns(c)
        BY <1>3, <2>2, <2>3, <2>6, <4>2 DEF OwnMove, MakeSelects, MakeFindsParent, MakeChecks, MakeEnrolls, Goto
      <4> QED
        BY <4>1, <4>2
    <3>3. ~At(p, "idle") /\ ~At(p, "returned")
      BY <3>1 DEF At, UnderWay
    <3> QED
      BY <2>1, <2>2, <3>2, <3>3, WorkKept
  <2> QED
    BY <2>4, <2>5, <2>6
<1> QED
  BY <1>1, <1>2, <1>3, OwnCases

(* Where one thread makes and cancels the children of a context, no two of them are worked on at once. *)
LEMMA SerialStep ==
  ASSUME IInv, SerialInv, tree' = tree, (\E p \in Proc : cancel(p)) \/ (\E c \in Ctx : OwnStep(c))
  PROVE  SerialInv'
<1>1. PICK b \in Ctx : SetsToWork(b)
  BY WorkStep
<1>2. \A k : Parent(k)' = Parent(k)
  BY DEF Parent
<1>3. \A c, k \in Ctx : Working(k) /\ k # c /\ Parent(k) = Parent(c) => SiblingBusy(c)
  BY DEF Working, SiblingBusy
<1>4. ASSUME tree.serial, NEW c \in Ctx, NEW k \in Ctx, c # k, Parent(c) = Parent(k), Working(c)', Working(k)'
      PROVE  FALSE
  <2>1. ~(Working(c) /\ Working(k))
    BY <1>4 DEF SerialInv
  <2>2. Working(c) \/ (c = b /\ ~SiblingBusy(c))
    BY <1>1, <1>4 DEF SetsToWork
  <2>3. Working(k) \/ (k = b /\ ~SiblingBusy(k))
    BY <1>1, <1>4 DEF SetsToWork
  <2> QED
    BY <1>3, <1>4, <2>1, <2>2, <2>3
<1> QED
  BY <1>2, <1>4 DEF SerialInv


-----------------------------------------------------------------------------
(* Writes to the map of children *)

(* Process q enters its context in the map of the parent, or deletes it there. *)
Writes(q) ==
  /\ Pending(q) /\ q[2] \in Ctx /\ Parent(q[2]) \in Ctx
  /\ UNCHANGED <<mutex, err, done, inTime>>
  /\ \E was \in {children[Parent(q[2])], snap[q]} :
       \/ /\ q[1] = "make" /\ pc[q] = "enroll"
          /\ children' = [children EXCEPT ![Parent(q[2])] = was \cup {q[2]}]
       \/ /\ Canceled(q[2])
          /\ children' = [children EXCEPT ![Parent(q[2])] = was \ {q[2]}]

(* The cancel of c is done, and has emptied its map. *)
Empties(c) ==
  /\ err[c] # "none" /\ mutex[c] # Free /\ Canceled(c)'
  /\ children' = [children EXCEPT ![c] = {}]

(* Nothing else changes a map. *)
LEMMA WriteCases ==
  ASSUME IInv, (\E p \in Proc : cancel(p)) \/ (\E c \in Ctx : OwnStep(c))
  PROVE  children' = children \/ (\E q \in Proc : Writes(q)) \/ (\E c \in Ctx : Empties(c))
<1>1. ASSUME NEW p \in Proc, RemoveDeletes(p) PROVE children' = children \/ Writes(p)
  <2>1. stack[p] # <<>> /\ Top(p).at = "delete"
    BY <1>1 DEF RemoveDeletes, Frm
  <2>2. /\ Top(p) = stack[p][1] /\ Top(p).n = p[2] /\ Canceled(p[2]) /\ Parent(p[2]) \in Ctx
        /\ p[2] \in Ctx
    BY <2>1, InnermostFacts DEF Removing
  <2>3. CASE Top(p).rm = "self"
    <3>1. Pending(p)
      BY <2>1, <2>2, <2>3 DEF Pending
    <3>2. PICK was \in {children[Parent(p[2])], snap[p]} : children' = [children EXCEPT ![Parent(p[2])] = was \ {p[2]}]
      BY <1>1, <2>2, <2>3 DEF RemoveDeletes
    <3>3. UNCHANGED <<mutex, err, done, inTime>>
      BY <1>1 DEF RemoveDeletes, histVars
    <3> QED
      BY <2>2, <3>1, <3>2, <3>3 DEF Writes
  <2> QED
    BY <1>1, <2>3 DEF RemoveDeletes
<1>2. ASSUME NEW p \in Proc, CancelEnds(p) PROVE \E c \in Ctx : Empties(c)
  <2>1. stack[p] # <<>> /\ Top(p).at = "loop"
    BY <1>2 DEF CancelEnds, Frm
  <2>2. PICK c \in Ctx : c = Top(p).n /\ mutex[c] = p /\ p # Free
    BY <2>1, InnermostFacts, ProcFacts DEF Held
  <2>3. err[c] # "none"
    BY <2>2 DEF IInv, LockInv, MutexOf
  <2>4. /\ children' = [children EXCEPT ![c] = {}] /\ mutex' = [mutex EXCEPT ![c] = Free] /\ err' = err
    BY <1>2, <2>2 DEF CancelEnds
  <2>5. mutex'[c] = Free
    BY <2>2, <2>4 DEF IInv, Types
  <2> QED
    BY <2>2, <2>3, <2>4, <2>5 DEF Empties, Canceled
<1>3. ASSUME NEW c \in Ctx, MakeEnrolls(c) PROVE \E q \in Proc : Writes(q)
  <2>0. <<"make", c>> \in Proc /\ <<"make", c>>[1] = "make" /\ <<"make", c>>[2] = c
    BY ProcFacts DEF Roles
  <2>1. PICK p \in Proc : p = <<"make", c>> /\ p[2] = c /\ p[1] = "make"
    BY <2>0
  <2>2. pc[p] = "enroll" /\ UNCHANGED <<mutex, err, done, inTime>>
    BY <1>3, <2>1 DEF MakeEnrolls, At, histVars
  <2>3. Parent(c) \in Ctx
    BY <2>1, <2>2, TreeFacts DEF IInv, PlaceInv, PlacesOf, UnderWay
  <2>4. PICK was \in {children[Parent(c)], snap[p]} : children' = [children EXCEPT ![Parent(c)] = was \cup {c}]
    BY <1>3, <2>1 DEF MakeEnrolls
  <2> QED
    BY <2>1, <2>2, <2>3, <2>4 DEF Writes, Pending
<1>4. ASSUME NEW p \in Proc, cancel(p) PROVE RemoveDeletes(p) \/ CancelEnds(p) \/ children' = children
  <2>1. CASE CancelCause(p) \/ CancelStarts(p) \/ CancelSends(p) \/ CancelCloses(p)
    BY <2>1 DEF CancelCause, CancelStarts, CancelSends, CancelCloses
  <2>2. CASE CancelAgain(p) \/ CancelChild(p) \/ RemoveLooks(p) \/ RemoveReads(p)
    BY <2>2 DEF CancelAgain, CancelChild, RemoveLooks, RemoveReads, ctxVars
  <2> QED
    BY <1>4, <2>1, <2>2 DEF cancel
<1>5. ASSUME NEW c \in Ctx, OwnStep(c), ~MakeEnrolls(c) PROVE children' = children
  BY <1>5 DEF OwnStep, make, threads, MakeBegins, MakeSelects, MakeInherits, MakeLooksUp,
     MakeFindsParent, MakeChecks, MakeExpired, MakeReturns, CancelFn, CancelCauseFunc, TimerFires, WatchWakes,
     WatchCancels, ctxVars
<1> QED
  BY <1>1, <1>2, <1>3, <1>4, <1>5

(* A process is about to write what it has read already, or reads it in this very step. *)
LEMMA PendingCases ==
  ASSUME IInv, tree' = tree, (\E p \in Proc : cancel(p)) \/ (\E c \in Ctx : OwnStep(c)),
         NEW q \in Proc, Pending(q)'
  PROVE  \/ Pending(q) /\ snap'[q] = snap[q]
         \/ children' = children /\ snap'[q] = children[Parent(q[2])]
<1>t. Types /\ snap \in [Proc -> SUBSET Ctx] /\ pc \in [Proc -> Places]
  BY DEF IInv, Types
<1>1. ASSUME NEW p \in Proc, cancel(p)
      PROVE  \/ Pending(q) /\ snap'[q] = snap[q]
             \/ children' = children /\ snap'[q] = children[Parent(q[2])]
  <2>1. /\ stack[p] # <<>> /\ pc' = pc /\ \A r \in Proc \ {p} : stack'[r] = stack[r]
        /\ \/ \E f \in Frames : Turns(p, f)
           \/ Returns(p)
           \/ \E k \in Ctx, f \in Frames, g \in Frames : Descends(p, k, f, g)
    BY <1>1, CancelCases
  <2>2. CASE q # p
    <3>1. snap'[q] = snap[q]
      <4>1. CASE RemoveReads(p) \/ RemoveDeletes(p)
        BY <1>t, <2>2, <4>1 DEF RemoveReads, RemoveDeletes
      <4>2. CASE ~RemoveReads(p) /\ ~RemoveDeletes(p)
        <5>1. CASE CancelCause(p) \/ CancelStarts(p) \/ CancelSends(p) \/ CancelCloses(p)
          BY <5>1 DEF CancelCause, CancelStarts, CancelSends, CancelCloses
        <5>2. CASE CancelAgain(p) \/ CancelChild(p) \/ RemoveLooks(p) \/ CancelEnds(p)
          BY <5>2 DEF CancelAgain, CancelChild, RemoveLooks, CancelEnds
        <5> QED
          BY <1>1, <4>2, <5>1, <5>2 DEF cancel
      <4> QED
        BY <4>1, <4>2
    <3> QED
      BY <2>1, <2>2, <3>1 DEF Pending
  <2>3. CASE q = p
    <3>1. pc'[p] # "enroll"
      BY <2>1, InnermostFacts
    <3>2. stack'[p] # <<>> /\ stack'[p][1].at = "delete"
      BY <2>3, <3>1 DEF Pending
    <3>3. ASSUME NEW f \in Frames, Turns(p, f) PROVE RemoveReads(p)
      BY <3>2, <3>3 DEF Turns, Replaced
    <3>4. ASSUME Returns(p) PROVE FALSE
      <4>1. stack' \in [Proc -> Seq(Frames)] /\ Len(stack'[p]) = Len(stack[p]) - 1
            /\ \A i \in 1..Len(stack'[p]) : stack'[p][i] = stack[p][i + 1]
        BY <3>4 DEF Returns, Popped
      <4>0. stack'[p] \in Seq(Frames) /\ stack[p] \in Seq(Frames)
        BY <1>t, <4>1, EmptyStack
      <4>2. Len(stack'[p]) \in Nat \ {0} /\ Len(stack[p]) \in Nat
        BY <3>2, <4>0
      <4>3. PICK m \in Nat, n \in Nat \ {0} : m = Len(stack[p]) /\ n = Len(stack'[p]) /\ n = m - 1
        BY <4>1, <4>2
      <4>4. 1 \in 1..n /\ 2 \in 2..m
        <5>1. \A a \in Nat, b \in Nat \ {0} : b = a - 1 => 1 \in 1..b /\ 2 \in 2..a
          OBVIOUS
        <5>2. n = m - 1
          BY <4>3
        <5> QED
          BY ONLY m \in Nat, n \in Nat \ {0}, <5>1, <5>2
      <4>5. stack'[p][1] = stack[p][2]
        BY <4>1, <4>3, <4>4
      <4>6. stack[p][2].at = "loop"
        BY <2>1, <4>3, <4>4, LowerFacts
      <4> QED
        BY <3>2, <4>5, <4>6
    <3>5. ASSUME NEW k \in Ctx, NEW f \in Frames, NEW g \in Frames, Descends(p, k, f, g) PROVE FALSE
      BY <3>2, <3>5 DEF Descends, Pushed
    <3>6. RemoveReads(p)
      BY <2>1, <3>3, <3>4, <3>5
    <3>7. Top(p).n = p[2]
      BY <2>1, <3>6, InnermostFacts DEF RemoveReads, Frm, Removing
    <3> QED
      BY <1>t, <2>3, <3>6, <3>7 DEF RemoveReads, ctxVars
  <2> QED
    BY <2>2, <2>3
<1>2. ASSUME NEW c \in Ctx, OwnCall(c) PROVE Pending(q) /\ snap'[q] = snap[q]
  <2>1. PICK r \in Roles, f \in Frames, l \in {"made", "returned"} : Starts(<<r, c>>, f, l)
    BY <1>2, OwnCallStarts
  <2>2. PICK p \in Proc : p = <<r, c>> /\ p[2] = c /\ p[1] = r
    BY ProcFacts, ZenonT(30)
  <2>3. /\ snap' = snap /\ pc'[p] = l /\ stack'[p][1] = f /\ f.at \in {"cause", "lock"}
        /\ \A o \in Proc \ {p} : stack'[o] = stack[o] /\ pc'[o] = pc[o]
    BY <1>t, <2>1, <2>2 DEF Starts, Called
  <2> QED
    BY <2>3 DEF Pending
<1>3. ASSUME NEW c \in Ctx, OwnMove(c)
      PROVE  \/ Pending(q) /\ snap'[q] = snap[q]
             \/ children' = children /\ snap'[q] = children[Parent(q[2])]
  <2>1. stack' = stack
    BY <1>3, MoveFacts
  <2>0. <<"make", c>> \in Proc /\ <<"make", c>>[1] = "make" /\ <<"make", c>>[2] = c
    BY ProcFacts DEF Roles
  <2>2. PICK p \in Proc : p = <<"make", c>> /\ p[2] = c /\ p[1] = "make"
    BY <2>0
  <2>3. CASE MakeChecks(c) /\ err[Parent(c)] = "none"
    <3>1. /\ children' = children /\ snap' = [snap EXCEPT ![p] = children[Parent(c)]]
          /\ pc' = [pc EXCEPT ![p] = "enroll"]
      BY <2>2, <2>3 DEF MakeChecks, ctxVars, Goto
    <3> QED
      BY <1>t, <2>1, <2>2, <3>1 DEF Pending
  <2>4. CASE MakeEnrolls(c)
    <3>1. /\ snap' = [snap EXCEPT ![p] = {}] /\ pc' = [pc EXCEPT ![p] = "made"] /\ stack[p] = <<>>
      BY <2>2, <2>4 DEF MakeEnrolls, Goto, At
    <3> QED
      BY <1>t, <2>1, <2>2, <3>1 DEF Pending
  <2>5. CASE ~(MakeChecks(c) /\ err[Parent(c)] = "none") /\ ~MakeEnrolls(c)
    <3>1. snap' = snap
      BY <1>3, <2>5 DEF OwnMove, MakeBegins, MakeSelects, MakeLooksUp, MakeFindsParent, MakeReturns, WatchWakes
    <3>2. pc'[q] = "enroll" => pc[q] = "enroll"
      BY <1>3, <1>t, <2>5 DEF OwnMove, MakeBegins, MakeSelects, MakeLooksUp, MakeFindsParent, MakeReturns, WatchWakes, Goto
    <3> QED
      BY <2>1, <3>1, <3>2 DEF Pending
  <2> QED
    BY <1>3, <2>3, <2>4, <2>5 DEF OwnMove
<1> QED
  BY <1>1, <1>2, <1>3, OwnCases


(* Where the map is not raced, two processes about to write it are of the same context. *)
LEMMA NoRivals ==
  ASSUME Unraced, IInv, SerialInv, NEW p \in Proc, NEW q \in Proc, Pending(p), Pending(q),
         Parent(p[2]) = Parent(q[2])
  PROVE  p[2] = q[2]
<1> SUFFICES ASSUME p[2] # q[2] PROVE FALSE
  OBVIOUS
<1>1. ASSUME NEW r \in Proc, Pending(r)
      PROVE  r[2] \in Ctx /\ Parent(r[2]) # Bg /\ (Working(r[2]) \/ Kind(r[2]) = "timer")
  <2>0. r[1] \in Roles /\ r[2] \in Ctx /\ r = <<r[1], r[2]>>
    BY ProcFacts
  <2>1. CASE pc[r] = "enroll"
    <3>1. PlacesOf(r[2])
      BY <2>0 DEF IInv, PlaceInv
    <3>2. r[1] = "make"
      BY <2>0, <2>1, <3>1 DEF PlacesOf, Roles
    <3>3. pc[<<"make", r[2]>>] = "enroll"
      BY <2>0, <2>1, <3>2
    <3> QED
      BY <2>0, <3>1, <3>3 DEF PlacesOf, UnderWay, Working, At
  <2>2. CASE stack[r] # <<>> /\ stack[r][1].at = "delete" /\ stack[r][1].rm = "self"
    <3>1. /\ Top(r) = stack[r][1] /\ Top(r).n = r[2] /\ Parent(r[2]) \in Ctx
          /\ Len(stack[r]) = 1
      BY <2>2, InnermostFacts DEF Removing
    <3>2. r[1] = "cancel" \/ Kind(r[2]) = "timer"
      BY <2>2, <3>1 DEF IInv, CallInv, CallsOf
    <3>3. ASSUME r[1] = "cancel" PROVE Working(r[2])
      <4>1. stack[<<"cancel", r[2]>>] # <<>>
        BY <2>0, <2>2, <3>3
      <4> QED
        BY <4>1 DEF Working, At
    <3> QED
      BY <2>0, <3>1, <3>2, <3>3, ProcFacts
  <2> QED
    BY <1>1, <2>1, <2>2 DEF Pending
<1>2. tree.serial /\ Kind(p[2]) # "timer" /\ Kind(q[2]) # "timer"
  <2>1. tree \in Trees
    BY DEF IInv, Types
  <2>2. p[2] \in Ctx /\ q[2] \in Ctx /\ Parent(p[2]) # Bg /\ Parent(q[2]) # Bg
    BY <1>1
  <2> QED
    BY <2>1, <2>2 DEF Unraced, Parent, Kind
<1>3. Working(p[2]) /\ Working(q[2]) /\ p[2] \in Ctx /\ q[2] \in Ctx
  BY <1>1, <1>2
<1> QED
  BY <1>2, <1>3 DEF SerialInv

(* A write changes the map for the writer's own context only, unless the parent is cancelled. *)
LEMMA WriteKeeps ==
  ASSUME IInv, PendingInv, NEW q \in Proc, Writes(q)
  PROVE  /\ \A c \in Ctx \ {Parent(q[2])} : children'[c] = children[c]
         /\ \/ Canceled(Parent(q[2]))
            \/ children'[Parent(q[2])] \ {q[2]} = children[Parent(q[2])] \ {q[2]}
<1>1. /\ children \in [Ctx -> SUBSET Ctx] /\ Parent(q[2]) \in Ctx /\ Pending(q)
  BY DEF IInv, Types, Writes
<1>2. PICK c \in Ctx : c = Parent(q[2])
  BY <1>1
<1>3. PICK k : k = q[2]
  OBVIOUS
<1>4. Canceled(c) \/ snap[q] \ {k} = children[c] \ {k}
  BY <1>1, <1>2, <1>3 DEF PendingInv
<1>5. PICK was \in {children[c], snap[q]} :
        children' = [children EXCEPT ![c] = was \cup {k}] \/ children' = [children EXCEPT ![c] = was \ {k}]
  BY <1>2, <1>3 DEF Writes
<1>6. (\A x \in Ctx \ {c} : children'[x] = children[x]) /\ (children'[c] = was \cup {k} \/ children'[c] = was \ {k})
  BY <1>1, <1>5
<1>7. Canceled(c) \/ was \ {k} = children[c] \ {k}
  BY <1>4, <1>5
<1>8. Canceled(c) \/ children'[c] \ {k} = children[c] \ {k}
  BY <1>6, <1>7
<1> QED
  BY <1>2, <1>3, <1>6, <1>8

(* Where the map is not raced, nobody writes what another has read. *)
LEMMA PendingStep ==
  ASSUME Unraced, IInv, SerialInv, PendingInv, Lasting, tree' = tree,
         (\E p \in Proc : cancel(p)) \/ (\E c \in Ctx : OwnStep(c))
  PROVE  PendingInv'
<1> SUFFICES ASSUME NEW p \in Proc, Pending(p)'
             PROVE  (Canceled(Parent(p[2])) \/ snap[p] \ {p[2]} = children[Parent(p[2])] \ {p[2]})'
  BY DEF PendingInv
<1>1. PICK c : c = Parent(p[2]) /\ Parent(p[2])' = c
  BY DEF Parent
<1>2. PICK k : k = p[2]
  OBVIOUS
<1>3. \/ Pending(p) /\ snap'[p] = snap[p]
      \/ children' = children /\ snap'[p] = children[c]
  BY <1>1, PendingCases
<1>4. CASE children' = children /\ snap'[p] = children[c]
  BY <1>1, <1>4
<1>5. CASE Pending(p) /\ snap'[p] = snap[p]
  <2>1. c \in Ctx
    <3>1. p[2] \in Ctx /\ (pc[p] = "enroll" => pc[<<"make", p[2]>>] = "enroll")
      <4>1. p[1] \in Roles /\ p[2] \in Ctx /\ p = <<p[1], p[2]>> /\ PlacesOf(p[2])
        BY ProcFacts DEF IInv, PlaceInv
      <4>2. pc[p] = "enroll" => p[1] = "make"
        BY <4>1 DEF PlacesOf, Roles
      <4> QED
        BY <4>1, <4>2
    <3>2. CASE pc[p] = "enroll"
      BY <1>1, <3>1, <3>2, TreeFacts DEF IInv, PlaceInv, PlacesOf, UnderWay
    <3>3. CASE stack[p] # <<>> /\ stack[p][1].at = "delete"
      BY <1>1, <3>3, InnermostFacts DEF Removing
    <3> QED
      BY <1>5, <3>2, <3>3 DEF Pending
  <2>2. Canceled(c) => Canceled(c)'
    BY <2>1 DEF Lasting
  <2>3. Canceled(c) \/ snap[p] \ {k} = children[c] \ {k}
    BY <1>1, <1>2, <1>5 DEF PendingInv
  <2>4. Canceled(c)' \/ children'[c] \ {k} = children[c] \ {k}
    <3>1. ASSUME NEW q \in Proc, Writes(q) PROVE Canceled(c)' \/ children'[c] \ {k} = children[c] \ {k}
      <4>1. Pending(q)
        BY <3>1 DEF Writes
      <4>2. CASE Parent(q[2]) # c
        BY <2>1, <3>1, <4>2, WriteKeeps
      <4>3. CASE Parent(q[2]) = c
        <5>1. q[2] = k
          BY <1>1, <1>2, <1>5, <4>1, <4>3, NoRivals
        <5> QED
          BY <2>2, <3>1, <4>3, <5>1, WriteKeeps
      <4> QED
        BY <4>2, <4>3
    <3>2. ASSUME NEW x \in Ctx, Empties(x) PROVE Canceled(c)' \/ children'[c] = children[c]
      <4>1. CASE x = c
        BY <3>2, <4>1 DEF Empties
      <4>2. CASE x # c
        BY <2>1, <3>2, <4>2 DEF Empties, IInv, Types
      <4> QED
        BY <4>1, <4>2
    <3> QED
      BY <3>1, <3>2, WriteCases
  <2> QED
    BY <1>1, <1>2, <1>5, <2>2, <2>3, <2>4
<1> QED
  BY <1>3, <1>4, <1>5


-----------------------------------------------------------------------------
(* Enrolled children *)

(* A with_ call that gets as far as "made" has entered its context, or found its parent cancelled. *)
LEMMA MadeCases ==
  ASSUME IInv, tree' = tree, (\E p \in Proc : cancel(p)) \/ (\E c \in Ctx : OwnStep(c)),
         NEW c \in Ctx, Parent(c) # Bg, pc'[<<"make", c>>] \in {"made", "returned"}
  PROVE  \/ pc[<<"make", c>>] \in {"made", "returned"}
         \/ err[Parent(c)] # "none"
         \/ c \in children'[Parent(c)]
<1>1. <<"make", c>> \in Proc /\ <<"make", c>>[1] = "make" /\ <<"make", c>>[2] = c
  BY ProcFacts DEF Roles
<1>2. PICK m \in Proc : m = <<"make", c>> /\ m[1] = "make" /\ m[2] = c
  BY <1>1
<1>3. Parent(c) \in Ctx /\ Types /\ pc \in [Proc -> Places] /\ children \in [Ctx -> SUBSET Ctx]
  BY TreeFacts DEF IInv, Types
<1>4. ASSUME NEW p \in Proc, cancel(p) PROVE pc' = pc
  BY <1>4, CancelCases
<1>5. ASSUME NEW b \in Ctx, OwnCall(b)
      PROVE  pc[m] \in {"made", "returned"} \/ err[Parent(c)] # "none"
  <2>1. PICK r \in Roles, f \in Frames, l \in {"made", "returned"} : Starts(<<r, b>>, f, l)
    BY <1>5, OwnCallStarts
  <2>2. PICK p \in Proc : p = <<r, b>> /\ p[2] = b /\ p[1] = r
    BY ProcFacts, ZenonT(30)
  <2>3. /\ \A q \in Proc \ {p} : pc'[q] = pc[q]
        /\ p[1] = "make" => pc[p] = "made" \/ err[Parent(p[2])] # "none"
    BY <1>3, <2>1, <2>2 DEF Starts, Called
  <2> QED
    BY <1>2, <2>3
<1>6. ASSUME NEW b \in Ctx, OwnMove(b)
      PROVE  pc[m] \in {"made", "returned"} \/ err[Parent(c)] # "none" \/ c \in children'[Parent(c)]
  <2>0. <<"make", b>> \in Proc /\ <<"watch", b>> \in Proc /\ <<"timer", b>> \in Proc
        /\ m # <<"watch", b>> /\ m # <<"timer", b>> /\ (m = <<"make", b>> => b = c)
    BY <1>2, ProcFacts DEF Roles
  <2>1. CASE m # <<"make", b>>
    <3>1. pc'[m] = pc[m]
      BY <1>3, <1>6, <2>0, <2>1 DEF OwnMove, MakeBegins, MakeSelects, MakeLooksUp, MakeFindsParent, MakeChecks,
         MakeEnrolls, MakeReturns, WatchWakes, Goto
    <3> QED
      BY <1>2, <3>1
  <2>2. CASE b = c
    <3>1. CASE MakeBegins(c) \/ MakeSelects(c) \/ MakeFindsParent(c)
      BY <1>2, <1>3, <3>1 DEF MakeBegins, MakeSelects, MakeFindsParent, Goto
    <3>2. CASE MakeLooksUp(c)
      <4>1. done[Parent(c)] # "closed" => pc'[m] = "lookup_lock"
        BY <1>2, <1>3, <3>2 DEF MakeLooksUp
      <4>2. done[Parent(c)] = "closed" => err[Parent(c)] # "none"
        BY <1>3 DEF IInv, LockInv, MutexOf
      <4> QED
        BY <1>2, <4>1, <4>2
    <3>3. CASE MakeChecks(c) /\ err[Parent(c)] = "none"
      BY <1>2, <1>3, <3>3 DEF MakeChecks, Goto
    <3>4. CASE MakeEnrolls(c)
      BY <1>3, <3>4 DEF MakeEnrolls
    <3>5. CASE MakeReturns(c)
      BY <1>2, <3>5 DEF MakeReturns, At
    <3>6. CASE WatchWakes(c)
      BY <1>2, <1>3, <2>0, <2>2, <3>6 DEF WatchWakes, Goto
    <3> QED
      BY <1>6, <2>2, <3>1, <3>2, <3>3, <3>4, <3>5, <3>6 DEF OwnMove
  <2> QED
    BY <2>0, <2>1, <2>2
<1> QED
  BY <1>2, <1>4, <1>5, <1>6, OwnCases

(* Where the map is not raced, no entry is lost before the parent or the child is cancelled. *)
LEMMA EnrolledStep ==
  ASSUME IInv, PendingInv, EnrolledInv, Lasting, tree' = tree,
         (\E p \in Proc : cancel(p)) \/ (\E c \in Ctx : OwnStep(c))
  PROVE  EnrolledInv'
<1> SUFFICES ASSUME NEW c \in Ctx, pc'[<<"make", c>>] \in {"made", "returned"}, Parent(c) # Bg
             PROVE  (err[Parent(c)] # "none" \/ c \in children[Parent(c)] \/ Canceled(c))'
  BY DEF EnrolledInv, Parent
<1>1. PICK x \in Ctx : x = Parent(c) /\ Parent(c)' = x
  BY TreeFacts DEF IInv, Parent
<1>2. err[x] # "none" => err'[x] # "none"
  BY DEF Lasting
<1>3. Canceled(c) => Canceled(c)'
  BY DEF Lasting
<1>4. pc[<<"make", c>>] \in {"made", "returned"} \/ err[x] # "none" \/ c \in children'[x]
  BY <1>1, MadeCases
<1>5. ASSUME c \in children[x] PROVE err'[x] # "none" \/ c \in children'[x] \/ Canceled(c)'
  <2>1. ASSUME NEW q \in Proc, Writes(q) PROVE err'[x] # "none" \/ c \in children'[x] \/ Canceled(c)'
    <3>0. children \in [Ctx -> SUBSET Ctx]
      BY DEF IInv, Types
    <3>1. CASE Parent(q[2]) # x
      BY <1>5, <2>1, <3>1, WriteKeeps
    <3>2. CASE Parent(q[2]) = x
      <4>1. CASE q[2] = c
        BY <1>3, <2>1, <3>0, <3>2, <4>1 DEF Writes
      <4>2. CASE q[2] # c
        BY <1>2, <1>5, <2>1, <3>2, <4>2, WriteKeeps DEF Canceled
      <4> QED
        BY <4>1, <4>2
    <3> QED
      BY <3>1, <3>2
  <2>2. ASSUME NEW y \in Ctx, Empties(y) PROVE err'[x] # "none" \/ c \in children'[x]
    <3>1. CASE y = x
      BY <1>2, <2>2, <3>1 DEF Empties
    <3>2. CASE y # x
      BY <1>5, <2>2, <3>2 DEF Empties, IInv, Types
    <3> QED
      BY <3>1, <3>2
  <2> QED
    BY <1>5, <2>1, <2>2, WriteCases
<1>6. pc[<<"make", c>>] \in {"made", "returned"} => err[x] # "none" \/ c \in children[x] \/ Canceled(c)
  BY <1>1 DEF EnrolledInv
<1>7. err'[x] # "none" \/ c \in children'[x] \/ Canceled(c)'
  BY <1>2, <1>3, <1>4, <1>5, <1>6
<1> QED
  BY <1>1, <1>7

(* A cancel sees no child before its loop. *)
LEMMA SeenStep ==
  ASSUME IInv, SeenInv, tree' = tree, (\E p \in Proc : cancel(p)) \/ (\E c \in Ctx : OwnStep(c))
  PROVE  SeenInv'
<1> DEFINE Unseen(f) == f.at \in {"cause", "lock", "send", "close"} => f.seen = {}
<1>1. SeenInv = \A p \in Proc : \A i \in 1..Len(stack[p]) : Unseen(stack[p][i])
  BY DEF SeenInv
<1>2. ASSUME NEW p \in Proc, \A q \in Proc \ {p} : stack'[q] = stack[q], \A i \in 1..Len(stack'[p]) : Unseen(stack'[p][i])
      PROVE  SeenInv'
  BY <1>2 DEF SeenInv
<1>3. ASSUME NEW p \in Proc, cancel(p) PROVE SeenInv'
  <2>1. /\ stack[p] # <<>> /\ \A r \in Proc \ {p} : stack'[r] = stack[r]
        /\ \/ \E f \in Frames : Turns(p, f)
           \/ Returns(p)
           \/ \E k \in Ctx, f \in Frames, g \in Frames : Descends(p, k, f, g)
    BY <1>3, CancelCases
  <2>2. PICK m \in Nat \ {0} : m = Len(stack[p])
    BY <2>1, InnermostFacts
  <2>3. Top(p) = stack[p][1] /\ \A i \in 1..m : Unseen(stack[p][i])
    BY <2>1, <2>2, InnermostFacts DEF SeenInv
  <2>4. ASSUME NEW f \in Frames, Turns(p, f) PROVE \A i \in 1..Len(stack'[p]) : Unseen(stack'[p][i])
    <3>1. Len(stack'[p]) = m /\ stack'[p][1] = f /\ \A i \in 2..m : stack'[p][i] = stack[p][i]
      BY <2>2, <2>4 DEF Turns, Replaced
    <3>2. Unseen(Top(p)) /\ 1 \in 1..m
      BY <2>2, <2>3
    <3>3. Unseen(f)
      BY <2>4, <3>2 DEF Turns, CancelCause, CancelStarts, CancelSends, Frm
    <3>4. \A i \in 1..m : i = 1 \/ i \in 2..m
      BY <2>2
    <3> QED
      BY <2>3, <3>1, <3>3, <3>4
  <2>5. ASSUME Returns(p) PROVE \A i \in 1..Len(stack'[p]) : Unseen(stack'[p][i])
    <3>1. Len(stack'[p]) = m - 1 /\ \A i \in 1..(m - 1) : stack'[p][i] = stack[p][i + 1]
      BY <2>2, <2>5 DEF Returns, Popped
    <3>2. \A i \in 1..(m - 1) : i + 1 \in 1..m
      BY <2>2
    <3> QED
      BY <2>3, <3>1, <3>2
  <2>6. ASSUME NEW k \in Ctx, NEW f \in Frames, NEW g \in Frames, Descends(p, k, f, g)
        PROVE  \A i \in 1..Len(stack'[p]) : Unseen(stack'[p][i])
    <3>1. /\ Len(stack'[p]) = m + 1 /\ stack'[p][1] = f /\ stack'[p][2] = g
          /\ \A i \in 3..m + 1 : stack'[p][i] = stack[p][i - 1]
          /\ Unseen(f) /\ Unseen(g)
      BY <2>2, <2>6 DEF Descends, Pushed
    <3>2. \A i \in 1..m + 1 : i = 1 \/ i = 2 \/ (i \in 3..m + 1 /\ i - 1 \in 1..m)
      BY <2>2
    <3> QED
      BY <2>3, <3>1, <3>2
  <2> QED
    BY <1>2, <2>1, <2>4, <2>5, <2>6
<1>4. ASSUME NEW c \in Ctx, OwnCall(c) PROVE SeenInv'
  <2>1. PICK r \in Roles, f \in Frames, l \in {"made", "returned"} : Starts(<<r, c>>, f, l)
    BY <1>4, OwnCallStarts
  <2>2. PICK p \in Proc : p = <<r, c>>
    BY ProcFacts
  <2>3. /\ \A q \in Proc \ {p} : stack'[q] = stack[q]
        /\ Len(stack'[p]) = 1 /\ stack'[p][1] = f /\ f.seen = {}
    BY <2>1, <2>2 DEF Starts, Called
  <2>4. \A i \in 1..Len(stack'[p]) : Unseen(stack'[p][i])
    BY <2>3
  <2> QED
    BY <1>2, <2>3, <2>4
<1>5. ASSUME NEW c \in Ctx, OwnMove(c) PROVE SeenInv'
  BY <1>5, MoveFacts DEF SeenInv
<1> QED
  BY <1>3, <1>4, <1>5, OwnCases


-----------------------------------------------------------------------------
(* What a cancel reaches *)

(* The history of a context changes when its cancel begins. *)
LEMMA InTimeCases ==
  ASSUME IInv, (\E p \in Proc : cancel(p)) \/ (\E c \in Ctx : OwnStep(c)), NEW c \in Ctx
  PROVE  \/ inTime'[c] = inTime[c]
         \/ /\ err[c] = "none" /\ err'[c] # "none" /\ mutex[c] = Free /\ mutex'[c] # Free
            /\ inTime'[c] = {k \in Ctx : Parent(k) = c /\ Made(k)} /\ children' = children
<1>1. ASSUME NEW p \in Proc, CancelStarts(p)
      PROVE  \/ inTime'[c] = inTime[c]
             \/ /\ err[c] = "none" /\ err'[c] # "none" /\ mutex[c] = Free /\ mutex'[c] # Free
                /\ inTime'[c] = {k \in Ctx : Parent(k) = c /\ Made(k)} /\ children' = children
  <2>1. stack[p] # <<>>
    BY <1>1 DEF CancelStarts, Frm
  <2>2. PICK x \in Ctx : x = Top(p).n /\ Top(p).err # "none" /\ p # Free
    BY <2>1, InnermostFacts, ProcFacts DEF Frames
  <2>3. /\ mutex[x] = Free /\ err[x] = "none" /\ children' = children
        /\ mutex' = [mutex EXCEPT ![x] = p] /\ err' = [err EXCEPT ![x] = Top(p).err]
        /\ inTime' = [inTime EXCEPT ![x] = {k \in Ctx : Parent(k) = x /\ Made(k)}]
    BY <1>1, <2>2 DEF CancelStarts
  <2>4. Types
    BY DEF IInv
  <2>5. CASE x # c
    BY <2>3, <2>4, <2>5 DEF Types
  <2>6. CASE x = c
    BY <2>2, <2>3, <2>4, <2>6 DEF Types
  <2> QED
    BY <2>5, <2>6
<1>2. ASSUME NEW p \in Proc, cancel(p) PROVE CancelStarts(p) \/ inTime' = inTime
  <2>1. CASE CancelCause(p) \/ CancelEnds(p) \/ CancelSends(p) \/ CancelCloses(p)
    BY <2>1 DEF CancelCause, CancelEnds, CancelSends, CancelCloses, histVars
  <2>2. CASE CancelAgain(p) \/ CancelChild(p) \/ RemoveLooks(p) \/ RemoveReads(p) \/ RemoveDeletes(p)
    BY <2>2 DEF CancelAgain, CancelChild, RemoveLooks, RemoveReads, RemoveDeletes, histVars
  <2> QED
    BY <1>2, <2>1, <2>2 DEF cancel
<1>3. ASSUME NEW b \in Ctx, OwnStep(b) PROVE inTime' = inTime
  BY <1>3 DEF OwnStep, make, threads, MakeBegins, MakeSelects, MakeInherits, MakeLooksUp,
     MakeFindsParent, MakeChecks, MakeEnrolls, MakeExpired, MakeReturns, CancelFn, CancelCauseFunc, TimerFires,
     WatchWakes, WatchCancels, histVars
<1> QED
  BY <1>1, <1>2, <1>3

(* A cancel is done when its loop has ended. *)
LEMMA CanceledCases ==
  ASSUME IInv, (\E p \in Proc : cancel(p)) \/ (\E c \in Ctx : OwnStep(c)), NEW c \in Ctx, Canceled(c)'
  PROVE  Canceled(c) \/ \E p \in Proc : CancelEnds(p) /\ Top(p).n = c
<1>1. ASSUME NEW p \in Proc, CancelStarts(p) PROVE Canceled(c)
  <2>1. stack[p] # <<>>
    BY <1>1 DEF CancelStarts, Frm
  <2>2. PICK x \in Ctx : x = Top(p).n /\ p # Free
    BY <2>1, InnermostFacts, ProcFacts
  <2>3. mutex' = [mutex EXCEPT ![x] = p] /\ err' = [err EXCEPT ![x] = Top(p).err] /\ Types
    BY <1>1, <2>2 DEF CancelStarts, IInv
  <2> QED
    BY <2>2, <2>3 DEF Types, Canceled
<1>2. ASSUME NEW p \in Proc, CancelEnds(p) PROVE Canceled(c) \/ Top(p).n = c
  BY <1>2 DEF CancelEnds, Canceled, IInv, Types
<1>3. ASSUME NEW p \in Proc, cancel(p) PROVE CancelStarts(p) \/ CancelEnds(p) \/ UNCHANGED <<mutex, err>>
  <2>1. CASE CancelCause(p) \/ CancelSends(p) \/ CancelCloses(p)
    BY <2>1 DEF CancelCause, CancelSends, CancelCloses
  <2>2. CASE CancelAgain(p) \/ CancelChild(p) \/ RemoveLooks(p) \/ RemoveReads(p) \/ RemoveDeletes(p)
    BY <2>2 DEF CancelAgain, CancelChild, RemoveLooks, RemoveReads, RemoveDeletes, ctxVars
  <2> QED
    BY <1>3, <2>1, <2>2 DEF cancel
<1>4. ASSUME NEW b \in Ctx, OwnStep(b) PROVE UNCHANGED <<mutex, err>>
  BY <1>4 DEF OwnStep, make, threads, MakeBegins, MakeSelects, MakeInherits, MakeLooksUp,
     MakeFindsParent, MakeChecks, MakeEnrolls, MakeExpired, MakeReturns, CancelFn, CancelCauseFunc, TimerFires,
     WatchWakes, WatchCancels, ctxVars
<1>5. UNCHANGED <<mutex, err>> => Canceled(c)
  BY DEF Canceled
<1> QED
  BY <1>1, <1>2, <1>3, <1>4, <1>5

(* While a cancel holds the mutex, a child leaves its map only when the child is cancelled. *)
LEMMA EntriesKept ==
  ASSUME IInv, PendingInv, Lasting, (\E p \in Proc : cancel(p)) \/ (\E c \in Ctx : OwnStep(c)),
         NEW x \in Ctx, mutex[x] # Free, mutex'[x] # Free, NEW k \in children[x]
  PROVE  k \in children'[x] \/ Canceled(k)'
<1>0. children \in [Ctx -> SUBSET Ctx] /\ k \in Ctx /\ ~Canceled(x)
  BY DEF IInv, Types, Canceled
<1>1. Canceled(k) => Canceled(k)'
  BY <1>0 DEF Lasting
<1>2. ASSUME NEW q \in Proc, Writes(q) PROVE k \in children'[x] \/ Canceled(k)'
  <2>1. CASE Parent(q[2]) # x
    BY <1>2, <2>1, WriteKeeps
  <2>2. CASE Parent(q[2]) = x /\ q[2] = k
    BY <1>0, <1>1, <1>2, <2>2 DEF Writes
  <2>3. CASE Parent(q[2]) = x /\ q[2] # k
    BY <1>0, <1>2, <2>3, WriteKeeps
  <2> QED
    BY <2>1, <2>2, <2>3
<1>3. ASSUME NEW y \in Ctx, Empties(y) PROVE k \in children'[x]
  <2>1. y # x
    BY <1>3 DEF Empties, Canceled
  <2> QED
    BY <1>0, <1>3, <2>1 DEF Empties
<1> QED
  BY <1>2, <1>3, WriteCases

(* A call that goes on in its loop, or waits there, has the same children left to reach. *)
LEMMA ToReachMoves ==
  ASSUME IInv, PendingInv, Lasting, (\E p \in Proc : cancel(p)) \/ (\E c \in Ctx : OwnStep(c)),
         NEW p \in Proc, NEW i \in Nat, NEW j \in Nat, NEW k \in Ctx, NEW x \in Ctx,
         mutex[x] # Free, mutex'[x] # Free,
         stack[p][i].n = x, stack'[p][j].n = x, stack'[p][j].at = stack[p][i].at, stack'[p][j].todo = stack[p][i].todo,
         k \notin stack[p][i].seen => k \notin stack'[p][j].seen \/ (j > 1 /\ stack'[p][j - 1].n = k),
         i > 1 /\ stack[p][i - 1].n = k => Canceled(k)' \/ (j > 1 /\ stack'[p][j - 1].n = k),
         ToReach(p, i, k)
  PROVE  ToReach(p, j, k)'
<1>1. Canceled(k) => Canceled(k)'
  BY DEF Lasting
<1>2. k \in children[x] => k \in children'[x] \/ Canceled(k)'
  BY EntriesKept
<1>3. \/ Canceled(k)
      \/ stack[p][i].at \in {"send", "close"} /\ k \in children[x]
      \/ stack[p][i].at = "loop" /\ k \in children[x] /\ k \in stack[p][i].todo /\ k \notin stack[p][i].seen
      \/ stack[p][i].at = "loop" /\ i > 1 /\ stack[p][i - 1].n = k
  BY DEF ToReach
<1>4. \/ Canceled(k)'
      \/ stack'[p][j].at \in {"send", "close"} /\ k \in children'[x]
      \/ stack'[p][j].at = "loop" /\ k \in children'[x] /\ k \in stack'[p][j].todo /\ k \notin stack'[p][j].seen
      \/ stack'[p][j].at = "loop" /\ j > 1 /\ stack'[p][j - 1].n = k
  BY <1>1, <1>2, <1>3
<1> QED
  BY <1>4 DEF ToReach


(* The step is of a cancel or of a process itself; the invariants hold before, the first one after. *)
Reaching ==
  /\ IInv /\ IInv' /\ PendingInv /\ Lasting /\ tree' = tree /\ ReachInv
  /\ (\E p \in Proc : cancel(p)) \/ (\E c \in Ctx : OwnStep(c))

(* A context whose cancel is under way before and after the step keeps its history. *)
LEMMA HeldFacts ==
  ASSUME Reaching, NEW p \in Proc, NEW i \in 1..Len(stack'[p]), stack'[p][i].at \in Held
  PROVE  stack'[p][i].n \in Ctx /\ mutex'[stack'[p][i].n] = p /\ mutex'[stack'[p][i].n] # Free
<1>1. stack' \in [Proc -> Seq(Frames)] /\ HoldsOf(p)' /\ p # Free
  BY ProcFacts DEF Reaching, IInv, Types, LockInv
<1>2. stack'[p][i] \in Frames
  BY <1>1
<1> QED
  BY <1>1, <1>2 DEF HoldsOf, Frames

(* A call that keeps its context, its place and its work goes on as before. *)
LEMMA CallReaches ==
  ASSUME Reaching, NEW p \in Proc, NEW i \in 1..Len(stack[p]), NEW j \in 1..Len(stack'[p]),
         stack[p][i].at \in Held, stack'[p][j].n = stack[p][i].n, stack'[p][j].at = stack[p][i].at,
         stack'[p][j].todo = stack[p][i].todo,
         \A k \in Ctx : /\ k \notin stack[p][i].seen =>
                             k \notin stack'[p][j].seen \/ (j > 1 /\ stack'[p][j - 1].n = k)
                        /\ i > 1 /\ stack[p][i - 1].n = k => Canceled(k)' \/ (j > 1 /\ stack'[p][j - 1].n = k)
  PROVE  \A k \in inTime'[stack'[p][j].n] : ToReach(p, j, k)'
<1>1. /\ IInv /\ PendingInv /\ Lasting /\ ReachOf(p) /\ p # Free /\ HoldsOf(p) /\ Types
      /\ (\E q \in Proc : cancel(q)) \/ (\E c \in Ctx : OwnStep(c))
  BY ProcFacts DEF Reaching, ReachInv, IInv, LockInv
<1>2. PICK x \in Ctx : x = stack'[p][j].n /\ mutex'[x] # Free
  BY HeldFacts
<1>3. mutex[x] # Free
  BY <1>1, <1>2 DEF HoldsOf
<1>4. inTime'[x] = inTime[x] /\ inTime[x] \subseteq Ctx
  BY <1>1, <1>3, InTimeCases DEF Types
<1>5. ASSUME NEW k \in inTime[x] PROVE ToReach(p, j, k)'
  <2>1. k \in Ctx /\ ToReach(p, i, k)
    BY <1>1, <1>2, <1>4, <1>5 DEF ReachOf
  <2>2. i \in Nat /\ j \in Nat
    OBVIOUS
  <2> QED
    BY <1>1, <1>2, <1>3, <2>1, <2>2, ToReachMoves
<1> QED
  BY <1>2, <1>4, <1>5

(* The processes that do not move. *)
LEMMA ReachKept ==
  ASSUME Reaching, NEW q \in Proc, stack'[q] = stack[q]
  PROVE  ReachOf(q)'
<1> SUFFICES ASSUME NEW j \in 1..Len(stack'[q]), stack'[q][j].at \in Held
             PROVE  \A k \in inTime'[stack'[q][j].n] : ToReach(q, j, k)'
  BY DEF ReachOf
<1> QED
  BY CallReaches

(* The process whose innermost call goes on. *)
LEMMA ReachTurns ==
  ASSUME Reaching, EnrolledInv, SeenInv, NEW p \in Proc, stack[p] # <<>>, NEW f \in Frames, Turns(p, f)
  PROVE  ReachOf(p)'
<1> SUFFICES ASSUME NEW j \in 1..Len(stack'[p]), stack'[p][j].at \in Held
             PROVE  \A k \in inTime'[stack'[p][j].n] : ToReach(p, j, k)'
  BY DEF ReachOf
<1>0. IInv /\ Types /\ Lasting
  BY DEF Reaching, IInv
<1>1. Top(p) = stack[p][1] /\ Top(p).n \in Ctx /\ Len(stack[p]) \in Nat \ {0}
  BY <1>0, InnermostFacts
<1>2. PICK m \in Nat \ {0} : m = Len(stack[p]) /\ Len(stack'[p]) = m
  BY <1>1 DEF Turns, Replaced
<1>3. stack'[p][1] = f /\ f.n = Top(p).n /\ \A i \in 2..m : stack'[p][i] = stack[p][i]
  BY <1>2 DEF Turns, Replaced
<1>4. CASE j # 1
  <2>1. j \in 1..m /\ j \in 2..m /\ (j - 1 = 1 \/ j - 1 \in 2..m)
    BY <1>2, <1>4
  <2>2. stack'[p][j - 1].n = stack[p][j - 1].n /\ stack'[p][j] = stack[p][j]
    BY <1>1, <1>3, <2>1
  <2> QED
    BY <1>2, <2>1, <2>2, CallReaches
<1>5. CASE j = 1
  <2>1. PICK x \in Ctx : x = Top(p).n /\ x = stack'[p][1].n /\ mutex'[x] # Free
    BY <1>1, <1>3, <1>5, HeldFacts
  <2>2. stack'[p][1].at = f.at /\ stack'[p][1].todo = f.todo /\ stack'[p][1].seen = f.seen /\ f.at \in Held
    BY <1>3, <1>5
  <2>3. CASE CancelStarts(p) /\ f.at = "send"
    <3>1. /\ mutex[x] = Free /\ err[x] = "none" /\ children' = children
          /\ inTime' = [inTime EXCEPT ![x] = {k \in Ctx : Parent(k) = x /\ Made(k)}]
      BY <2>1, <2>3 DEF CancelStarts
    <3>2. inTime'[x] = {k \in Ctx : Parent(k) = x /\ Made(k)}
      BY <1>0, <3>1 DEF Types
    <3>3. ASSUME NEW k \in inTime'[x] PROVE ToReach(p, 1, k)'
      <4>1. k \in Ctx /\ Parent(k) = x /\ pc[<<"make", k>>] = "returned" /\ x # Bg
        BY <3>2, <3>3, ProcFacts DEF Made, At
      <4>2. k \in children[x] \/ Canceled(k)
        BY <3>1, <4>1 DEF EnrolledInv
      <4>3. k \in children'[x] \/ Canceled(k)'
        BY <1>0, <3>1, <4>1, <4>2 DEF Lasting
      <4> QED
        BY <2>1, <2>2, <2>3, <4>3 DEF ToReach
    <3> QED
      BY <1>5, <2>1, <3>3
  <2>4. CASE (CancelSends(p) /\ f.at = "close") \/ (CancelCloses(p) /\ f.at = "loop" /\ f.seen = Top(p).seen /\ f.todo = children[x])
    <3>1. Top(p).at \in {"send", "close"} /\ children' = children /\ mutex' = mutex
      BY <2>4 DEF CancelSends, CancelCloses, Frm
    <3>2. 1 \in 1..Len(stack[p]) /\ Top(p).at \in Held
      BY <1>1, <3>1 DEF Held
    <3>3. Top(p).seen = {}
      BY <1>1, <3>1, <3>2 DEF SeenInv
    <3>4. inTime'[x] = inTime[x] /\ inTime[x] \subseteq Ctx
      BY <1>0, <2>1, <3>1, InTimeCases DEF Types, Reaching
    <3>5. ASSUME NEW k \in inTime[x] PROVE ToReach(p, 1, k)'
      <4>1. k \in Ctx /\ ToReach(p, 1, k)
        BY <1>1, <2>1, <3>2, <3>4, <3>5 DEF Reaching, ReachInv, ReachOf
      <4>2. k \in children[x] \/ Canceled(k)
        BY <1>1, <2>1, <3>1, <4>1 DEF ToReach
      <4>3. k \in children'[x] \/ Canceled(k)'
        BY <1>0, <3>1, <4>1, <4>2 DEF Lasting
      <4> QED
        BY <2>1, <2>2, <2>4, <3>1, <3>3, <4>3 DEF ToReach
    <3> QED
      BY <1>5, <2>1, <3>4, <3>5
  <2> QED
    BY <2>1, <2>2, <2>3, <2>4 DEF Turns, Held
<1> QED
  BY <1>4, <1>5

(* The process whose innermost call returns: its context is cancelled. *)
LEMMA ReachReturns ==
  ASSUME Reaching, NEW p \in Proc, stack[p] # <<>>, Returns(p)
  PROVE  ReachOf(p)'
<1> SUFFICES ASSUME NEW j \in 1..Len(stack'[p]), stack'[p][j].at \in Held
             PROVE  \A k \in inTime'[stack'[p][j].n] : ToReach(p, j, k)'
  BY DEF ReachOf
<1>0. IInv /\ Types /\ Lasting
  BY DEF Reaching, IInv
<1>1. /\ Top(p) = stack[p][1] /\ Top(p).n \in Ctx /\ Len(stack[p]) \in Nat \ {0}
      /\ Top(p).at \in Removing => Canceled(Top(p).n)
      /\ Top(p).at \in Held => mutex[Top(p).n] = p
  BY <1>0, InnermostFacts
<1>2. PICK m \in Nat \ {0} : m = Len(stack[p]) /\ Len(stack'[p]) = m - 1
  BY <1>1 DEF Returns, Popped
<1>3. \A i \in 1..(m - 1) : stack'[p][i] = stack[p][i + 1]
  BY <1>2 DEF Returns, Popped
<1>4. PICK x \in Ctx : x = Top(p).n
  BY <1>1
<1>5. Canceled(x)'
  <2>1. CASE CancelAgain(p)
    BY <1>0, <1>4, <2>1 DEF CancelAgain, Canceled, Lasting
  <2>2. CASE CancelEnds(p)
    <3>1. Top(p).at = "loop"
      BY <2>2 DEF CancelEnds, Frm
    <3>2. err[x] # "none"
      BY <1>0, <1>1, <1>4, <3>1, ProcFacts DEF Held, IInv, LockInv, MutexOf
    <3> QED
      BY <1>0, <1>4, <2>2, <3>2 DEF CancelEnds, Canceled, Types
  <2>3. CASE RemoveLooks(p) \/ RemoveDeletes(p)
    BY <1>0, <1>1, <1>4, <2>3 DEF RemoveLooks, RemoveDeletes, Frm, Removing, Lasting
  <2> QED
    BY <2>1, <2>2, <2>3 DEF Returns
<1>6. PICK i \in 1..m : i = j + 1 /\ i - 1 = j /\ i > 1 /\ (j > 1 => j - 1 \in 1..(m - 1) /\ (j - 1) + 1 = j)
  BY <1>2
<1>7. stack'[p][j] = stack[p][i] /\ (j > 1 => stack'[p][j - 1] = stack[p][j]) /\ (~(j > 1) => j = 1)
  <2>1. j \in 1..(m - 1)
    BY <1>2
  <2>2. stack'[p][j] = stack[p][i]
    BY <1>3, <1>6, <2>1
  <2>3. ASSUME j > 1 PROVE stack'[p][j - 1] = stack[p][j]
    <3>1. PICK h \in 1..(m - 1) : h = j - 1 /\ h + 1 = j
      BY <1>6, <2>3
    <3> QED
      BY <1>3, <3>1
  <2>4. ~(j > 1) => j = 1
    BY <2>1
  <2> QED
    BY <2>2, <2>3, <2>4
<1>8. \A k \in Ctx : stack[p][j].n = k => Canceled(k)' \/ (j > 1 /\ stack'[p][j - 1].n = k)
  <2>1. CASE j > 1
    BY <1>7, <2>1
  <2>2. CASE j = 1
    BY <1>1, <1>4, <1>5, <2>2
  <2> QED
    BY <1>7, <2>1, <2>2
<1> QED
  BY <1>2, <1>6, <1>7, <1>8, CallReaches

(* The process that goes on to a child. *)
LEMMA ReachDescends ==
  ASSUME Reaching, NEW p \in Proc, stack[p] # <<>>, NEW c \in Ctx, NEW f \in Frames, NEW g \in Frames,
         Descends(p, c, f, g)
  PROVE  ReachOf(p)'
<1> SUFFICES ASSUME NEW j \in 1..Len(stack'[p]), stack'[p][j].at \in Held
             PROVE  \A k \in inTime'[stack'[p][j].n] : ToReach(p, j, k)'
  BY DEF ReachOf
<1>1. /\ Top(p) = stack[p][1] /\ Len(stack[p]) \in Nat \ {0}
  BY InnermostFacts DEF Reaching
<1>2. PICK m \in Nat \ {0} : m = Len(stack[p]) /\ Len(stack'[p]) = m + 1
  BY <1>1 DEF Descends, Pushed
<1>3. /\ stack'[p][1] = f /\ stack'[p][2] = g /\ \A i \in 3..m + 1 : stack'[p][i] = stack[p][i - 1]
      /\ f.n = c /\ f.at \notin Held
      /\ g.n = Top(p).n /\ g.at = "loop" /\ g.todo = Top(p).todo /\ g.seen = Top(p).seen \cup {c}
      /\ Top(p).at = "loop"
  BY <1>2 DEF Descends, Pushed, Held, CancelChild, Frm
<1>4. CASE j = 1
  BY <1>3, <1>4
<1>5. CASE j = 2
  <2>1. 1 \in 1..Len(stack[p]) /\ j > 1 /\ j - 1 = 1
    BY <1>1, <1>5
  <2>2. PICK i \in 1..Len(stack[p]) : i = 1
    BY <2>1
  <2>3. /\ stack[p][i].at \in Held /\ stack'[p][j].n = stack[p][i].n /\ stack'[p][j].at = stack[p][i].at
        /\ stack'[p][j].todo = stack[p][i].todo /\ stack'[p][j].seen = stack[p][i].seen \cup {c}
        /\ stack'[p][j - 1].n = c
    BY <1>1, <1>3, <1>5, <2>1, <2>2 DEF Held
  <2>4. \A k \in Ctx : /\ k \notin stack[p][i].seen =>
                             k \notin stack'[p][j].seen \/ (j > 1 /\ stack'[p][j - 1].n = k)
                       /\ ~(i > 1)
    BY <2>1, <2>2, <2>3
  <2> QED
    BY <2>3, <2>4, CallReaches
<1>6. CASE j \in 3..m + 1
  <2>0. PICK i \in 1..m : i = j - 1
    BY <1>2, <1>6
  <2>1. /\ i = j - 1 /\ i > 1 /\ j > 1 /\ (i - 1 = 1 => j - 1 = 2)
        /\ i - 1 # 1 => j - 1 \in 3..m + 1 /\ (j - 1) - 1 = i - 1
    BY <1>2, <1>6, <2>0
  <2>2. stack'[p][j] = stack[p][i]
    BY <1>3, <1>6, <2>1
  <2>3. stack'[p][j - 1].n = stack[p][i - 1].n
    <3>1. CASE i - 1 = 1
      BY <1>1, <1>3, <2>1, <3>1
    <3>2. CASE i - 1 # 1
      BY <1>3, <2>1, <3>2
    <3> QED
      BY <3>1, <3>2
  <2> QED
    BY <1>2, <2>1, <2>2, <2>3, CallReaches
<1>7. j = 1 \/ j = 2 \/ j \in 3..m + 1
  BY <1>2
<1> QED
  BY <1>4, <1>5, <1>6, <1>7


(* Where the map is not raced, a cancel reaches all the children that were there when it began. *)
LEMMA ReachStep ==
  ASSUME Reaching, EnrolledInv, SeenInv
  PROVE  ReachInv'
<1>0. IInv /\ Types /\ Lasting /\ ReachInv
  BY DEF Reaching, IInv
<1>1. ASSUME NEW q \in Proc PROVE ReachOf(q)'
  <2>1. ASSUME NEW p \in Proc, cancel(p) PROVE ReachOf(q)'
    <3>1. /\ stack[p] # <<>> /\ \A r \in Proc \ {p} : stack'[r] = stack[r]
          /\ \/ \E f \in Frames : Turns(p, f)
             \/ Returns(p)
             \/ \E k \in Ctx, f \in Frames, g \in Frames : Descends(p, k, f, g)
      BY <1>0, <2>1, CancelCases
    <3>2. CASE q # p
      BY <3>1, <3>2, ReachKept
    <3>3. ReachOf(p)'
      BY <3>1, ReachTurns, ReachReturns, ReachDescends
    <3> QED
      BY <3>2, <3>3
  <2>2. ASSUME NEW c \in Ctx, OwnCall(c) PROVE ReachOf(q)'
    <3>1. PICK r \in Roles, f \in Frames, l \in {"made", "returned"} : Starts(<<r, c>>, f, l)
      BY <1>0, <2>2, OwnCallStarts
    <3>2. PICK p \in Proc : p = <<r, c>>
      BY ProcFacts
    <3>3. /\ \A o \in Proc \ {p} : stack'[o] = stack[o]
          /\ Len(stack'[p]) = 1 /\ stack'[p][1] = f /\ f.at \in {"cause", "lock"}
      BY <3>1, <3>2 DEF Starts, Called
    <3>4. CASE q # p
      BY <3>3, <3>4, ReachKept
    <3>5. CASE q = p
      BY <3>3, <3>5 DEF ReachOf, Held
    <3> QED
      BY <3>4, <3>5
  <2>3. ASSUME NEW c \in Ctx, OwnMove(c) PROVE ReachOf(q)'
    BY <1>0, <2>3, MoveFacts, ReachKept DEF Reaching
  <2> QED
    BY <2>1, <2>2, <2>3, OwnCases DEF Reaching
<1>2. ASSUME NEW c \in Ctx PROVE InTimeOf(c)'
  <2>0. /\ InTimeOf(c) /\ inTime[c] \subseteq Ctx
        /\ (\E p \in Proc : cancel(p)) \/ (\E k \in Ctx : OwnStep(k))
    BY <1>0 DEF ReachInv, Types, Reaching
  <2>1. err'[c] = "none" => inTime'[c] = {}
    <3>1. err'[c] = "none" => err[c] = "none"
      BY <1>0 DEF Lasting
    <3> QED
      BY <1>0, <2>0, <3>1, InTimeCases DEF InTimeOf
  <2>2. ASSUME Canceled(c)', NEW k \in inTime'[c] PROVE Canceled(k)'
    <3>1. mutex'[c] = Free
      BY <2>2 DEF Canceled
    <3>2. inTime'[c] = inTime[c] /\ k \in inTime[c] /\ k \in Ctx
      BY <1>0, <2>0, <2>2, <3>1, InTimeCases
    <3>3. CASE Canceled(c)
      BY <1>0, <2>0, <3>2, <3>3 DEF InTimeOf, Lasting
    <3>4. CASE ~Canceled(c)
      <4>1. PICK p \in Proc : CancelEnds(p) /\ Top(p).n = c
        BY <1>0, <2>0, <2>2, <3>4, CanceledCases
      <4>2. /\ stack[p] # <<>> /\ Top(p).at = "loop"
            /\ \A x \in Top(p).todo \cap children[c] : x \in Top(p).seen
        BY <4>1 DEF CancelEnds, Frm
      <4>3. Top(p) = stack[p][1] /\ 1 \in 1..Len(stack[p])
        BY <1>0, <4>2, TopFacts
      <4>4. ToReach(p, 1, k)
        BY <1>0, <3>2, <4>1, <4>2, <4>3 DEF ReachInv, ReachOf, Held
      <4>5. Canceled(k)
        BY <4>1, <4>2, <4>3, <4>4 DEF ToReach
      <4> QED
        BY <1>0, <3>2, <4>5 DEF Lasting
    <3> QED
      BY <3>3, <3>4
  <2> QED
    BY <2>1, <2>2 DEF InTimeOf
<1> QED
  BY <1>1, <1>2 DEF ReachInv


-----------------------------------------------------------------------------
(* What a cancel releases *)

(* A cancel function's process is moved by its own steps only. *)
LEMMA CancelProcess ==
  ASSUME IInv, tree' = tree, NEW c \in Ctx, NEW b \in Ctx, OwnMove(b)
  PROVE  stack'[<<"cancel", c>>] = stack[<<"cancel", c>>] /\ pc'[<<"cancel", c>>] = pc[<<"cancel", c>>]
<1>1. /\ <<"make", b>> \in Proc /\ <<"watch", b>> \in Proc /\ <<"timer", b>> \in Proc
      /\ <<"cancel", c>> \in Proc
  BY ProcFacts DEF Roles
<1>2. /\ <<"cancel", c>> # <<"make", b>> /\ <<"cancel", c>> # <<"watch", b>> /\ <<"cancel", c>> # <<"timer", b>>
  OBVIOUS
<1>3. PICK u \in Proc : u = <<"cancel", c>> /\ u # <<"make", b>> /\ u # <<"watch", b>> /\ u # <<"timer", b>>
  BY <1>1, <1>2
<1>4. pc \in [Proc -> Places] /\ stack' = stack
  BY MoveFacts DEF IInv, Types
<1>5. pc'[u] = pc[u]
  BY <1>1, <1>3, <1>4 DEF OwnMove, MakeBegins, MakeSelects, MakeLooksUp, MakeFindsParent, MakeChecks,
     MakeEnrolls, MakeReturns, WatchWakes, Goto
<1> QED
  BY <1>3, <1>4, <1>5

(* Only a cancel function that finds its parent cancelled, or is called by nobody else, runs for a context of with_cancel. *)
LEMMA InheritStep ==
  ASSUME IInv, Lasting, InheritInv, tree' = tree, (\E p \in Proc : cancel(p)) \/ (\E c \in Ctx : OwnStep(c))
  PROVE  InheritInv'
<1> SUFFICES ASSUME NEW p \in Proc, Kind(p[2]) = "cancel", p[1] # "cancel", Parent(p[2]) # Bg, stack'[p] # <<>>
             PROVE  err'[Parent(p[2])] # "none"
  BY DEF InheritInv, Kind, Parent
<1>1. PICK c \in Ctx : c = p[2] /\ p = <<p[1], c>> /\ p[1] \in Roles
  BY ProcFacts
<1>2. PICK x \in Ctx : x = Parent(c)
  BY <1>1, TreeFacts DEF IInv
<1>3. err[x] # "none" => err'[x] # "none"
  BY DEF Lasting
<1>4. CASE stack[p] # <<>>
  BY <1>1, <1>2, <1>3, <1>4 DEF InheritInv
<1>5. CASE stack[p] = <<>>
  <2>1. ASSUME NEW q \in Proc, cancel(q) PROVE FALSE
    BY <1>5, <2>1, CancelCases
  <2>2. ASSUME NEW b \in Ctx, OwnMove(b) PROVE FALSE
    BY <1>5, <2>2, MoveFacts
  <2>3. ASSUME NEW b \in Ctx, OwnCall(b) PROVE err[x] # "none"
    <3>1. PICK r \in Roles, f \in Frames, l \in {"made", "returned"} : Starts(<<r, b>>, f, l)
      BY <2>3, OwnCallStarts
    <3>2. PICK q \in Proc : q = <<r, b>>
      BY ProcFacts
    <3>3. Starts(q, f, l) /\ (q # p => stack'[p] = stack[p])
      BY <3>1, <3>2 DEF Starts, Called
    <3>4. Starts(p, f, l)
      BY <1>5, <3>3
    <3>5. \/ err[x] # "none"
          \/ Kind(c) \in {"timer", "timer_cause"}
          \/ p[1] = "timer" /\ pc[p] = "sleeps"
          \/ p[1] = "watch" /\ pc[p] = "woken"
      BY <1>1, <1>2, <3>4 DEF Starts
    <3>6. PlacesOf(c) /\ MutexOf(x)
      BY DEF IInv, PlaceInv, LockInv
    <3>7. ~(p[1] = "timer" /\ pc[p] = "sleeps")
      <4>1. pc[<<"timer", c>>] = "idle"
        BY <1>1, <3>6 DEF PlacesOf
      <4> QED
        BY <1>1, <4>1
    <3>8. ASSUME p[1] = "watch", pc[p] = "woken" PROVE err[x] # "none"
      <4>1. pc[<<"watch", c>>] = "woken"
        BY <1>1, <3>8
      <4>2. done[x] = "closed"
        BY <1>2, <3>6, <4>1 DEF PlacesOf
      <4> QED
        BY <3>6, <4>2 DEF MutexOf
    <3> QED
      BY <1>1, <3>5, <3>7, <3>8
  <2> QED
    BY <1>1, <1>2, <1>3, <2>1, <2>2, <2>3, OwnCases
<1> QED
  BY <1>4, <1>5

(* A cancel function that has yet to get the mutex has not been called, or had yet to get it. *)
LEMMA OutsetCases ==
  ASSUME IInv, tree' = tree, (\E p \in Proc : cancel(p)) \/ (\E c \in Ctx : OwnStep(c)),
         NEW c \in Ctx, pc'[<<"cancel", c>>] = "idle" \/ Outset(<<"cancel", c>>)'
  PROVE  pc[<<"cancel", c>>] = "idle" \/ Outset(<<"cancel", c>>)
<1>0. <<"cancel", c>> \in Proc /\ <<"cancel", c>>[1] = "cancel" /\ <<"cancel", c>>[2] = c
  BY ProcFacts DEF Roles
<1>1. PICK u \in Proc : u = <<"cancel", c>> /\ u[1] = "cancel" /\ u[2] = c
  BY <1>0
<1>2. pc'[u] = "idle" \/ (Len(stack'[u]) = 1 /\ stack'[u][1].at \in {"cause", "lock"})
  BY <1>1 DEF Outset
<1>3. ASSUME NEW p \in Proc, cancel(p) PROVE pc[u] = "idle" \/ Outset(u)
  <2>1. /\ stack[p] # <<>> /\ pc' = pc /\ \A r \in Proc \ {p} : stack'[r] = stack[r]
        /\ \/ \E f \in Frames : Turns(p, f)
           \/ Returns(p)
           \/ \E k \in Ctx, f \in Frames, g \in Frames : Descends(p, k, f, g)
    BY <1>3, CancelCases
  <2>2. CASE p # u
    BY <1>2, <2>1, <2>2 DEF Outset
  <2>3. CASE p = u
    <3>1. Top(p) = stack[p][1] /\ Len(stack[p]) \in Nat \ {0} /\ pc[p] # "idle"
      BY <2>1, InnermostFacts
    <3>2. Len(stack'[p]) = 1 /\ stack'[p][1].at \in {"cause", "lock"}
      BY <1>2, <2>1, <2>3, <3>1
    <3>3. ASSUME NEW f \in Frames, Turns(p, f) PROVE Outset(p)
      <4>1. Len(stack[p]) = 1 /\ f.at \in {"cause", "lock"}
        BY <3>2, <3>3 DEF Turns, Replaced
      <4>2. Top(p).at = "cause"
        BY <3>3, <4>1 DEF Turns, CancelCause, Frm
      <4> QED
        BY <3>1, <4>1, <4>2 DEF Outset
    <3>4. ASSUME Returns(p) PROVE FALSE
      <4>1. PICK m \in Nat \ {0} : m = Len(stack[p]) /\ 1 = m - 1
        BY <3>1, <3>2, <3>4 DEF Returns, Popped
      <4>2. 1 \in 1..1 /\ 2 \in 2..m
        <5>1. \A a \in Nat \ {0} : 1 = a - 1 => 1 \in 1..1 /\ 2 \in 2..a
          OBVIOUS
        <5>2. 1 = m - 1
          BY <4>1
        <5> QED
          BY ONLY m \in Nat \ {0}, <5>1, <5>2
      <4>3. stack'[p][1] = stack[p][2]
        BY <3>2, <3>4, <4>2 DEF Returns, Popped
      <4>4. stack[p][2].at = "loop"
        BY <2>1, <4>1, <4>2, LowerFacts
      <4> QED
        BY <3>2, <4>3, <4>4
    <3>5. ASSUME NEW k \in Ctx, NEW f \in Frames, NEW g \in Frames, Descends(p, k, f, g) PROVE FALSE
      <4>1. 1 = Len(stack[p]) + 1
        BY <3>2, <3>5 DEF Descends, Pushed
      <4> QED
        BY <3>1, <4>1
    <3> QED
      BY <2>1, <2>3, <3>3, <3>4, <3>5
  <2> QED
    BY <2>2, <2>3
<1>4. ASSUME NEW b \in Ctx, OwnCall(b) PROVE pc[u] = "idle" \/ Outset(u)
  <2>1. PICK r \in Roles, f \in Frames, l \in {"made", "returned"} : Starts(<<r, b>>, f, l)
    BY <1>4, OwnCallStarts
  <2>2. PICK p \in Proc : p = <<r, b>>
    BY ProcFacts
  <2>3. /\ \A o \in Proc \ {p} : stack'[o] = stack[o] /\ pc'[o] = pc[o]
        /\ p[1] = "cancel" => pc[p] = "idle"
    BY <2>1, <2>2 DEF Starts, Called, IInv, Types
  <2> QED
    BY <1>1, <1>2, <2>3 DEF Outset
<1>5. ASSUME NEW b \in Ctx, OwnMove(b) PROVE pc[u] = "idle" \/ Outset(u)
  <2>1. stack'[u] = stack[u] /\ pc'[u] = pc[u]
    BY <1>1, <1>5, CancelProcess
  <2> QED
    BY <1>2, <2>1 DEF Outset
<1> QED
  BY <1>1, <1>3, <1>4, <1>5, OwnCases


(* A context of with_cancel that its cancel function finds cancelled has a cancelled parent. *)
LEMMA OutsetStep ==
  ASSUME IInv, Lasting, InheritInv, OutsetInv, tree' = tree,
         (\E p \in Proc : cancel(p)) \/ (\E c \in Ctx : OwnStep(c))
  PROVE  OutsetInv'
<1> SUFFICES ASSUME NEW c \in Ctx, Kind(c) = "cancel", Parent(c) # Bg, err'[c] # "none",
                    pc'[<<"cancel", c>>] = "idle" \/ Outset(<<"cancel", c>>)'
             PROVE  err'[Parent(c)] # "none"
  BY DEF OutsetInv, Kind, Parent
<1>1. PICK x \in Ctx : x = Parent(c)
  BY TreeFacts DEF IInv
<1>2. err[x] # "none" => err'[x] # "none"
  BY DEF Lasting
<1>3. CASE err[c] # "none"
  BY <1>1, <1>2, <1>3, OutsetCases DEF OutsetInv
<1>4. CASE err[c] = "none"
  <2>1. PICK p \in Proc : CancelStarts(p) /\ Top(p).n = c
    <3>1. ASSUME NEW p \in Proc, cancel(p) PROVE CancelStarts(p) \/ err' = err
      <4>1. CASE CancelCause(p) \/ CancelSends(p) \/ CancelCloses(p) \/ CancelEnds(p) \/ RemoveDeletes(p)
        BY <4>1 DEF CancelCause, CancelSends, CancelCloses, CancelEnds, RemoveDeletes
      <4>2. CASE CancelAgain(p) \/ CancelChild(p) \/ RemoveLooks(p) \/ RemoveReads(p)
        BY <4>2 DEF CancelAgain, CancelChild, RemoveLooks, RemoveReads, ctxVars
      <4> QED
        BY <3>1, <4>1, <4>2 DEF cancel
    <3>2. ASSUME NEW b \in Ctx, OwnStep(b) PROVE err' = err
      BY <3>2 DEF OwnStep, make, threads, MakeBegins, MakeSelects, MakeInherits, MakeLooksUp,
         MakeFindsParent, MakeChecks, MakeEnrolls, MakeExpired, MakeReturns, CancelFn, CancelCauseFunc, TimerFires,
         WatchWakes, WatchCancels, ctxVars
    <3>3. PICK p \in Proc : CancelStarts(p)
      BY <1>4, <3>1, <3>2
    <3>4. Top(p).n = c
      BY <1>4, <3>3 DEF CancelStarts, IInv, Types
    <3> QED
      BY <3>3, <3>4
  <2>2. stack[p] # <<>> /\ cancel(p) /\ Top(p).at = "lock"
    BY <2>1 DEF CancelStarts, Frm, cancel
  <2>3. /\ Top(p) = stack[p][1] /\ Len(stack[p]) \in Nat \ {0} /\ pc[p] \in {"made", "returned"}
        /\ Len(stack[p]) = 1 => Top(p).n = p[2]
        /\ p # Free /\ p = <<p[1], p[2]>> /\ p[1] \in Roles
    BY <2>2, InnermostFacts, ProcFacts
  <2>4. CASE Len(stack[p]) # 1
    <3>1. PICK m \in Nat \ {0} : m = Len(stack[p]) /\ m # 1
      BY <2>3, <2>4
    <3>2. 1 \in 1..m /\ 1 < m /\ 2 \in 2..m
      <4>1. \A a \in Nat \ {0} : a # 1 => 1 \in 1..a /\ 1 < a /\ 2 \in 2..a
        OBVIOUS
      <4> QED
        BY <3>1, <4>1
    <3>3. Parent(c) = stack[p][2].n
      BY <2>1, <2>2, <2>3, <3>1, <3>2 DEF IInv, CallInv, CallsOf
    <3>4. mutex[x] = p
      BY <1>1, <2>2, <3>1, <3>2, <3>3, LowerFacts
    <3>5. err[x] # "none"
      BY <2>3, <3>4 DEF IInv, LockInv, MutexOf
    <3> QED
      BY <1>1, <1>2, <3>5
  <2>5. CASE Len(stack[p]) = 1 /\ p[1] # "cancel"
    BY <1>1, <1>2, <2>1, <2>2, <2>3, <2>5 DEF InheritInv
  <2>6. CASE Len(stack[p]) = 1 /\ p[1] = "cancel"
    <3>1. p = <<"cancel", c>>
      BY <2>1, <2>3, <2>6
    <3>2. PICK f \in Frames : Replaced(p, f) /\ f.at = "send"
      BY <2>1, <2>2, TopGotoFacts DEF IInv, CancelStarts, FrameLabels
    <3>3. stack'[p][1].at = "send" /\ pc'[p] # "idle"
      BY <2>1, <2>3, <3>2 DEF Replaced, CancelStarts
    <3> QED
      BY <3>1, <3>3 DEF Outset
  <2> QED
    BY <2>4, <2>5, <2>6
<1> QED
  BY <1>3, <1>4

(* Where the map is not raced, a context whose cancel function returned stays out of its parent's map. *)
LEMMA ReleaseStep ==
  ASSUME IInv, PendingInv, Lasting, OutsetInv, CancelReleases, tree' = tree,
         (\E p \in Proc : cancel(p)) \/ (\E c \in Ctx : OwnStep(c))
  PROVE  CancelReleases'
<1> SUFFICES ASSUME NEW c \in Ctx, At(<<"cancel", c>>, "returned")', Kind(c) \in {"cancel", "timer"}, Parent(c) # Bg
             PROVE  c \notin children'[Parent(c)] \/ err'[Parent(c)] # "none"
  BY DEF CancelReleases, Kind, Parent
<1>1. PICK x \in Ctx : x = Parent(c)
  BY TreeFacts DEF IInv
<1>0. <<"cancel", c>> \in Proc /\ <<"cancel", c>>[1] = "cancel" /\ <<"cancel", c>>[2] = c
  BY ProcFacts DEF Roles
<1>2. PICK u \in Proc : u = <<"cancel", c>> /\ u[1] = "cancel" /\ u[2] = c
  BY <1>0
<1>3. err[x] # "none" => err'[x] # "none"
  BY DEF Lasting
<1>t. children \in [Ctx -> SUBSET Ctx] /\ Types
  BY DEF IInv, Types
<1>4. CASE At(u, "returned")
  <2>1. c \notin children[x] \/ err[x] # "none"
    BY <1>1, <1>2, <1>4 DEF CancelReleases
  <2>2. pc[<<"make", c>>] = "returned"
    BY <1>2, <1>4 DEF At, IInv, PlaceInv, PlacesOf
  <2>3. ASSUME c \notin children[x], NEW q \in Proc, Writes(q) PROVE c \notin children'[x] \/ err[x] # "none"
    <3>1. CASE Parent(q[2]) # x
      BY <2>3, <3>1, WriteKeeps
    <3>2. CASE Parent(q[2]) = x /\ q[2] # c
      BY <2>3, <3>2, WriteKeeps DEF Canceled
    <3>3. CASE Parent(q[2]) = x /\ q[2] = c
      <4>1. ~(q[1] = "make" /\ pc[q] = "enroll")
        BY <2>2, <3>3, ProcFacts
      <4> QED
        BY <1>t, <2>3, <3>3, <4>1 DEF Writes
    <3> QED
      BY <3>1, <3>2, <3>3
  <2>4. ASSUME c \notin children[x], NEW y \in Ctx, Empties(y) PROVE c \notin children'[x]
    BY <1>t, <2>4 DEF Empties
  <2> QED
    BY <1>1, <1>3, <2>1, <2>3, <2>4, WriteCases
<1>5. CASE ~At(u, "returned")
  <2>0. pc'[u] = "returned" /\ stack'[u] = <<>> /\ (pc[u] = "returned" => stack[u] # <<>>)
    BY <1>2, <1>5 DEF At
  <2>1. ASSUME NEW b \in Ctx, OwnMove(b) PROVE FALSE
    BY <1>2, <2>0, <2>1, CancelProcess
  <2>2. ASSUME NEW b \in Ctx, OwnCall(b) PROVE FALSE
    <3>1. PICK r \in Roles, f \in Frames, l \in {"made", "returned"} : Starts(<<r, b>>, f, l)
      BY <2>2, OwnCallStarts
    <3>2. PICK p \in Proc : p = <<r, b>>
      BY ProcFacts
    <3>3. /\ \A o \in Proc \ {p} : stack'[o] = stack[o] /\ pc'[o] = pc[o]
          /\ stack'[p] # <<>>
      BY <3>1, <3>2, <1>t DEF Starts, Called, Types
    <3> QED
      BY <2>0, <3>3
  <2>3. PICK p \in Proc : cancel(p)
    BY <2>1, <2>2, OwnCases
  <2>4. /\ stack[p] # <<>> /\ pc' = pc /\ \A r \in Proc \ {p} : stack'[r] = stack[r]
        /\ \/ \E f \in Frames : Turns(p, f)
           \/ Returns(p)
           \/ \E k \in Ctx, f \in Frames, g \in Frames : Descends(p, k, f, g)
    BY <2>3, CancelCases
  <2>5. p = u
    BY <2>0, <2>4
  <2>6. Returns(p)
    BY <2>0, <2>4, <2>5 DEF Turns, Replaced, Descends, Pushed
  <2>7. Top(p) = stack[p][1] /\ Len(stack[p]) \in Nat \ {0} /\ Top(p) \in Frames
    BY <2>4, InnermostFacts
  <2>8. Len(stack[p]) = 1
    <3>1. Len(stack'[p]) = 0
      BY <2>0, <2>5
    <3>2. 0 = Len(stack[p]) - 1
      BY <2>6, <3>1 DEF Returns, Popped
    <3> QED
      BY <2>7, <3>2
  <2>9. Top(p).n = c /\ Top(p).rm = "self"
    BY <1>2, <2>4, <2>5, <2>7, <2>8 DEF IInv, CallInv, CallsOf
  <2>10. MutexOf(x)
    BY DEF IInv, LockInv
  <2>11. CASE CancelAgain(p)
    <3>1. Kind(c) = "cancel" /\ err[c] # "none" /\ Outset(p)
      BY <2>6, <2>7, <2>8, <2>9, <2>11 DEF Returns, CancelAgain, CancelEnds, RemoveLooks, RemoveDeletes, Frm, Outset
    <3> QED
      BY <1>1, <1>2, <1>3, <2>5, <3>1 DEF OutsetInv
  <2>12. CASE RemoveLooks(p)
    <3>1. done[x] = "closed"
      BY <1>1, <2>6, <2>9, <2>12 DEF Returns, CancelAgain, CancelEnds, RemoveLooks, RemoveDeletes, Frm
    <3> QED
      BY <1>1, <1>3, <2>10, <3>1 DEF MutexOf
  <2>13. CASE RemoveDeletes(p)
    <3>1. PICK was \in {children[x], snap[p]} : children' = [children EXCEPT ![x] = was \ {c}]
      BY <1>1, <2>9, <2>13 DEF RemoveDeletes
    <3> QED
      BY <1>1, <1>t, <3>1
  <2> QED
    BY <2>6, <2>9, <2>11, <2>12, <2>13 DEF Returns
<1> QED
  BY <1>4, <1>5

-----------------------------------------------------------------------------
(* The invariant where the map is not raced, and the properties *)

(* RInv holds at the start. *)
LEMMA InitRInv == Init => RInv
<1> SUFFICES ASSUME Init PROVE RInv
  OBVIOUS
<1>1. /\ \A p \in Proc : pc[p] = "idle" /\ stack[p] = <<>>
      /\ \A c \in Ctx : err[c] = "none" /\ inTime[c] = {}
  BY DEF Init
<1>3. ASSUME NEW c \in Ctx
      PROVE  /\ pc[<<"make", c>>] = "idle" /\ pc[<<"cancel", c>>] = "idle"
             /\ stack[<<"make", c>>] = <<>> /\ stack[<<"cancel", c>>] = <<>>
  <2>1. <<"make", c>> \in Proc /\ <<"cancel", c>> \in Proc
    BY ProcFacts DEF Roles
  <2> QED
    BY <1>1, <2>1
<1>4. \A p \in Proc : Len(stack[p]) = 0
  BY <1>1
<1>5. ASSUME NEW c \in Ctx PROVE ~Working(c)
  <2>1. \A r \in {"make", "cancel"} : At(<<r, c>>, "idle")
    BY <1>3 DEF At
  <2> QED
    BY <2>1 DEF Working
<1>6. SerialInv
  BY <1>5 DEF SerialInv
<1>7. PendingInv
  BY <1>1 DEF PendingInv, Pending
<1>8. EnrolledInv
  BY <1>3 DEF EnrolledInv
<1>9. SeenInv /\ ReachInv
  BY <1>1, <1>4 DEF SeenInv, ReachInv, ReachOf, InTimeOf
<1>10. InheritInv /\ OutsetInv /\ CancelReleases
  BY <1>1, <1>3 DEF InheritInv, OutsetInv, CancelReleases, At
<1> QED
  BY <1>6, <1>7, <1>8, <1>9, <1>10 DEF RInv

(* Every step keeps it. *)
LEMMA NextRInv ==
  ASSUME Unraced PROVE IInv /\ IInv' /\ RInv /\ [Next]_vars => RInv'
<1> SUFFICES ASSUME IInv, IInv', RInv, [Next]_vars PROVE RInv'
  OBVIOUS
<1>1. CASE Next
  <2>1. tree' = tree /\ ((\E p \in Proc : cancel(p)) \/ (\E c \in Ctx : OwnStep(c)))
    BY <1>1, NextCases
  <2>2. Lasting
    BY <2>1, CancelLasting, OwnLasting
  <2>3. /\ SerialInv /\ PendingInv /\ EnrolledInv /\ SeenInv /\ ReachInv
        /\ InheritInv /\ OutsetInv /\ CancelReleases
    BY DEF RInv
  <2>4. Reaching
    BY <2>1, <2>2, <2>3 DEF Reaching
  <2>5. SerialInv' /\ PendingInv' /\ EnrolledInv' /\ SeenInv'
    BY <2>1, <2>2, <2>3, SerialStep, PendingStep, EnrolledStep, SeenStep
  <2>6. ReachInv'
    BY <2>3, <2>4, ReachStep
  <2>7. InheritInv' /\ OutsetInv' /\ CancelReleases'
    BY <2>1, <2>2, <2>3, InheritStep, OutsetStep, ReleaseStep
  <2> QED
    BY <2>5, <2>6, <2>7 DEF RInv
<1>2. CASE UNCHANGED vars
  BY <1>2 DEF vars, RInv, SerialInv, Working, At, PendingInv, Pending, EnrolledInv, SeenInv, ReachInv, ReachOf,
     ToReach, InTimeOf, InheritInv, OutsetInv, Outset, CancelReleases, Canceled, Parent, Kind
<1> QED
  BY <1>1, <1>2

(* The invariant of the tree of contexts whose maps of children are not raced. *)
THEOREM UnracedInvariance ==
  ASSUME Unraced PROVE Spec => []RInv
<1>1. IInv /\ IInv' /\ RInv /\ [Next]_vars => RInv'
  BY NextRInv
<1>2. Init => RInv
  BY InitRInv
<1> QED
  BY <1>1, <1>2, Invariance, PTL DEF Spec

(* When a cancel has released its context, every child made before it began is *)
(* cancelled too, and the done channel is closed.                              *)
THEOREM CancelReaches ==
  ASSUME Unraced PROVE Spec => []CancelReachesChildren
<1>1. IInv /\ RInv => CancelReachesChildren
  BY DEF IInv, LockInv, MutexOf, RInv, ReachInv, InTimeOf, CancelReachesChildren
<1>2. Spec => []RInv
  BY UnracedInvariance
<1> QED
  BY <1>1, <1>2, Invariance, PTL

(* A context whose cancel function returned is no longer among the children of *)
(* its parent, or the parent is cancelled.                                     *)
THEOREM CancelIsReleased ==
  ASSUME Unraced PROVE Spec => []CancelReleases
<1>1. RInv => CancelReleases
  BY DEF RInv
<1>2. Spec => []RInv
  BY UnracedInvariance
<1> QED
  BY <1>1, <1>2, PTL
=============================================================================

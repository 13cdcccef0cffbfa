------------------------- MODULE GoLifecycle_proofs -------------------------
(***************************************************************************)
(* Ids are unique, for any number of goroutines, Ps and any batch size.    *)
(* UniqueIds alone is not inductive: a P issues ids from its cache without *)
(* looking at anybody else, so what it may issue later must be known to be *)
(* free, which is CachesDisjoint.                                          *)
(***************************************************************************)
EXTENDS GoLifecycle, SequenceFacts

IInv == TypeOK /\ CachesDisjoint /\ UniqueIds

(* Before the first goroutine is created. *)
LEMMA InitIInv == Init => IInv
<1> SUFFICES ASSUME Init PROVE IInv
  OBVIOUS
<1>1. TypeOK
  BY LifecycleAssumption DEF Init, TypeOK, Everyone, Creator
<1>2. CachesDisjoint
  BY LifecycleAssumption DEF Init, CachesDisjoint, Everyone
<1>3. UniqueIds
  BY LifecycleAssumption DEF Init, UniqueIds, Everyone
<1> QED
  BY <1>1, <1>2, <1>3 DEF IInv

(* newproc1, the only action that issues an id. *)
LEMMA NewprocIInv ==
  ASSUME IInv, NEW c \in Creator, newproc1(c)
  PROVE  IInv'
<1> PICK g \in Goroutine :
      /\ TakeG(c, g)
      /\ assign_goid(c, g)
      /\ status' = [status EXCEPT ![g] = "alive"]
      /\ newg' = [newg EXCEPT ![c] = g]
  BY DEF newproc1
<1> USE LifecycleAssumption
<1>a. /\ g \in Everyone
      /\ g # NoG
      /\ c # Main => c \in Processor
  BY DEF Everyone, Creator
<1>0. TypeOK
  BY DEF IInv
<1>fr. g_free' \in [Processor -> Seq(Goroutine)]
  <2>0. g_free \in [Processor -> Seq(Goroutine)]
    BY <1>0 DEF TypeOK
  <2>1. CASE c # Main /\ g_free[c] # <<>>
    <3>1. c \in Processor /\ g_free' = [g_free EXCEPT ![c] = Tail(g_free[c])]
      BY <1>a, <2>1 DEF TakeG
    <3>2. Tail(g_free[c]) \in Seq(Goroutine)
      <4>1. g_free[c] \in Seq(Goroutine) /\ g_free[c] # <<>>
        BY <2>0, <2>1, <3>1
      <4> HIDE DEF TakeG
      <4> QED
        BY ONLY <4>1
    <3> QED
      BY ONLY <2>0, <3>1, <3>2
  <2>2. CASE ~(c # Main /\ g_free[c] # <<>>)
    BY ONLY <2>0, <2>2, TakeG(c, g) DEF TakeG
  <2> QED
    BY <2>1, <2>2
<1>st. /\ status' \in [Everyone -> {"none", "alive", "exiting", "dead"}]
       /\ newg' \in [Creator -> Goroutine \cup {NoG}]
       /\ allgs' \in Seq(Goroutine)
  BY <1>0, <1>a DEF TypeOK, newproc1
<1>b. /\ goid_gen \in Nat
      /\ \A p \in Processor : goid_cache[p] \in Nat /\ goid_cache_end[p] \in Nat
      /\ \A k \in Goroutine : id[k] \in Nat
  BY <1>0 DEF TypeOK, Everyone
<1>c. /\ \A p \in Processor : goid_cache_end[p] <= goid_gen
      /\ \A p, r \in Processor :
           p # r => \/ goid_cache_end[p] <= goid_cache[r]
                    \/ goid_cache_end[r] <= goid_cache[p]
                    \/ goid_cache[p] >= goid_cache_end[p]
                    \/ goid_cache[r] >= goid_cache_end[r]
      /\ \A k \in Goroutine : status[k] # "none" =>
           /\ id[k] < goid_gen
           /\ \A p \in Processor : id[k] < goid_cache[p] \/ goid_cache_end[p] <= id[k]
  BY DEF IInv, CachesDisjoint
<1>1. CASE HasCachedId(c)
  <2>0. c \in Processor /\ goid_cache[c] < goid_cache_end[c]
    BY <1>1, <1>a DEF HasCachedId
  <2>1. /\ id' = [id EXCEPT ![g] = goid_cache[c]]
        /\ goid_cache' = [goid_cache EXCEPT ![c] = @ + 1]
        /\ goid_gen' = goid_gen
        /\ goid_cache_end' = goid_cache_end
    BY <1>1 DEF assign_goid
  <2>2. TypeOK'
    BY <1>0, <1>a, <1>fr, <1>st, <2>0, <2>1 DEF TypeOK
  <2>a. \A k \in Goroutine : /\ id'[k] = IF k = g THEN goid_cache[c] ELSE id[k]
                             /\ status'[k] # "none" => k = g \/ status[k] # "none"
    BY <1>0, <1>a, <2>1 DEF TypeOK, Everyone
  <2>b. \A p \in Processor : /\ goid_cache'[p] = IF p = c THEN goid_cache[c] + 1 ELSE goid_cache[p]
                             /\ goid_cache_end'[p] = goid_cache_end[p]
    BY <1>0, <1>a, <2>1 DEF TypeOK
  <2>3. CachesDisjoint'
    <3>1. \A p \in Processor : goid_cache_end'[p] <= goid_gen'
      BY <1>b, <1>c, <2>0, <2>1, <2>b
    <3>2. ASSUME NEW p \in Processor, NEW r \in Processor, p # r
          PROVE  \/ goid_cache_end'[p] <= goid_cache'[r]
                 \/ goid_cache_end'[r] <= goid_cache'[p]
                 \/ goid_cache'[p] >= goid_cache_end'[p]
                 \/ goid_cache'[r] >= goid_cache_end'[r]
      BY <1>b, <1>c, <2>0, <2>b, <3>2
    <3>3. ASSUME NEW k \in Goroutine, status'[k] # "none"
          PROVE  /\ id'[k] < goid_gen'
                 /\ \A p \in Processor : id'[k] < goid_cache'[p] \/ goid_cache_end'[p] <= id'[k]
      <4>1. CASE k = g
        BY <1>b, <1>c, <2>0, <2>1, <2>a, <2>b, <4>1
      <4>2. CASE k # g
        BY <1>b, <1>c, <2>0, <2>1, <2>a, <2>b, <3>3, <4>2
      <4> QED
        BY <4>1, <4>2
    <3> QED
      BY <3>1, <3>2, <3>3 DEF CachesDisjoint
  <2>4. UniqueIds'
    <3> SUFFICES ASSUME NEW k \in Goroutine, NEW l \in Goroutine, k # l,
                        status'[k] # "none", status'[l] # "none"
                 PROVE  id'[k] # id'[l]
      BY DEF UniqueIds
    <3>1. CASE k # g /\ l # g
      BY <2>a, <3>1 DEF IInv, UniqueIds
    <3>2. CASE k = g \/ l = g
      BY <1>b, <1>c, <2>0, <2>a, <3>2
    <3> QED
      BY <3>1, <3>2
  <2> QED
    BY <2>2, <2>3, <2>4 DEF IInv
<1>2. CASE ~HasCachedId(c)
  <2>1. /\ id' = [id EXCEPT ![g] = goid_gen]
        /\ goid_gen' = goid_gen + batch
        /\ IF c = Main
           THEN UNCHANGED <<goid_cache, goid_cache_end>>
           ELSE /\ goid_cache' = [goid_cache EXCEPT ![c] = goid_gen + 1]
                /\ goid_cache_end' = [goid_cache_end EXCEPT ![c] = goid_gen + batch]
    BY <1>2 DEF assign_goid
  <2>2. TypeOK'
    <3>1. id' \in [Everyone -> Nat] /\ goid_gen' \in Nat
      BY <1>0, <1>a, <2>1 DEF TypeOK
    <3>2. goid_cache' \in [Processor -> Nat] /\ goid_cache_end' \in [Processor -> Nat]
      <4>0. /\ goid_gen \in Nat
            /\ goid_cache \in [Processor -> Nat]
            /\ goid_cache_end \in [Processor -> Nat]
        BY <1>0 DEF TypeOK
      <4>1. CASE c = Main
        BY <2>1, <4>0, <4>1
      <4>2. CASE c # Main
        <5>1. c \in Processor /\ goid_gen + 1 \in Nat /\ goid_gen + batch \in Nat
          BY <1>a, <4>0, <4>2
        <5> QED
          BY <2>1, <4>0, <4>2, <5>1
      <4> QED
        BY <4>1, <4>2
    <3> QED
      BY <1>fr, <1>st, <3>1, <3>2 DEF TypeOK
  <2>a. \A k \in Goroutine : /\ id'[k] = IF k = g THEN goid_gen ELSE id[k]
                             /\ status'[k] # "none" => k = g \/ status[k] # "none"
    BY <1>0, <1>a, <2>1 DEF TypeOK, Everyone
  <2>b. \A p \in Processor : /\ goid_cache'[p] = IF p = c THEN goid_gen + 1 ELSE goid_cache[p]
                             /\ goid_cache_end'[p] = IF p = c THEN goid_gen + batch ELSE goid_cache_end[p]
    BY <1>0, <1>a, <2>1 DEF TypeOK
  <2>3. CachesDisjoint'
    <3>1. \A p \in Processor : goid_cache_end'[p] <= goid_gen'
      BY <1>b, <1>c, <2>1, <2>b
    <3>2. ASSUME NEW p \in Processor, NEW r \in Processor, p # r
          PROVE  \/ goid_cache_end'[p] <= goid_cache'[r]
                 \/ goid_cache_end'[r] <= goid_cache'[p]
                 \/ goid_cache'[p] >= goid_cache_end'[p]
                 \/ goid_cache'[r] >= goid_cache_end'[r]
      BY <1>b, <1>c, <2>b, <3>2
    <3>3. ASSUME NEW k \in Goroutine, status'[k] # "none"
          PROVE  /\ id'[k] < goid_gen'
                 /\ \A p \in Processor : id'[k] < goid_cache'[p] \/ goid_cache_end'[p] <= id'[k]
      <4>1. CASE k = g
        BY <1>b, <1>c, <2>1, <2>a, <2>b, <4>1
      <4>2. CASE k # g
        BY <1>b, <1>c, <2>1, <2>a, <2>b, <3>3, <4>2
      <4> QED
        BY <4>1, <4>2
    <3> QED
      BY <3>1, <3>2, <3>3 DEF CachesDisjoint
  <2>4. UniqueIds'
    <3> SUFFICES ASSUME NEW k \in Goroutine, NEW l \in Goroutine, k # l,
                        status'[k] # "none", status'[l] # "none"
                 PROVE  id'[k] # id'[l]
      BY DEF UniqueIds
    <3>1. CASE k # g /\ l # g
      BY <2>a, <3>1 DEF IInv, UniqueIds
    <3>2. CASE k = g \/ l = g
      BY <1>b, <1>c, <2>a, <3>2
    <3> QED
      BY <3>1, <3>2
  <2> QED
    BY <2>2, <2>3, <2>4 DEF IInv
<1> QED
  BY <1>1, <1>2

(* The other actions leave ids and caches alone, and allocate nothing. *)
LEMMA OtherIInv ==
  ASSUME IInv,
         \/ \E c \in Creator : newproc1_track(c)
         \/ \E g \in Goroutine : goexit0(g) \/ \E p \in Processor : gfput(p, g)
         \/ UNCHANGED vars
  PROVE  IInv'
<1> USE LifecycleAssumption
<1>0. TypeOK
  BY DEF IInv
<1>1. UNCHANGED <<id, goid_gen, goid_cache, goid_cache_end>>
  BY DEF newproc1_track, goexit0, gfput, vars
<1>2. \A g \in Goroutine : status'[g] # "none" => status[g] # "none"
  BY <1>0 DEF newproc1_track, goexit0, gfput, vars, TypeOK, Everyone
<1>3. TypeOK'
  <2>1. CASE \E c \in Creator : newproc1_track(c)
    BY <1>0, <2>1 DEF TypeOK, newproc1_track
  <2>2. CASE \E g \in Goroutine : goexit0(g)
    BY <1>0, <2>2 DEF TypeOK, goexit0, Everyone
  <2>3. CASE \E g \in Goroutine, p \in Processor : gfput(p, g)
    BY <1>0, <2>3 DEF TypeOK, gfput, Everyone
  <2>4. CASE UNCHANGED vars
    BY <1>0, <2>4 DEF TypeOK, vars
  <2> QED
    BY <2>1, <2>2, <2>3, <2>4
<1>4. CachesDisjoint'
  BY <1>0, <1>1, <1>2 DEF IInv, CachesDisjoint, TypeOK
<1>5. UniqueIds'
  BY <1>0, <1>1, <1>2 DEF IInv, UniqueIds, TypeOK
<1> QED
  BY <1>3, <1>4, <1>5 DEF IInv

-----------------------------------------------------------------------------
(* The free lists *)

(* The free lists hold the dead goroutines, each once, before and after p has *)
(* taken one off or put one on its own.                                       *)
LEMMA FreeListChange ==
  ASSUME TypeOK, FreeMeansDead, NEW p \in Processor, NEW S,
         IsInjective(g_free'[p]), Range(g_free'[p]) = S,
         \A r \in Processor \ {p} : g_free'[r] = g_free[r] /\ S \cap Range(g_free[r]) = {},
         {g \in Goroutine : status'[g] = "dead"}
           = ({g \in Goroutine : status[g] = "dead"} \ Range(g_free[p])) \cup S
  PROVE  FreeMeansDead'
<1>1. \A r \in Processor : IsInjective(g_free'[r])
  BY DEF FreeMeansDead
<1>2. \A r, q \in Processor : r # q => Range(g_free'[r]) \cap Range(g_free'[q]) = {}
  <2>1. ASSUME NEW r \in Processor, NEW q \in Processor, r # q
        PROVE  Range(g_free'[r]) \cap Range(g_free'[q]) = {}
    <3>1. CASE r = p
      BY <2>1, <3>1
    <3>2. CASE q = p
      BY <2>1, <3>2
    <3>3. CASE r # p /\ q # p
      BY <2>1, <3>3 DEF FreeMeansDead
    <3> QED
      BY <3>1, <3>2, <3>3
  <2> QED
    BY <2>1
<1>3. UNION {Range(g_free'[r]) : r \in Processor}
        = S \cup UNION {Range(g_free[r]) : r \in Processor \ {p}}
  OBVIOUS
<1>4. UNION {Range(g_free[r]) : r \in Processor \ {p}}
        = {g \in Goroutine : status[g] = "dead"} \ Range(g_free[p])
  <2>1. /\ UNION {Range(g_free[r]) : r \in Processor} = {g \in Goroutine : status[g] = "dead"}
        /\ \A r \in Processor \ {p} : Range(g_free[r]) \cap Range(g_free[p]) = {}
    BY DEF FreeMeansDead
  <2> QED
    BY <2>1
<1> QED
  BY <1>1, <1>2, <1>3, <1>4 DEF FreeMeansDead

(* gfget takes the first of the list of its P, which lives again; a fresh goroutine *)
(* was on no list.                                                                  *)
LEMMA NewprocFree ==
  ASSUME TypeOK, FreeMeansDead, NEW c \in Creator, newproc1(c)
  PROVE  FreeMeansDead'
<1>1. PICK g \in Goroutine : TakeG(c, g) /\ status' = [status EXCEPT ![g] = "alive"]
  BY DEF newproc1
<1> DEFINE Dead == {k \in Goroutine : status[k] = "dead"}
           Dead1 == {k \in Goroutine : status'[k] = "dead"}
<1>2. Dead1 = Dead \ {g}
  BY <1>1 DEF TypeOK, Everyone
<1>3. CASE c # Main /\ g_free[c] # <<>>
  <2>1. c \in Processor /\ g_free[c] \in Seq(Goroutine) /\ IsInjective(g_free[c])
    BY <1>3 DEF Creator, TypeOK, FreeMeansDead
  <2>2. g = Head(g_free[c]) /\ g_free' = [g_free EXCEPT ![c] = Tail(g_free[c])]
    BY <1>1, <1>3 DEF TakeG
  <2>3. /\ Range(g_free[c]) = Range(Tail(g_free[c])) \cup {g}
        /\ IsInjective(Tail(g_free[c])) /\ g \notin Range(Tail(g_free[c]))
    BY <1>3, <2>1, <2>2, HeadTailFacts
  <2>4. g_free'[c] = Tail(g_free[c]) /\ \A r \in Processor \ {c} : g_free'[r] = g_free[r]
    BY <2>1, <2>2 DEF TypeOK
  <2> DEFINE S == Range(Tail(g_free[c]))
  <2>5. \A r \in Processor \ {c} : S \cap Range(g_free[r]) = {}
    BY <2>1, <2>3 DEF FreeMeansDead
  <2>6. Range(g_free[c]) \subseteq Dead
    BY <2>1 DEF FreeMeansDead
  <2>7. Dead1 = (Dead \ Range(g_free[c])) \cup S
    BY <1>2, <2>3, <2>6
  <2> HIDE DEF S
  <2>8. IsInjective(g_free'[c]) /\ Range(g_free'[c]) = S
    BY <2>3, <2>4 DEF S
  <2> QED
    BY <2>1, <2>4, <2>5, <2>7, <2>8, FreeListChange
<1>4. CASE ~(c # Main /\ g_free[c] # <<>>)
  <2>1. status[g] = "none" /\ g_free' = g_free
    BY <1>1, <1>4 DEF TakeG
  <2>2. Dead1 = Dead
    BY <1>2, <2>1
  <2> QED
    BY <2>1, <2>2 DEF FreeMeansDead
<1> QED
  BY <1>3, <1>4

(* gfput puts a goroutine on a list that was on none, because it was not dead yet; *)
(* goexit0 and the append to allgs leave the lists and the dead alone.             *)
LEMMA OtherFree ==
  ASSUME TypeOK, FreeMeansDead,
         \/ \E c \in Creator : newproc1_track(c)
         \/ \E g \in Goroutine : goexit0(g) \/ \E p \in Processor : gfput(p, g)
         \/ UNCHANGED vars
  PROVE  FreeMeansDead'
<1> DEFINE Dead == {k \in Goroutine : status[k] = "dead"}
           Dead1 == {k \in Goroutine : status'[k] = "dead"}
<1>1. CASE \/ \E c \in Creator : newproc1_track(c)
           \/ \E g \in Goroutine : goexit0(g)
           \/ UNCHANGED vars
  <2>1. g_free' = g_free /\ Dead1 = Dead
    BY <1>1 DEF newproc1_track, goexit0, vars, TypeOK, Everyone
  <2> QED
    BY <2>1 DEF FreeMeansDead
<1>2. ASSUME NEW g \in Goroutine, NEW p \in Processor, gfput(p, g)
      PROVE  FreeMeansDead'
  <2>1. /\ status[g] = "exiting" /\ status' = [status EXCEPT ![g] = "dead"]
        /\ g_free' = [g_free EXCEPT ![p] = <<g>> \o g_free[p]]
    BY <1>2 DEF gfput
  <2>2. Dead1 = Dead \cup {g} /\ g \notin Dead
    BY <2>1 DEF TypeOK, Everyone
  <2>3. \A r \in Processor : g \notin Range(g_free[r]) /\ Range(g_free[r]) \subseteq Dead
    BY <2>2 DEF FreeMeansDead
  <2>4. g_free[p] \in Seq(Goroutine) /\ IsInjective(g_free[p])
    BY DEF TypeOK, FreeMeansDead
  <2> DEFINE u == <<g>>
             s == u \o g_free[p]
  <2>5. u \in Seq(Goroutine) /\ Range(u) = {g} /\ IsInjective(u)
    BY UnitFacts
  <2> HIDE DEF u
  <2>6. Range(s) = {g} \cup Range(g_free[p]) /\ IsInjective(s)
    BY <2>3, <2>4, <2>5, ConcatFacts
  <2>7. g_free'[p] = s /\ \A r \in Processor \ {p} : g_free'[r] = g_free[r]
    BY <2>1 DEF TypeOK, u
  <2> HIDE DEF s
  <2> DEFINE S == {g} \cup Range(g_free[p])
  <2>8. \A r \in Processor \ {p} : S \cap Range(g_free[r]) = {}
    BY <2>3 DEF FreeMeansDead
  <2>9. Dead1 = (Dead \ Range(g_free[p])) \cup S
    BY <2>2, <2>3
  <2> HIDE DEF S
  <2>10. IsInjective(g_free'[p]) /\ Range(g_free'[p]) = S
    BY <2>6, <2>7 DEF S
  <2> QED
    BY <2>7, <2>8, <2>9, <2>10, FreeListChange
<1> QED
  BY <1>1, <1>2

-----------------------------------------------------------------------------
(* The theorems *)

(* The inductive invariant of the id caches. *)
THEOREM Invariance == Spec => []IInv
<1>1. IInv /\ [Next]_vars => IInv'
  BY NewprocIInv, OtherIInv DEF Next
<1> QED
  BY InitIInv, <1>1, PTL DEF Spec

(* newproc1 never gives two goroutines the same id (assign_goid,           *)
(* scheduler.v:681), whatever their number and that of the Ps.             *)
THEOREM IdsUnique == Spec => []UniqueIds
<1>1. IInv => UniqueIds
  BY DEF IInv
<1> QED
  BY Invariance, <1>1, PTL

(* The types of the lifecycle's state. *)
THEOREM LifecycleTypes == Spec => []TypeOK
<1>1. IInv => TypeOK
  BY DEF IInv
<1> QED
  BY Invariance, <1>1, PTL

(* What assign_goid (scheduler.v:681) relies on when it takes an id from the   *)
(* cache of its P without looking at anybody else: nobody has it, and no other *)
(* P will give it away.                                                        *)
THEOREM CachesStayDisjoint == Spec => []CachesDisjoint
<1>1. IInv => CachesDisjoint
  BY DEF IInv
<1> QED
  BY Invariance, <1>1, PTL

(* A goroutine is reused only when it is dead and its stack is no longer in use   *)
(* ("Reuse must wait until the scheduler is no longer running on this G's stack", *)
(* scheduler.v:130): the free lists hold every dead goroutine, once, and no other.*)
THEOREM FreeListsHoldTheDead == Spec => []FreeMeansDead
<1>1. Init => FreeMeansDead
  <2>1. Range(<<>>) = {} /\ IsInjective(<<>>)
    BY DEF Range, IsInjective
  <2> SUFFICES ASSUME Init PROVE FreeMeansDead
    OBVIOUS
  <2>2. /\ \A p \in Processor : g_free[p] = <<>>
        /\ \A g \in Goroutine : status[g] = "none"
    BY LifecycleAssumption DEF Init, Everyone
  <2> QED
    BY <2>1, <2>2 DEF FreeMeansDead
<1>2. TypeOK /\ FreeMeansDead /\ [Next]_vars => FreeMeansDead'
  BY NewprocFree, OtherFree DEF Next
<1> QED
  BY <1>1, <1>2, LifecycleTypes, PTL DEF Spec
=============================================================================

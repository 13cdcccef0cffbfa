---------------------------- MODULE GoLifecycle ----------------------------
(***************************************************************************)
(* Identity and reuse of goroutines (vlib/goroutines/scheduler.v newproc1, *)
(* gfput, gfget, assign_goid, goexit0; init.v init): a creator            *)
(* takes a dead Goroutine from the free list of its P or allocates one,    *)
(* gives it an id from the id cache of its P or from the global counter,   *)
(* and appends it to allgs.                                                *)
(*                                                                         *)
(* A creator is the M that holds a P, named by that P, or the main thread, *)
(* which has no P and so neither a free list (nothing is ever put on the   *)
(* global one) nor a cache.  A goroutine is alive from newproc1 to         *)
(* goexit0; what it does in between is GoSched's subject.                  *)
(***************************************************************************)
EXTENDS Integers, Sequences, SequencesExt

CONSTANTS Goroutine, NoG, main_g,
          Processor,
          Main,      \* the main thread
          batch,     \* ids a refill takes from the global counter (16)
          MaxId      \* bound: refills take ids up to MaxId

ASSUME LifecycleAssumption ==
  /\ NoG \notin Goroutine
  /\ main_g \notin Goroutine
  /\ Main \notin Processor
  /\ batch \in Nat \ {0}
  /\ MaxId \in Nat

Creator == Processor \cup {Main}

VARIABLES status,          \* "none" before it is allocated
          id,
          goid_gen,
          goid_cache, goid_cache_end,  \* of a P
          g_free,          \* g_free[p]: the free list of p, its head first
          allgs,
          newg             \* newg[c]: the goroutine newproc1 has not yet appended to allgs

vars == <<status, id, goid_gen, goid_cache, goid_cache_end, g_free, allgs, newg>>

Everyone == Goroutine \cup {main_g}

TypeOK ==
  /\ status \in [Everyone -> {"none", "alive", "exiting", "dead"}]
  /\ id \in [Everyone -> Nat]
  /\ goid_gen \in Nat
  /\ goid_cache \in [Processor -> Nat]
  /\ goid_cache_end \in [Processor -> Nat]
  /\ g_free \in [Processor -> Seq(Goroutine)]
  /\ allgs \in Seq(Goroutine)
  /\ newg \in [Creator -> Goroutine \cup {NoG}]

(* init: the main goroutine has id 0, and goid_gen is 0. *)
Init ==
  /\ status = [g \in Everyone |-> IF g = main_g THEN "alive" ELSE "none"]
  /\ id = [g \in Everyone |-> 0]
  /\ goid_gen = 0
  /\ goid_cache = [p \in Processor |-> 0]
  /\ goid_cache_end = [p \in Processor |-> 0]
  /\ g_free = [p \in Processor |-> <<>>]
  /\ allgs = <<>>
  /\ newg = [c \in Creator |-> NoG]

-----------------------------------------------------------------------------
(* gfget on a P that has dead goroutines, else a fresh allocation. *)
TakeG(c, g) ==
  IF c # Main /\ g_free[c] # <<>>
  THEN g = Head(g_free[c]) /\ g_free' = [g_free EXCEPT ![c] = Tail(@)]
  ELSE status[g] = "none" /\ g_free' = g_free

(* Mutant: the cache is taken to hold one id more than it does. *)
HasCachedId_offByOne(c) == c # Main /\ goid_cache[c] <= goid_cache_end[c]

HasCachedId(c) == c # Main /\ goid_cache[c] < goid_cache_end[c]

(* assign_goid: the next id of the P's cache; else the global counter moves *)
(* on by a batch, whose first id is used and whose rest goes to the cache.  *)
assign_goid(c, g) ==
  IF HasCachedId(c)
  THEN /\ id' = [id EXCEPT ![g] = goid_cache[c]]
       /\ goid_cache' = [goid_cache EXCEPT ![c] = @ + 1]
       /\ UNCHANGED <<goid_gen, goid_cache_end>>
  ELSE /\ goid_gen + batch <= MaxId
       /\ id' = [id EXCEPT ![g] = goid_gen]
       /\ goid_gen' = goid_gen + batch
       /\ IF c = Main
          THEN UNCHANGED <<goid_cache, goid_cache_end>>
          ELSE /\ goid_cache' = [goid_cache EXCEPT ![c] = goid_gen + 1]
               /\ goid_cache_end' = [goid_cache_end EXCEPT ![c] = goid_gen + batch]

newproc1(c) ==
  /\ newg[c] = NoG
  /\ \E g \in Goroutine :
       /\ TakeG(c, g)
       /\ assign_goid(c, g)
       /\ status' = [status EXCEPT ![g] = "alive"]
       /\ newg' = [newg EXCEPT ![c] = g]
  /\ UNCHANGED allgs

(* Mutant: the pointer is cleared before it is appended. *)
newproc1_track_swapped(c) ==
  /\ newg[c] # NoG
  /\ newg' = [newg EXCEPT ![c] = NoG]
  /\ allgs' = Append(allgs, newg'[c])
  /\ UNCHANGED <<status, id, goid_gen, goid_cache, goid_cache_end, g_free>>

(* The end of newproc1, under allgs_mu; the goroutine can run from now on. *)
newproc1_track(c) ==
  /\ newg[c] # NoG
  /\ allgs' = Append(allgs, newg[c])
  /\ newg' = [newg EXCEPT ![c] = NoG]
  /\ UNCHANGED <<status, id, goid_gen, goid_cache, goid_cache_end, g_free>>

(* Mutant: goexit0 itself puts the goroutine on the free list. *)
goexit0_frees(g) ==
  /\ status[g] = "alive"
  /\ g # main_g
  /\ \A c \in Creator : newg[c] # g
  /\ status' = [status EXCEPT ![g] = "exiting"]
  /\ \E p \in Processor : g_free' = [g_free EXCEPT ![p] = <<g>> \o @]
  /\ UNCHANGED <<id, goid_gen, goid_cache, goid_cache_end, allgs, newg>>

(* The function returns: the status is dead from now on, though the         *)
(* goroutine's stack is in use until the thread has switched away.          *)
goexit0(g) ==
  /\ status[g] = "alive"
  /\ g # main_g
  /\ \A c \in Creator : newg[c] # g
  /\ status' = [status EXCEPT ![g] = "exiting"]
  /\ UNCHANGED <<id, goid_gen, goid_cache, goid_cache_end, g_free, allgs, newg>>

(* The scheduler of the M it ran on puts it on the free list of its P. *)
gfput(p, g) ==
  /\ status[g] = "exiting"
  /\ status' = [status EXCEPT ![g] = "dead"]
  /\ g_free' = [g_free EXCEPT ![p] = <<g>> \o @]
  /\ UNCHANGED <<id, goid_gen, goid_cache, goid_cache_end, allgs, newg>>

Next ==
  \/ \E c \in Creator : newproc1(c) \/ newproc1_track(c)
  \/ \E g \in Goroutine : goexit0(g) \/ \E p \in Processor : gfput(p, g)

Spec == Init /\ [][Next]_vars

-----------------------------------------------------------------------------
(* Properties *)

(* What the id caches rest on: the unissued ids of two Ps never overlap, no *)
(* goroutine has an id that is still in a cache, and the global counter is  *)
(* above everything issued or cached.                                       *)
CachesDisjoint ==
  /\ \A p \in Processor : goid_cache_end[p] <= goid_gen
  /\ \A p, r \in Processor :
       p # r => \/ goid_cache_end[p] <= goid_cache[r]
                \/ goid_cache_end[r] <= goid_cache[p]
                \/ goid_cache[p] >= goid_cache_end[p]
                \/ goid_cache[r] >= goid_cache_end[r]
  /\ \A g \in Goroutine : status[g] # "none" =>
       /\ id[g] < goid_gen
       /\ \A p \in Processor : id[g] < goid_cache[p] \/ goid_cache_end[p] <= id[g]

(* Two goroutines created by newproc1 never have the same id, not even a    *)
(* dead one and its successor elsewhere: "assign_goid allocates a unique    *)
(* goroutine ID" (scheduler.v:681).                                         *)
UniqueIds ==
  \A g, k \in Goroutine :
    g # k /\ status[g] # "none" /\ status[k] # "none" => id[g] # id[k]

(* A goroutine is on at most one free list, once, and only when it is dead  *)
(* and its stack is no longer in use ("Reuse must wait until the scheduler  *)
(* is no longer running on this G's stack", scheduler.v:130).               *)
FreeMeansDead ==
  /\ \A p \in Processor : IsInjective(g_free[p])
  /\ \A p, r \in Processor : p # r => Range(g_free[p]) \cap Range(g_free[r]) = {}
  /\ UNION {Range(g_free[p]) : p \in Processor} = {g \in Goroutine : status[g] = "dead"}
=============================================================================

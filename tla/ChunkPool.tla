----------------------------- MODULE ChunkPool -----------------------------
(***************************************************************************)
(* The pool of chunk blocks behind every archetype (ecs/ChunkPool.hpp,     *)
(* ecs/ChunkPool.cpp).  A pool is a record: the free list in push order,   *)
(* and the blocks operator new has handed out and nobody has deleted.      *)
(*                                                                         *)
(* released_at_tick is kept relative to current_tick_: a cached block has  *)
(* an age, 0 when it is released, one more at every advance_tick.          *)
(***************************************************************************)
EXTENDS Naturals, SequencesExt

CONSTANTS
  Block,          \* block addresses: bound of the model on the blocks alive at once
  MaxPoolSize,    \* MAX_POOL_SIZE
  AgeThreshold    \* AGE_THRESHOLD_TICKS

ASSUME PoolAssumption ==
  /\ Block \subseteq Nat /\ IsFiniteSet(Block)
  /\ MaxPoolSize \in Nat
  /\ AgeThreshold \in Nat

Pool(free, live) == [free |-> free, live |-> live]
EmptyPool == Pool(<<>>, {})

(* acquire: the block it hands out, and the pool after it.  operator new    *)
(* may return any address that is not in use; the model takes the smallest, *)
(* which reuses a deleted address as early as possible.                     *)
NextBlock(p) == IF p.free = <<>> THEN Min(Block \ p.live) ELSE Last(p.free).block

Acquire(p) ==
  IF p.free = <<>> THEN Pool(<<>>, p.live \cup {NextBlock(p)})
  ELSE Pool(Front(p.free), p.live)

CanAcquire(p, n) == Len(p.free) + Cardinality(Block \ p.live) >= n

Release(p, b) ==
  IF Len(p.free) >= MaxPoolSize THEN Pool(p.free, p.live \ {b})
  ELSE Pool(Append(p.free, [block |-> b, age |-> 0]), p.live)

SwapPop(free, i) == [k \in 1 .. Len(free) - 1 |-> IF k = i THEN Last(free) ELSE free[k]]

(* One turn of the loop of advance_tick: an old block is deleted and the    *)
(* last one takes its place, which is looked at next.                       *)
SweepStep(s) ==
  LET f == s.pool.free
  IN  IF f[s.at].age <= AgeThreshold THEN [at |-> s.at + 1, pool |-> s.pool]
      ELSE [at |-> s.at, pool |-> Pool(SwapPop(f, s.at), s.pool.live \ {f[s.at].block})]

(* advance_tick: every turn either deletes a block or steps over one. *)
AdvanceTick(p) ==
  LET older == Pool([k \in DOMAIN p.free |-> [p.free[k] EXCEPT !.age = @ + 1]], p.live)
  IN  FoldLeft(LAMBDA s, k : SweepStep(s), [at |-> 1, pool |-> older], p.free).pool

(* ~ChunkPool deletes what is cached. *)
DestroyPool(p) == Pool(<<>>, p.live \ {p.free[k].block : k \in DOMAIN p.free})
=============================================================================

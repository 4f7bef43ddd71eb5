----------------------------- MODULE MCIdentity -----------------------------
(* What a World owns besides its storage, in two parts, one chosen at the    *)
(* start while the other keeps still: its identity layer, with two slots and *)
(* three generations, so that slots are reused and generations wrap; and its *)
(* worker pool, which it builds and destroys.                                *)
EXTENDS IdentitySnapshot, EcsThreadPool

VARIABLE part

WorldInit == part \in {"identity", "pool"} /\ IdentityInit /\ PoolInit

WorldNext ==
  /\ UNCHANGED part
  /\ \/ part = "identity" /\ IdentityNext /\ UNCHANGED poolVars
     \/ part = "pool" /\ PoolNext /\ UNCHANGED identityVars

(* The pool keeps the fairness of its module. *)
WorldFairness ==
  /\ \A t \in Threads : WF_poolVars(part = "pool" /\ CallerStep(t))
  /\ \A w \in Workers : WF_poolVars(part = "pool" /\ WorkerStep(w))
  /\ WF_poolVars(part = "pool" /\ OwnerStep)

WorldSpec == WorldInit /\ [][WorldNext]_<<part, identityVars, poolVars>> /\ WorldFairness
=============================================================================

---------------------------- MODULE MCCachedRefs ----------------------------
(* The instance on which a stable version hides a moved component. *)
EXTENDS CachedRefs

TwoComponents == {1, 64}
Sizes == (1 :> 2) @@ (64 :> 4)
Alignments == (1 :> 2) @@ (64 :> 4)
SomeCreations == {[sig |-> {1}, immutable |-> FALSE]}
SomeBlocks == 1 .. 4
=============================================================================

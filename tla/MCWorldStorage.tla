--------------------------- MODULE MCWorldStorage ---------------------------
(* Instances of the storage model for TLC. *)
EXTENDS WorldStorage

(* Ids 1 and 64 share a bit of the prefilter; 2 is a tag. *)
SmallComponents == {1, 2, 64}
Sizes == (1 :> 2) @@ (2 :> 0) @@ (64 :> 4)
Alignments == (1 :> 2) @@ (2 :> 1) @@ (64 :> 4)
SomeCreations == {[sig |-> {1, 64}, immutable |-> FALSE], [sig |-> {1}, immutable |-> TRUE]}
SomeQueries == {[require |-> {1}, exclude |-> {64}]}
SomeBlocks == 1 .. 3
=============================================================================

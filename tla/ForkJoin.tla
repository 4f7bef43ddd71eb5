------------------------------ MODULE ForkJoin ------------------------------
(***************************************************************************)
(* What a blocking dispatch promises its caller (the invariants listed at  *)
(* the head of ecs/EcsThreadPool.hpp): the body runs exactly once for each *)
(* chunk, in no particular order, and the call returns after the last one. *)
(***************************************************************************)
EXTENDS Integers

CONSTANTS Threads, MaxChunks

VARIABLES
  active,       \* the threads inside a dispatch
  runs          \* per thread, how often the body has run for each of its chunks

fjVars == <<active, runs>>

NoChunks == [c \in {} |-> 0]

AllRan(r) == \A c \in DOMAIN r : r[c] = 1

FJInit ==
  /\ active = {}
  /\ runs = [t \in Threads |-> NoChunks]

Fork(t, n) ==
  /\ t \notin active
  /\ active' = active \cup {t}
  /\ runs' = [runs EXCEPT ![t] = [c \in 1 .. n |-> 0]]

RunChunk(t, c) ==
  /\ c \in DOMAIN runs[t]
  /\ runs[t][c] = 0
  /\ runs' = [runs EXCEPT ![t][c] = 1]
  /\ UNCHANGED active

Join(t) ==
  /\ t \in active
  /\ AllRan(runs[t])
  /\ active' = active \ {t}
  /\ runs' = [runs EXCEPT ![t] = NoChunks]

(* The last chunk of an inline dispatch runs in the step that returns. *)
RunLastAndJoin(t) ==
  /\ t \in active
  /\ \E c \in DOMAIN runs[t] : runs[t][c] = 0 /\ AllRan([runs[t] EXCEPT ![c] = 1])
  /\ active' = active \ {t}
  /\ runs' = [runs EXCEPT ![t] = NoChunks]

FJNext ==
  \E t \in Threads :
    \/ \E n \in 0 .. MaxChunks : Fork(t, n)
    \/ \E c \in 1 .. MaxChunks : RunChunk(t, c)
    \/ Join(t)
    \/ RunLastAndJoin(t)

FJSpec == FJInit /\ [][FJNext]_fjVars
=============================================================================

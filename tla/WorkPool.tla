------------------------------ MODULE WorkPool ------------------------------
(***************************************************************************)
(* The worker pool of the game instance (utility/ThreadPool.hpp, .cpp): a  *)
(* tick is a fixed sequence of phases, and each phase is one process_work  *)
(* over all the countries, provinces or goods.  They are dealt out to work *)
(* bundles once and for all, and the bundles to the threads, so that which *)
(* random number generator an item draws from does not depend on how many  *)
(* threads there are.                                                      *)
(*                                                                         *)
(* A critical section is one step, with the notification that the code     *)
(* issues before unlocking; the test of is_cancellation_requested at the   *)
(* head of the loop is made without the mutex and may read an old value.   *)
(***************************************************************************)
EXTENDS Integers, SequencesExt

CONSTANTS
  Owner,              \* the thread that runs the game
  WORK_BUNDLE_COUNT,
  MaxHardware,        \* bound of the model on hardware_concurrency()
  MaxItems,           \* bound of the model on the items of a kind
  ItemKinds,              \* the kinds of item: countries, provinces, goods
  Phases              \* the kinds processed by a tick, in order

NONE == "none"

ASSUME WorkAssumption ==
  /\ WORK_BUNDLE_COUNT \in Nat \ {0}
  /\ MaxHardware \in Nat /\ MaxItems \in Nat
  /\ Phases \in Seq(ItemKinds) \ {<<>>} /\ NONE \notin ItemKinds

VARIABLES
  items,              \* how many items there are of each kind
  threads,            \* threads.size(), 0 before initialise_threadpool
  work_per_thread,    \* per thread, the kind to process or NONE
  worker,             \* per thread, where it is in loop_until_cancelled
  todo,               \* per thread, the items left of its bundles
  active_work_count,
  is_cancellation_requested,
  caller,             \* where the owner is: in a dispatch, or destroying the pool
  work_phase,         \* the phases of this tick that have been started
  drawn               \* history: per bundle, the items of this phase in the
                      \* order in which they drew from its generator

workVars == <<items, threads, work_per_thread, worker, todo, active_work_count,
              is_cancellation_requested, caller, work_phase, drawn>>

Bundles == 1 .. WORK_BUNDLE_COUNT
Workers == 1 .. threads

-----------------------------------------------------------------------------
(* Dealing n things out to so many parts, in order: std::ldiv, with the     *)
(* remainder spread over the first parts.                                   *)

ChunkSize(n, parts, i) == n \div parts + IF i <= n % parts THEN 1 ELSE 0

(* A mutant: the remainder goes to one part too many. *)
ChunkBeginOverlapping(n, parts) ==
  LET begin[i \in 1 .. parts] ==
        IF i = 1 THEN 0 ELSE begin[i - 1] + n \div parts
  IN  begin

ChunkBegin(n, parts) ==
  LET begin[i \in 1 .. parts] ==
        IF i = 1 THEN 0 ELSE begin[i - 1] + ChunkSize(n, parts, i - 1)
  IN  begin

Chunk(n, parts, i) == [k \in 1 .. ChunkSize(n, parts, i) |-> ChunkBegin(n, parts)[i] + k]

(* A mutant: the items are dealt out to the threads, not to the bundles. *)
ItemsOfByThread(kind, b) == IF b <= threads THEN Chunk(items[kind], threads, b) ELSE <<>>

ItemsOf(kind, b) == Chunk(items[kind], WORK_BUNDLE_COUNT, b)

(* The items of the bundles of thread w, each with its bundle. *)
WorkOf(w, kind) ==
  LET bundles == Chunk(WORK_BUNDLE_COUNT, threads, w)
      Of(b) == [k \in DOMAIN ItemsOf(kind, b) |-> <<b, ItemsOf(kind, b)[k]>>]
  IN  FlattenSeq([j \in DOMAIN bundles |-> Of(bundles[j])])

-----------------------------------------------------------------------------
InitWork ==
  /\ items \in [ItemKinds -> 0 .. MaxItems]
  /\ threads = 0
  /\ work_per_thread = <<>>
  /\ worker = <<>>
  /\ todo = <<>>
  /\ active_work_count = 0
  /\ is_cancellation_requested = FALSE
  /\ caller = "idle"
  /\ work_phase = 0
  /\ drawn = [b \in Bundles |-> <<>>]

(* initialise_threadpool: refused once there are threads. *)
Initialise(hardware) ==
  LET n == IF hardware = 0 THEN 1
           ELSE IF hardware < WORK_BUNDLE_COUNT THEN hardware ELSE WORK_BUNDLE_COUNT
  IN  /\ caller = "idle" /\ threads = 0
      /\ threads' = n
      /\ work_per_thread' = [w \in 1 .. n |-> NONE]
      /\ worker' = [w \in 1 .. n |-> "test"]
      /\ todo' = [w \in 1 .. n |-> <<>>]
      /\ UNCHANGED <<items, active_work_count, is_cancellation_requested, caller, work_phase, drawn>>

Wake == [w \in Workers |-> IF worker[w] = "asleep" THEN "ready" ELSE worker[w]]

(* process_work up to await_completion, for the next phase of the tick. *)
ProcessWork ==
  /\ caller = "idle" /\ threads > 0
  /\ work_phase' = (work_phase % Len(Phases)) + 1
  /\ active_work_count' = threads
  /\ work_per_thread' = [w \in Workers |-> Phases[work_phase']]
  /\ worker' = Wake
  /\ caller' = "check"
  /\ drawn' = [b \in Bundles |-> <<>>]
  /\ UNCHANGED <<items, threads, todo, is_cancellation_requested>>

(* The predicate of the wait in await_completion. *)
AwaitCompletion ==
  /\ caller = "check"
  /\ caller' = IF active_work_count = 0 THEN "idle" ELSE "asleep"
  /\ UNCHANGED <<items, threads, work_per_thread, worker, todo, active_work_count,
                 is_cancellation_requested, work_phase, drawn>>

-----------------------------------------------------------------------------
(* loop_until_cancelled *)

TestCancellation(w) ==
  /\ worker[w] = "test"
  /\ \E read \in {FALSE, is_cancellation_requested} :
       worker' = [worker EXCEPT ![w] = IF read THEN "exited" ELSE "ready"]
  /\ UNCHANGED <<items, threads, work_per_thread, todo, active_work_count,
                 is_cancellation_requested, caller, work_phase, drawn>>

Sleep(w) ==
  /\ worker[w] = "ready"
  /\ ~is_cancellation_requested /\ work_per_thread[w] = NONE
  /\ worker' = [worker EXCEPT ![w] = "asleep"]
  /\ UNCHANGED <<items, threads, work_per_thread, todo, active_work_count,
                 is_cancellation_requested, caller, work_phase, drawn>>

Cancel(w) ==
  /\ worker[w] = "ready" /\ is_cancellation_requested
  /\ worker' = [worker EXCEPT ![w] = "exited"]
  /\ UNCHANGED <<items, threads, work_per_thread, todo, active_work_count,
                 is_cancellation_requested, caller, work_phase, drawn>>

TakeWork(w) ==
  /\ worker[w] = "ready"
  /\ ~is_cancellation_requested /\ work_per_thread[w] # NONE
  /\ worker' = [worker EXCEPT ![w] = "running"]
  /\ todo' = [todo EXCEPT ![w] = WorkOf(w, work_per_thread[w])]
  /\ work_per_thread' = [work_per_thread EXCEPT ![w] = NONE]
  /\ UNCHANGED <<items, threads, active_work_count, is_cancellation_requested, caller,
                 work_phase, drawn>>

RunItem(w) ==
  /\ worker[w] = "running" /\ todo[w] # <<>>
  /\ LET b == Head(todo[w])[1]
     IN  drawn' = [drawn EXCEPT ![b] = Append(@, Head(todo[w])[2])]
  /\ todo' = [todo EXCEPT ![w] = Tail(@)]
  /\ UNCHANGED <<items, threads, work_per_thread, worker, active_work_count,
                 is_cancellation_requested, caller, work_phase>>

(* A mutant: nobody is notified when the count reaches zero. *)
FinishWorkSilently(w) ==
  /\ worker[w] = "running" /\ todo[w] = <<>>
  /\ active_work_count' = active_work_count - 1
  /\ worker' = [worker EXCEPT ![w] = "test"]
  /\ UNCHANGED <<items, threads, work_per_thread, todo, is_cancellation_requested, caller,
                 work_phase, drawn>>

(* The decrement under completed_mutex, and the notification at zero. *)
FinishWork(w) ==
  /\ worker[w] = "running" /\ todo[w] = <<>>
  /\ active_work_count' = active_work_count - 1
  /\ caller' = IF active_work_count = 1 /\ caller = "asleep" THEN "check" ELSE caller
  /\ worker' = [worker EXCEPT ![w] = "test"]
  /\ UNCHANGED <<items, threads, work_per_thread, todo, is_cancellation_requested, work_phase,
                 drawn>>

SpuriousWake ==
  /\ \/ \E w \in Workers : /\ worker[w] = "asleep"
                           /\ worker' = [worker EXCEPT ![w] = "ready"]
                           /\ UNCHANGED caller
     \/ caller = "asleep" /\ caller' = "check" /\ UNCHANGED worker
  /\ UNCHANGED <<items, threads, work_per_thread, todo, active_work_count,
                 is_cancellation_requested, work_phase, drawn>>

-----------------------------------------------------------------------------
(* The destructor, when the game instance ends. *)
RequestCancellation ==
  /\ caller = "idle"
  /\ is_cancellation_requested' = TRUE
  /\ worker' = Wake
  /\ caller' = "joining"
  /\ UNCHANGED <<items, threads, work_per_thread, todo, active_work_count, work_phase, drawn>>

JoinThreads ==
  /\ caller = "joining" /\ \A w \in Workers : worker[w] = "exited"
  /\ caller' = "destroyed"
  /\ UNCHANGED <<items, threads, work_per_thread, worker, todo, active_work_count,
                 is_cancellation_requested, work_phase, drawn>>

WorkerStep(w) == \/ TestCancellation(w) \/ Sleep(w) \/ Cancel(w)
                 \/ TakeWork(w) \/ RunItem(w) \/ FinishWork(w)

OwnerStep == AwaitCompletion \/ JoinThreads

NextWork ==
  \/ \E hardware \in 0 .. MaxHardware : Initialise(hardware)
  \/ ProcessWork
  \/ OwnerStep
  \/ \E w \in Workers : WorkerStep(w)
  \/ SpuriousWake
  \/ RequestCancellation

WorkSpec == InitWork /\ [][NextWork]_workVars

(* Threads that are not waiting run on, and the work on an item ends. *)
WorkFairness ==
  /\ WF_workVars(OwnerStep)
  /\ \A w \in 1 .. WORK_BUNDLE_COUNT : WF_workVars(w \in Workers /\ WorkerStep(w))

FairWorkSpec == WorkSpec /\ WorkFairness

-----------------------------------------------------------------------------
(* Whatever the number of threads and however they interleave, the items    *)
(* that draw from the generator of a bundle are the same, in the same       *)
(* order: those of the chunk the bundle has of a division into              *)
(* WORK_BUNDLE_COUNT parts ("always have the same rng regardless of         *)
(* hardware concurrency", WorkBundle).  Parts differ by at most one.        *)
DrawsIndependentOfThreads ==
  caller = "idle" /\ work_phase > 0 =>
    LET n == items[Phases[work_phase]] IN
    /\ FlattenSeq(drawn) = [k \in 1 .. n |-> k]
    /\ \A b \in Bundles :
         Len(drawn[b]) = (n + WORK_BUNDLE_COUNT - b) \div WORK_BUNDLE_COUNT

Draws(c) == {d \in Bundles \X (1 .. MaxItems) : d[2] \in DOMAIN drawn[d[1]] /\ drawn[d[1]][d[2]] = c}
Times(c) == Cardinality(Draws(c))

InPhase == caller \in {"check", "asleep"}

(* A phase is a fork and join over the items of its kind: process_work      *)
(* returns when each has been processed exactly once, so phases of a tick   *)
(* never overlap (process_work, await_completion).                          *)
FJ == INSTANCE ForkJoin WITH
        Threads <- {Owner}, MaxChunks <- MaxItems,
        active <- IF InPhase THEN {Owner} ELSE {},
        runs <- [t \in {Owner} |->
                   [c \in IF InPhase THEN 1 .. items[Phases[work_phase]] ELSE {} |-> Times(c)]]

PhaseIsForkJoin == FJ!FJSpec

(* Every phase returns and the destructor always joins every thread: no     *)
(* wake-up is lost (process_work, ~ThreadPool).                             *)
PoolProgress ==
  /\ InPhase ~> ~InPhase
  /\ caller = "joining" ~> caller = "destroyed"
=============================================================================

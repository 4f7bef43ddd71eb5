---------------------------- MODULE EcsThreadPool ----------------------------
(***************************************************************************)
(* The blocking worker pool of the ECS scheduler (ecs/EcsThreadPool.hpp,   *)
(* .cpp): a LIFO queue of jobs under queue_mutex_, a condition variable    *)
(* the workers sleep on, and one DoneState per dispatch on the stack of    *)
(* its caller.  Each critical section is one step; the notify_all that the *)
(* code issues after unlocking is a step of its own, and a sleeper may     *)
(* wake spuriously.  Bodies may themselves dispatch (a System run on a     *)
(* worker that calls parallel_for), but at most NestMax at a time: with    *)
(* every worker blocked in a nested dispatch the pool deadlocks, which the *)
(* documentation states and forbids.                                       *)
(***************************************************************************)
EXTENDS Integers, Sequences, FiniteSets, SequencesExt

CONSTANTS
  Workers,      \* the pool's threads
  Main,         \* the thread that owns the pool
  MaxChunks,    \* bound of the model on the chunk_count of a dispatch
  NestMax       \* bound of the model on simultaneous nested dispatches

ASSUME PoolAssumption ==
  /\ IsFiniteSet(Workers) /\ Workers # {}
  /\ Main \notin Workers
  /\ MaxChunks \in Nat \ {0}
  /\ NestMax \in Nat

VARIABLES
  queue,        \* queue_: the jobs nobody has taken
  stop,         \* stop_
  worker,       \* per worker, where it is in worker_loop and the job it holds
  call,         \* per thread, where it is in parallel_for or run_concurrent
  count,        \* per thread, the count of the DoneState of its dispatch
  ran,          \* history: per thread, how often each chunk of its dispatch has run
  pool          \* the owner's view: "up", "stopping", "joining" or "down"

poolVars == <<queue, stop, worker, call, count, ran, pool>>

Threads == Workers \cup {Main}
Chunk == 1 .. MaxChunks
Job == [owner : Threads, chunk : Chunk]
NoJob == [owner |-> Main, chunk |-> 1]

Fresh == [pc |-> "ready", job |-> NoJob, nested |-> FALSE]
NotCalling == [pc |-> "none", size |-> 1, next |-> 1]

-----------------------------------------------------------------------------
(* Setting the program counter of a thread, or of a set of sleepers. *)
Goto(f, t, pc) == [f EXCEPT ![t].pc = pc]

Woken(f, sleepers, pc) ==
  [t \in DOMAIN f |-> IF t \in sleepers /\ f[t].pc = "asleep" THEN [f[t] EXCEPT !.pc = pc] ELSE f[t]]

RunOnce(t, c) == [ran EXCEPT ![t][c] = IF @ < 2 THEN @ + 1 ELSE @]

(* The jobs of one dispatch, in push order. *)
JobsOf(t, n) == [c \in 1 .. n |-> [owner |-> t, chunk |-> c]]

RunsInline(n) == Cardinality(Workers) <= 1 \/ n = 1

(* Who may dispatch: the owner between calls, and a body on a worker. *)
MayDispatch(t) ==
  /\ call[t].pc = "none"
  /\ IF t = Main THEN pool = "up"
     ELSE /\ worker[t].pc = "running"
          /\ worker[t].job.owner = Main
          /\ ~worker[t].nested
          /\ Cardinality({w \in Workers : call[w].pc # "none"}) < NestMax

Entered(t) == IF t = Main THEN worker ELSE [worker EXCEPT ![t].nested = TRUE]

(* The fast path of parallel_for and run_concurrent. *)
DispatchInline(t, n) ==
  /\ MayDispatch(t)
  /\ RunsInline(n)
  /\ call' = [call EXCEPT ![t] = [pc |-> "inline", size |-> n, next |-> 1]]
  /\ ran' = [ran EXCEPT ![t] = [c \in Chunk |-> 0]]
  /\ worker' = Entered(t)
  /\ UNCHANGED <<queue, stop, count, pool>>

InlineBody(t) ==
  /\ call[t].pc = "inline"
  /\ ran' = RunOnce(t, call[t].next)
  /\ call' = IF call[t].next = call[t].size
             THEN Goto(call, t, "none")
             ELSE [call EXCEPT ![t].next = @ + 1]
  /\ UNCHANGED <<queue, stop, worker, count, pool>>

(* run_parallel_for_impl and run_concurrent: push every job, then notify. *)
DispatchJobs(t, n) ==
  /\ MayDispatch(t)
  /\ ~RunsInline(n)
  /\ queue' = queue \o JobsOf(t, n)
  /\ count' = [count EXCEPT ![t] = n]
  /\ call' = [call EXCEPT ![t] = [pc |-> "notify", size |-> n, next |-> 1]]
  /\ ran' = [ran EXCEPT ![t] = [c \in Chunk |-> 0]]
  /\ worker' = Entered(t)
  /\ UNCHANGED <<stop, pool>>

NotifyWorkers(t) ==
  /\ call[t].pc = "notify"
  /\ worker' = Woken(worker, Workers, "ready")
  /\ call' = Goto(call, t, "check")
  /\ UNCHANGED <<queue, stop, count, ran, pool>>

(* The predicate of done.cv.wait, under done.mutex. *)
CheckDone(t) ==
  /\ call[t].pc = "check"
  /\ call' = Goto(call, t, IF count[t] = 0 THEN "none" ELSE "asleep")
  /\ UNCHANGED <<queue, stop, worker, count, ran, pool>>

-----------------------------------------------------------------------------
(* Mutant of TakeJob: the job is read and not popped. *)
TakeJobUnpopped(w) ==
  /\ worker[w].pc = "ready"
  /\ queue # <<>>
  /\ worker' = [worker EXCEPT ![w] = [pc |-> "running", job |-> Last(queue), nested |-> FALSE]]
  /\ UNCHANGED <<queue, stop, call, count, ran, pool>>

(* worker_loop: the wait's predicate, and what the woken worker does. *)
TakeJob(w) ==
  /\ worker[w].pc = "ready"
  /\ queue # <<>>
  /\ worker' = [worker EXCEPT ![w] = [pc |-> "running", job |-> Last(queue), nested |-> FALSE]]
  /\ queue' = Front(queue)
  /\ UNCHANGED <<stop, call, count, ran, pool>>

Sleep(w) ==
  /\ worker[w].pc = "ready"
  /\ queue = <<>>
  /\ ~stop
  /\ worker' = Goto(worker, w, "asleep")
  /\ UNCHANGED <<queue, stop, call, count, ran, pool>>

Exit(w) ==
  /\ worker[w].pc = "ready"
  /\ queue = <<>>
  /\ stop
  /\ worker' = Goto(worker, w, "exited")
  /\ UNCHANGED <<queue, stop, call, count, ran, pool>>

RunBody(w) ==
  /\ worker[w].pc = "running"
  /\ call[w].pc = "none"
  /\ ran' = RunOnce(worker[w].job.owner, worker[w].job.chunk)
  /\ worker' = Goto(worker, w, "finishing")
  /\ UNCHANGED <<queue, stop, call, count, pool>>

(* Mutant of FinishJob: nobody notifies done->cv at zero. *)
FinishJobSilently(w) ==
  LET t == worker[w].job.owner
  IN  /\ worker[w].pc = "finishing"
      /\ count' = [count EXCEPT ![t] = @ - 1]
      /\ worker' = Goto(worker, w, "ready")
      /\ UNCHANGED <<queue, stop, call, ran, pool>>

(* The decrement under done->mutex, and the notify at zero. *)
FinishJob(w) ==
  LET t == worker[w].job.owner
  IN  /\ worker[w].pc = "finishing"
      /\ count' = [count EXCEPT ![t] = @ - 1]
      /\ call' = IF count[t] = 1 THEN Woken(call, {t}, "check") ELSE call
      /\ worker' = Goto(worker, w, "ready")
      /\ UNCHANGED <<queue, stop, ran, pool>>

(* A condition variable may wake a sleeper for no reason. *)
SpuriousWake(t) ==
  /\ \/ worker' = Woken(worker, {t}, "ready") /\ UNCHANGED call
     \/ call' = Woken(call, {t}, "check") /\ UNCHANGED worker
  /\ UNCHANGED <<queue, stop, count, ran, pool>>

-----------------------------------------------------------------------------
(* World::set_ecs_worker_count destroys the pool; the destructor sets stop_, *)
(* notifies and joins.  ecs_thread_pool() builds the next one.               *)
StopPool ==
  /\ pool = "up"
  /\ call[Main].pc = "none"
  /\ stop' = TRUE
  /\ pool' = "stopping"
  /\ UNCHANGED <<queue, worker, call, count, ran>>

(* Mutant of NotifyStop: the destructor joins without notifying. *)
NotifyStopNobody ==
  /\ pool = "stopping"
  /\ pool' = "joining"
  /\ UNCHANGED <<queue, stop, worker, call, count, ran>>

NotifyStop ==
  /\ pool = "stopping"
  /\ worker' = Woken(worker, Workers, "ready")
  /\ pool' = "joining"
  /\ UNCHANGED <<queue, stop, call, count, ran>>

JoinWorkers ==
  /\ pool = "joining"
  /\ \A w \in Workers : worker[w].pc = "exited"
  /\ pool' = "down"
  /\ UNCHANGED <<queue, stop, worker, call, count, ran>>

BuildPool ==
  /\ pool = "down"
  /\ pool' = "up"
  /\ stop' = FALSE
  /\ queue' = <<>>
  /\ worker' = [w \in Workers |-> Fresh]
  /\ UNCHANGED <<call, count, ran>>

PoolInit ==
  /\ queue = <<>>
  /\ stop = FALSE
  /\ worker = [w \in Workers |-> Fresh]
  /\ call = [t \in Threads |-> NotCalling]
  /\ count = [t \in Threads |-> 0]
  /\ ran = [t \in Threads |-> [c \in Chunk |-> 0]]
  /\ pool = "up"

(* The steps a running thread takes once it has something to do. *)
CallerStep(t) == InlineBody(t) \/ NotifyWorkers(t) \/ CheckDone(t)

WorkerStep(w) == TakeJob(w) \/ Sleep(w) \/ Exit(w) \/ RunBody(w) \/ FinishJob(w)

OwnerStep == NotifyStop \/ JoinWorkers

PoolNext ==
  \/ \E t \in Threads, n \in Chunk : DispatchInline(t, n)
  \/ \E t \in Threads, n \in Chunk : DispatchJobs(t, n)
  \/ \E t \in Threads : CallerStep(t)
  \/ \E w \in Workers : WorkerStep(w)
  \/ \E t \in Threads : SpuriousWake(t)
  \/ StopPool
  \/ OwnerStep
  \/ BuildPool

PoolSpec == PoolInit /\ [][PoolNext]_poolVars

(* The operating system runs every thread that is not waiting, and bodies   *)
(* terminate; nothing forces a dispatch, a nesting or a shutdown to happen.  *)
Fairness ==
  /\ \A t \in Threads : WF_poolVars(CallerStep(t))
  /\ \A w \in Workers : WF_poolVars(WorkerStep(w))
  /\ WF_poolVars(OwnerStep)

FairPoolSpec == PoolSpec /\ Fairness

-----------------------------------------------------------------------------
(* The pool does what the abstract fork and join promises. *)
FJ == INSTANCE ForkJoin WITH
        active <- {t \in Threads : call[t].pc # "none"},
        runs <- [t \in Threads |->
                   [c \in IF call[t].pc = "none" THEN {} ELSE 1 .. call[t].size |-> ran[t][c]]]

(* Every chunk runs exactly once and no dispatch returns early. *)
ForkJoinRefined == FJ!FJSpec

(* parallel_for and run_concurrent return, as long as some worker is left  *)
(* to serve the nested dispatches, and destroying the pool always joins    *)
(* every worker: no wake-up is lost.                                       *)
CallsEnd ==
  /\ \A t \in Threads : call[t].pc # "none" ~> call[t].pc = "none"
  /\ pool = "stopping" ~> pool = "down"
=============================================================================

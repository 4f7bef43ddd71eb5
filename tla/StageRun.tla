------------------------------ MODULE StageRun ------------------------------
(***************************************************************************)
(* Running the stages of a built schedule (ecs/SystemScheduler.cpp, run;   *)
(* ecs/SystemImpl.hpp, dispatch_threaded): gates at the top of the stage,  *)
(* bodies on the pool's workers recording into command buffers, the merge  *)
(* of the per-chunk buffers, and the barrier that applies the pending      *)
(* buffer of every system in emit order.                                   *)
(*                                                                         *)
(* A body is a sequence of commands, fixed in advance: what a system does  *)
(* depends on the rows it iterates, which nobody moves during a stage.     *)
(* Bodies are interleaved command by command, whatever the worker count.   *)
(* A stage must equal what the documentation promises of it: the same      *)
(* commands issued one at a time, in emit order and then chunk order.      *)
(***************************************************************************)
EXTENDS CommandBuffer

CONSTANTS
  Systems,      \* the registered systems
  Scenarios,    \* the runs considered: sequences of stages, several ticks long
  StartWorld    \* the World before the first stage

VARIABLES
  scenario,     \* the stages of this run
  serial,       \* serial_mode_
  at,           \* the number of the current stage
  pc,           \* "idle", "bodies" or "barrier"
  world,        \* the World
  open,         \* a singleton that bodies toggle and gates read
  flags,        \* run_flags: per position in the stage, whether the system runs
  running,      \* the positions whose bodies have been dispatched and not joined
  done,         \* per body, the number of commands it has executed
  handles,      \* per body, the ids its creates returned
  chunk_cmds,   \* per system, the pool of per-chunk buffers
  pending,      \* per system, pending_cmd
  applied,      \* the number of pending buffers the barrier has applied
  expected      \* history: what the stage should end with

stageVars == <<scenario, serial, at, pc, world, open, flags, running, done, handles,
               chunk_cmds, pending, applied, expected>>

Stage == scenario[at]
Positions == DOMAIN Stage

(* Handles are the ids of earlier creates of the body, or ids it already had. *)
Target(cmd, own) == IF cmd.own THEN own[cmd.n] ELSE [index |-> cmd.n, generation |-> 1]

Creates(cmd) == cmd.kind \in {"create", "bulk"}

-----------------------------------------------------------------------------
(* The reference: one command at a time, with ids reserved when a plain     *)
(* body asked for them, and no buffer or placeholder anywhere.              *)
OpenAfter(body, o) == FoldLeft(LAMBDA b, cmd : IF cmd.kind = "toggle" THEN ~b ELSE b, o, body)

CreateNow(w, id, reserved, cmd) ==
  LET t == IF reserved THEN w.table ELSE Reserve(w.table)
      made == FinaliseWith(World(t, w.comps), id, cmd.with)
  IN  IF cmd.immutable THEN World(Stamp(made.table, id), made.comps) ELSE made

(* A direct run of one body: [world, own, left], where left holds the ids   *)
(* that were reserved for it.                                               *)
IssueOne(s, cmd) ==
  LET id == IF s.left = <<>> THEN NextId(s.world.table) ELSE Head(s.left)
  IN  [world |-> CreateNow(s.world, id, s.left # <<>>, cmd),
       own |-> Append(s.own, id),
       left |-> IF s.left = <<>> THEN <<>> ELSE Tail(s.left)]

Issue(s, cmd) ==
  IF Creates(cmd) THEN FoldLeft(IssueOne, s, [k \in 1 .. cmd.count |-> cmd])
  ELSE IF cmd.kind = "toggle" THEN s
  ELSE [s EXCEPT !.world = Modified(@, cmd.kind, Target(cmd, s.own), cmd.with)]

CreateCount(body) ==
  FoldLeft(LAMBDA n, cmd : IF Creates(cmd) THEN n + cmd.count ELSE n, 0, body)

RunsAt(entry, o) == entry.gated => o

(* [table, ids]: the reservations of the plain bodies, in emit order. *)
ReservedUpFront(t, stage, o) ==
  FoldLeft(LAMBDA s, entry :
             IF entry.threaded \/ ~RunsAt(entry, o) THEN [s EXCEPT !.ids = Append(@, <<>>)]
             ELSE LET r == Reservations(s.table, CreateCount(entry.bodies[1]))
                  IN  [table |-> r.table, ids |-> Append(s.ids, r.ids)],
           [table |-> t, ids |-> <<>>], stage)

IssueBodies(w, entry, ids) ==
  FoldLeft(LAMBDA v, body : FoldLeft(Issue, [world |-> v, own |-> <<>>, left |-> ids], body).world,
           w, entry.bodies)

(* The World and the singleton after a stage, issued directly. *)
Directly(w, o, stage) ==
  LET first == ReservedUpFront(w.table, stage, o)
      after[k \in 0 .. Len(stage)] ==
        IF k = 0 THEN World(first.table, w.comps)
        ELSE IF RunsAt(stage[k], o) THEN IssueBodies(after[k - 1], stage[k], first.ids[k])
        ELSE after[k - 1]
      opens[k \in 0 .. Len(stage)] ==
        IF k = 0 THEN o
        ELSE IF RunsAt(stage[k], o) THEN FoldLeft(LAMBDA b, body : OpenAfter(body, b), opens[k - 1], stage[k].bodies)
        ELSE opens[k - 1]
  IN  [world |-> after[Len(stage)], open |-> opens[Len(stage)]]

-----------------------------------------------------------------------------
(* should_run, evaluated once for every system at the top of the stage. *)
Gate(entry) == entry.gated => open

Alone == serial \/ Len(Stage) = 1

BodiesOf(S) == {p \in S \X (1 .. 2) : flags[p[1]] /\ p[2] <= Len(Stage[p[1]].bodies)}

(* The per-chunk buffers of the systems about to run are cleared and put in *)
(* parallel mode; the tail of a wider tick is left as it is.                *)
Uses(i, s, c) == Stage[i].system = s /\ Stage[i].threaded /\ c <= Len(Stage[i].bodies)

Armed(cmds, S) ==
  [s \in Systems |->
     [c \in 1 .. 2 |-> IF \E i \in S : Uses(i, s, c) THEN Buffer(<<>>, 0, TRUE) ELSE cmds[s][c]]]

BeginStage ==
  /\ pc = "idle"
  /\ at <= Len(scenario)
  /\ pc' = "bodies"
  /\ flags' = [i \in Positions |-> Gate(Stage[i])]
  /\ running' = IF Alone THEN {1} ELSE Positions
  /\ chunk_cmds' = Armed(chunk_cmds, {i \in running' : flags'[i]})
  /\ done' = [p \in Positions \X (1 .. 2) |-> 0]
  /\ handles' = [p \in Positions \X (1 .. 2) |-> <<>>]
  /\ expected' = Directly(world, open, Stage)
  /\ UNCHANGED <<scenario, serial, at, world, open, pending, applied>>

(* One command of one body.  A chunk body records in its chunk's buffer, a  *)
(* plain body in the system's pending buffer.                               *)
BufferOf(i, c) ==
  IF Stage[i].threaded THEN chunk_cmds[Stage[i].system][c] ELSE pending[Stage[i].system]

Recorded(i, c, buf) ==
  IF Stage[i].threaded
  THEN /\ chunk_cmds' = [chunk_cmds EXCEPT ![Stage[i].system][c] = buf]
       /\ UNCHANGED pending
  ELSE /\ pending' = [pending EXCEPT ![Stage[i].system] = buf]
       /\ UNCHANGED chunk_cmds

Execute(i, c) ==
  /\ pc = "bodies"
  /\ <<i, c>> \in BodiesOf(running)
  /\ done[i, c] < Len(Stage[i].bodies[c])
  /\ LET cmd == Stage[i].bodies[c][done[i, c] + 1]
         buf == BufferOf(i, c)
         made == RecordCreate(buf, world.table, cmd.kind, cmd.count, cmd.with, cmd.immutable)
     IN  \/ /\ Creates(cmd)
            /\ Recorded(i, c, made.buffer)
            /\ handles' = [handles EXCEPT ![i, c] = @ \o made.ids]
            /\ world' = World(made.table, world.comps)
            /\ UNCHANGED open
         \/ /\ cmd.kind \in {"destroy", "add", "remove"}
            /\ Recorded(i, c, Record(buf, cmd.kind, Target(cmd, handles[i, c]), cmd.with))
            /\ UNCHANGED <<handles, world, open>>
         \/ /\ cmd.kind = "toggle"
            /\ open' = ~open
            /\ UNCHANGED <<handles, world, chunk_cmds, pending>>
  /\ done' = [done EXCEPT ![i, c] = @ + 1]
  /\ UNCHANGED <<scenario, serial, at, pc, flags, running, applied, expected>>

Finished(p) == done[p] = Len(Stage[p[1]].bodies[p[2]])

(* The buffers of one system after its merge, chunk by chunk. *)
MergedPending(i) ==
  FoldLeft(MergeFrom, pending[Stage[i].system],
           [c \in 1 .. Len(Stage[i].bodies) |->
              [chunk_cmds[Stage[i].system][c] EXCEPT !.parallel = FALSE]])

Merging(s) == {i \in running : Stage[i].threaded /\ flags[i] /\ Stage[i].system = s}

(* parallel_for returns, the buffers are merged, and, when the systems run  *)
(* one at a time, the next one is dispatched.                               *)
Join ==
  /\ pc = "bodies"
  /\ \A p \in BodiesOf(running) : Finished(p)
  /\ pending' = [s \in Systems |->
                   IF Merging(s) = {} THEN pending[s]
                   ELSE MergedPending(CHOOSE i \in Merging(s) : TRUE)]
  /\ LET next == {i \in Positions : i - 1 \in running /\ i \notin running}
         merged == [s \in Systems |->
                      [c \in 1 .. 2 |->
                         IF \E i \in Merging(s) : Uses(i, s, c)
                         THEN Cleared([chunk_cmds[s][c] EXCEPT !.parallel = FALSE])
                         ELSE chunk_cmds[s][c]]]
     IN  /\ running' = next
         /\ pc' = IF next = {} THEN "barrier" ELSE "bodies"
         /\ chunk_cmds' = Armed(merged, {i \in next : flags[i]})
  /\ UNCHANGED <<scenario, serial, at, world, open, flags, done, handles, applied, expected>>

(* The barrier, one pending buffer at a time, in the stage's emit order.    *)
(* A system that was skipped has an empty buffer, applied all the same.     *)
ApplyPending ==
  /\ pc = "barrier"
  /\ applied < Len(Stage)
  /\ LET s == Stage[applied + 1].system
     IN  /\ world' = Apply(world, pending[s])
         /\ pending' = [pending EXCEPT ![s] = Cleared(@)]
  /\ applied' = applied + 1
  /\ UNCHANGED <<scenario, serial, at, pc, open, flags, running, done, handles,
                 chunk_cmds, expected>>

EndStage ==
  /\ pc = "barrier"
  /\ applied = Len(Stage)
  /\ pc' = "idle"
  /\ at' = at + 1
  /\ applied' = 0
  /\ flags' = <<>>
  /\ done' = <<>>
  /\ handles' = <<>>
  /\ UNCHANGED <<scenario, serial, world, open, running, chunk_cmds, pending, expected>>

(* The run is over. *)
Rest ==
  /\ pc = "idle"
  /\ at > Len(scenario)
  /\ UNCHANGED stageVars

StageInit ==
  /\ scenario \in Scenarios
  /\ serial \in BOOLEAN
  /\ at = 1
  /\ pc = "idle"
  /\ world = StartWorld
  /\ open \in BOOLEAN
  /\ flags = <<>>
  /\ running = {}
  /\ done = <<>>
  /\ handles = <<>>
  /\ chunk_cmds = [s \in Systems |-> [c \in 1 .. 2 |-> EmptyBuffer]]
  /\ pending = [s \in Systems |-> EmptyBuffer]
  /\ applied = 0
  /\ expected = [world |-> StartWorld, open |-> open]

StageNext ==
  \/ BeginStage
  \/ \E p \in BodiesOf(running) : Execute(p[1], p[2])
  \/ Join
  \/ ApplyPending
  \/ EndStage
  \/ Rest

StageSpec == StageInit /\ [][StageNext]_stageVars

-----------------------------------------------------------------------------
(* Between stages no buffer holds an operation or a placeholder count, and  *)
(* no slot is left reserved: a save taken after the tick is not refused,    *)
(* and the next tick's placeholders start from 0.                           *)
Drained ==
  /\ \A s \in Systems : /\ pending[s] = EmptyBuffer
                        /\ \A c \in 1 .. 2 : chunk_cmds[s][c] = EmptyBuffer
  /\ \A i \in 0 .. world.table.count - 1 :
       world.table.slots[i].alive => world.table.slots[i].finalised

(* The World after a stage, EntityIDs included, is the one that issuing its *)
(* commands directly would give: no interleaving of the bodies, no worker   *)
(* count, no serial mode and no renumbering of placeholders shows in it     *)
(* (determinism.md and command-buffer.md, Deterministic playback), and no   *)
(* command or reservation is left behind for the next.                      *)
StageDeterministic ==
  pc = "idle" => world = expected.world /\ open = expected.open /\ Drained
=============================================================================

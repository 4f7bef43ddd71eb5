---------------------------- MODULE EntitySlots ----------------------------
(***************************************************************************)
(* The identity layer of the ECS World: which calls change the slot table, *)
(* when they are allowed, and what callers may do with the EntityIDs they  *)
(* were handed (ecs/World.cpp, in_tick_or_log_, create_entity_impl,        *)
(* destroy_entity; ecs/CommandBuffer.cpp, one recorded create).            *)
(***************************************************************************)
EXTENDS SlotTable

CONSTANT
  MaxQueued     \* bound of the model on the creates waiting in CommandBuffers

ASSUME SlotsAssumption == MaxQueued \in Nat

VARIABLES
  world,        \* [slots, has_free, first_free]: the slot table of the World
  phase,        \* "idle" outside tick_systems, "body" while systems run, "apply" in the barrier
  queued,       \* creates recorded in CommandBuffers with a reserved id, not yet applied
  stack,        \* history: the free slots in pop order, as a sequence
  retired,      \* history: the EntityIDs whose entity or reservation has ended, until their slot wraps
  wrapped,      \* history: the slots whose generation counter has wrapped
  born          \* history: the EntityIDs created immutable

slotVars == <<world, phase, queued, stack, retired, wrapped, born>>

CreateOp == [id : EntityID, immutable : BOOLEAN]

-----------------------------------------------------------------------------
(* The structural operations World refuses while systems run (in_tick_or_log_). *)
MutationAllowed == phase # "body"

(* The handles callers can hold: every one the table has handed out. *)
Issued(id) ==
  /\ id.index < world.count
  /\ \/ id.index \in wrapped
     \/ id.generation <= world.slots[id.index].generation

Room == world.has_free \/ world.count < MaxSlots

(* What the history variables record of an allocation and of a release. *)
WrapsNow == world.has_free /\ world.slots[world.first_free].generation = GenMax

Taken(imm) ==
  /\ stack' = IF world.has_free THEN Tail(stack) ELSE stack
  /\ wrapped' = IF WrapsNow THEN wrapped \cup {world.first_free} ELSE wrapped
  /\ retired' = IF WrapsNow THEN {id \in retired : id.index # world.first_free} ELSE retired
  /\ born' = IF imm THEN born \cup {NextId(world)} ELSE born
  /\ UNCHANGED phase

Released(id) ==
  /\ stack' = <<id.index>> \o stack
  /\ retired' = IF id.index \in wrapped THEN retired ELSE retired \cup {id}
  /\ born' = born \ {id}
  /\ UNCHANGED <<wrapped, phase, queued>>

CreateEntity(imm) ==
  /\ MutationAllowed
  /\ Room
  /\ world' = Create(world, imm)
  /\ UNCHANGED queued
  /\ Taken(imm)

(* CommandBuffer::create_entity in serial mode: allowed in every phase. *)
RecordCreate(imm) ==
  /\ Room
  /\ world' = Reserve(world)
  /\ Cardinality(queued) < MaxQueued
  /\ queued' = queued \cup {[id |-> NextId(world), immutable |-> imm]}
  /\ Taken(imm)

(* CommandBuffer::apply, which runs at the barrier or outside ticks. *)
ApplyCreate(op) ==
  /\ MutationAllowed
  /\ op \in queued
  /\ world' = FinaliseAndStamp(world, op.id, op.immutable)
  /\ queued' = queued \ {op}
  /\ UNCHANGED <<phase, stack, retired, wrapped, born>>

(* CommandBuffer::clear forgets the creates and keeps their reservations. *)
DiscardCreate(op) ==
  /\ op \in queued
  /\ queued' = queued \ {op}
  /\ UNCHANGED <<world, phase, stack, retired, wrapped, born>>

(* destroy_entity, which drops a reservation through drop_reserved_slot. *)
DestroyEntity(id) ==
  /\ MutationAllowed
  /\ Issued(id)
  /\ Holds(world, id)
  /\ world' = Destroy(world, id)
  /\ Released(id)

(* tick_systems sets in_tick_; the barrier of a stage sets in_apply_phase_. *)
TickPhase ==
  /\ \/ phase = "idle" /\ phase' = "body"
     \/ phase = "body" /\ phase' = "apply"
     \/ phase = "apply" /\ phase' \in {"body", "idle"}
  /\ UNCHANGED <<world, queued, stack, retired, wrapped, born>>

SlotInit ==
  /\ world = EmptyTable
  /\ phase = "idle"
  /\ queued = {}
  /\ stack = <<>>
  /\ retired = {}
  /\ wrapped = {}
  /\ born = {}

SlotNext ==
  \/ \E imm \in BOOLEAN : CreateEntity(imm)
  \/ \E imm \in BOOLEAN : RecordCreate(imm)
  \/ \E op \in queued : ApplyCreate(op)
  \/ \E op \in queued : DiscardCreate(op)
  \/ \E id \in EntityID : DestroyEntity(id)
  \/ TickPhase

SlotSpec == SlotInit /\ [][SlotNext]_slotVars

-----------------------------------------------------------------------------
(* Type invariant of the slot table and of its history. *)
TypeOK ==
  /\ IsTable(world)
  /\ phase \in {"idle", "body", "apply"}
  /\ stack \in Seq(Index)
  /\ queued \subseteq CreateOp
  /\ retired \subseteq EntityID
  /\ wrapped \subseteq Index
  /\ born \subseteq EntityID

(* The intrusive chain of next_free pointers is the stack of dead slots:   *)
(* it starts at first_free, ends in a self-pointing tail, visits every     *)
(* dead slot and no other, and visits none twice.  allocate_entity_slot,   *)
(* destroy_entity and drop_reserved_slot rely on it; a slot leaked from or *)
(* linked twice into the chain hands one index to two entities.            *)
FreeChain ==
  /\ world.has_free <=> stack # <<>>
  /\ stack # <<>> => world.first_free = stack[1]
  /\ \A j \in 1 .. Len(stack) :
       /\ stack[j] < world.count
       /\ ~world.slots[stack[j]].alive
       /\ world.slots[stack[j]].next_free =
            IF j = Len(stack) THEN stack[j] ELSE stack[j + 1]
  /\ \A j, k \in 1 .. Len(stack) : stack[j] = stack[k] => j = k
  /\ \A i \in 0 .. world.count - 1 :
       ~world.slots[i].alive => \E j \in 1 .. Len(stack) : stack[j] = i

(* A handle whose entity was destroyed, or whose reservation was dropped,  *)
(* never again names an entity or a reservation, as long as the generation *)
(* of its slot has not wrapped around.                                     *)
RetiredStayDead ==
  \A id \in retired : ~Holds(world, id)

(* is_immutable(id) holds exactly of the live entities created immutable   *)
(* (the contract of World::is_immutable in World.hpp).                     *)
ImmutableAsCreated ==
  \A id \in EntityID : IsAlive(world, id) => (IsImmutable(world, id) <=> id \in born)
=============================================================================

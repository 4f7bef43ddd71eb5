---------------------------- MODULE CommandBuffer ----------------------------
(***************************************************************************)
(* Recording structural operations and playing them back                   *)
(* (ecs/CommandBuffer.hpp, ecs/CommandBuffer.cpp).                         *)
(*                                                                         *)
(* A World is here its slot table and the component set of every entity;   *)
(* component values are abstracted away.  A buffer in parallel mode hands  *)
(* out placeholders, numbered from 0 within the buffer; merging a buffer   *)
(* into another renumbers them, and apply replaces them by real ids.       *)
(***************************************************************************)
EXTENDS SlotTable, SequencesExt

Deferred == GenMax + 1  \* a generation with DEFERRED_GENERATION_BIT
INVALID_ENTITY_ID == [index |-> 0, generation |-> 0]

Placeholder(n) == [index |-> n, generation |-> Deferred]
is_deferred(id) == id.generation = Deferred

(* ids: the slots a bulk create reserved when it was recorded; with: the    *)
(* components created, added or removed; count: the entities created.       *)
Op(kind, id, ids, count, with, immutable) ==
  [kind |-> kind, id |-> id, ids |-> ids, count |-> count, with |-> with, immutable |-> immutable]

Buffer(ops, deferred, parallel) == [ops |-> ops, deferred |-> deferred, parallel |-> parallel]

EmptyBuffer == Buffer(<<>>, 0, FALSE)

World(table, comps) == [table |-> table, comps |-> comps]

-----------------------------------------------------------------------------
(* reserve_entity_slot n times: the ids in creation order, and the table. *)
Reservations(t, n) ==
  LET step[k \in 0 .. n] ==
        IF k = 0 THEN [table |-> t, ids |-> <<>>]
        ELSE [table |-> Reserve(step[k - 1].table),
              ids |-> Append(step[k - 1].ids, NextId(step[k - 1].table))]
  IN  step[n]

(* record_create_entity and record_create_entities: what is returned, the   *)
(* buffer and the table after the call.                                     *)
RecordCreate(buf, t, kind, n, with, imm) ==
  LET reserved == Reservations(t, n)
      placeholders == [k \in 1 .. n |-> Placeholder(buf.deferred + k - 1)]
      ids == IF buf.parallel THEN placeholders ELSE reserved.ids
      kept == IF kind = "bulk" /\ ~buf.parallel THEN ids ELSE <<>>
  IN  [ids |-> ids,
       table |-> IF buf.parallel THEN t ELSE reserved.table,
       buffer |-> Buffer(Append(buf.ops, Op(kind, ids[1], kept, n, with, imm)),
                         IF buf.parallel THEN buf.deferred + n ELSE buf.deferred,
                         buf.parallel)]

(* destroy_entity, add_component and remove_component only record. *)
Record(buf, kind, id, with) ==
  Buffer(Append(buf.ops, Op(kind, id, <<>>, 0, with, FALSE)), buf.deferred, buf.parallel)

(* Mutant of MergeFrom: the incoming placeholders are not counted. *)
MergeUncounted(into, other) == Buffer(into.ops \o other.ops, into.deferred, into.parallel)

MergeFrom(into, other) ==
  LET rebased(id) == IF is_deferred(id) THEN Placeholder(id.index + into.deferred) ELSE id
  IN  Buffer(into.ops \o [k \in DOMAIN other.ops |-> [other.ops[k] EXCEPT !.id = rebased(@)]],
             into.deferred + other.deferred, into.parallel)

(* A buffer after clear, after apply, or after it was merged into another. *)
Cleared(buf) == Buffer(<<>>, 0, buf.parallel)

-----------------------------------------------------------------------------
(* Playing one operation back, on the World and the placeholder map. *)
Resolve(map, id) ==
  IF ~is_deferred(id) THEN id
  ELSE IF id.index \in DOMAIN map THEN map[id.index] ELSE INVALID_ENTITY_ID

FinaliseWith(w, id, with) ==
  IF IsReserved(w.table, id)
  THEN World(Finalise(w.table, id), [w.comps EXCEPT ![id.index] = with])
  ELSE w

(* The bulk branch stamps only slots that still hold the batch's entity. *)
StampIfHeld(w, id) == IF Holds(w.table, id) THEN World(Stamp(w.table, id), w.comps) ELSE w

(* The ids an operation creates: its own, or slots reserved now. *)
CreatedIds(w, op) ==
  IF is_deferred(op.id) THEN Reservations(w.table, op.count).ids
  ELSE IF op.kind = "bulk" THEN op.ids ELSE <<op.id>>

ApplyCreateOp(w, map, op) ==
  LET ids == CreatedIds(w, op)
      reserved == IF is_deferred(op.id)
                  THEN World(Reservations(w.table, op.count).table, w.comps) ELSE w
      made == FoldLeft(LAMBDA v, id : FinaliseWith(v, id, op.with), reserved, ids)
      stamped == IF ~op.immutable THEN made
                 ELSE IF op.kind = "bulk" THEN FoldLeft(StampIfHeld, made, ids)
                 ELSE World(Stamp(made.table, ids[1]), made.comps)
  IN  [world |-> stamped,
       map |-> IF is_deferred(op.id)
               THEN [n \in DOMAIN map |->
                       IF n - op.id.index + 1 \in 1 .. op.count
                       THEN ids[n - op.id.index + 1] ELSE map[n]]
               ELSE map]

DestroyIn(w, id) ==
  IF Holds(w.table, id)
  THEN World(Destroy(w.table, id), [w.comps EXCEPT ![id.index] = {}])
  ELSE w

(* Both migrations ask for a live, finalised, mutable entity. *)
Migratable(w, id) == IsAlive(w.table, id) /\ ~IsImmutable(w.table, id)

AddTo(w, id, with) ==
  IF Migratable(w, id) THEN World(w.table, [w.comps EXCEPT ![id.index] = @ \cup with]) ELSE w

(* An entity without the component, or with no other, is left as it is. *)
RemoveFrom(w, id, with) ==
  IF Migratable(w, id) /\ w.comps[id.index] \cap with # {} /\ w.comps[id.index] # with
  THEN World(w.table, [w.comps EXCEPT ![id.index] = @ \ with])
  ELSE w

Modified(w, kind, id, with) ==
  CASE kind = "destroy" -> DestroyIn(w, id)
    [] kind = "add" -> AddTo(w, id, with)
    [] kind = "remove" -> RemoveFrom(w, id, with)

ApplyOp(state, op) ==
  IF op.kind \in {"create", "bulk"} THEN ApplyCreateOp(state.world, state.map, op)
  ELSE [world |-> Modified(state.world, op.kind, Resolve(state.map, op.id), op.with),
        map |-> state.map]

(* apply: every operation, in record order. *)
Apply(w, buf) ==
  FoldLeft(ApplyOp,
           [world |-> w, map |-> [n \in 0 .. buf.deferred - 1 |-> INVALID_ENTITY_ID]],
           buf.ops).world
=============================================================================

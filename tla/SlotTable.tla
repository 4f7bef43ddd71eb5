----------------------------- MODULE SlotTable -----------------------------
(***************************************************************************)
(* The slot table behind every EntityID, with its generations and its      *)
(* intrusive LIFO free list (ecs/World.hpp, struct EntitySlot; ecs/World.cpp, *)
(* allocate_entity_slot, reserve_entity_slot, finalize_reserved_entity,    *)
(* destroy_entity, drop_reserved_slot, is_alive, is_immutable).            *)
(*                                                                         *)
(* Archetype storage is abstracted to one bit per slot: "finalised" is     *)
(* archetype_index # INVALID_ARCHETYPE.  A table is a record, and every    *)
(* operation a total operator on tables: it returns its argument where the *)
(* code takes an early return.                                             *)
(***************************************************************************)
EXTENDS Integers, Sequences, FiniteSets

CONSTANTS
  MaxSlots,     \* bound of the model on the length of entity_slots
  GenMax        \* largest generation without DEFERRED_GENERATION_BIT

ASSUME TableAssumption ==
  /\ MaxSlots \in Nat \ {0}
  /\ GenMax \in Nat \ {0}

Index == 0 .. MaxSlots - 1
Generation == 1 .. GenMax
EntityID == [index : Index, generation : Generation]

EntitySlot == [generation : Generation, next_free : Index, alive : BOOLEAN,
               finalised : BOOLEAN, immutable : BOOLEAN]

Table(n, ss, has, first) ==
  [count |-> n, slots |-> ss, has_free |-> has, first_free |-> first]

EmptyTable == Table(0, [i \in 0 .. -1 |-> FALSE], FALSE, 0)

-----------------------------------------------------------------------------
(* World::is_alive: a live, finalised slot of the handle's generation. *)
Holds(w, id) ==
  /\ id.index < w.count
  /\ w.slots[id.index].alive
  /\ w.slots[id.index].generation = id.generation

IsAlive(w, id) == Holds(w, id) /\ w.slots[id.index].finalised

IsReserved(w, id) == Holds(w, id) /\ ~w.slots[id.index].finalised

IsImmutable(w, id) == IsAlive(w, id) /\ w.slots[id.index].immutable

(* The bump at reuse skips 0 and every value with the deferred bit. *)
NextGeneration(g) == IF g + 1 > GenMax THEN 1 ELSE g + 1

(* allocate_entity_slot: the index it takes, and the table after it. *)
NextIndex(w) == IF w.has_free THEN w.first_free ELSE w.count

WithSlot(w, i, s) == Table(w.count, [w.slots EXCEPT ![i] = s], w.has_free, w.first_free)

(* Mutant of Reused: the generation is not bumped. *)
ReusedUnbumped(s) ==
  [generation |-> s.generation, next_free |-> s.next_free,
   alive |-> TRUE, finalised |-> TRUE, immutable |-> FALSE]

Reused(s) ==
  [generation |-> NextGeneration(s.generation), next_free |-> s.next_free,
   alive |-> TRUE, finalised |-> TRUE, immutable |-> FALSE]

Reuse(w) ==
  LET i == w.first_free
  IN  Table(w.count, [w.slots EXCEPT ![i] = Reused(w.slots[i])],
            w.slots[i].next_free # i, w.slots[i].next_free)

FreshSlot == [generation |-> 1, next_free |-> 0, alive |-> TRUE,
              finalised |-> TRUE, immutable |-> FALSE]

PushBack(w) ==
  Table(w.count + 1, [i \in 0 .. w.count |-> IF i = w.count THEN FreshSlot ELSE w.slots[i]],
        w.has_free, w.first_free)

Allocate(w) == IF w.has_free THEN Reuse(w) ELSE PushBack(w)

NextId(w) ==
  [index |-> NextIndex(w), generation |-> Allocate(w).slots[NextIndex(w)].generation]

(* create_entity_impl: allocate, then stamp the immutable flag. *)
Create(w, imm) ==
  LET i == NextIndex(w)
  IN  WithSlot(Allocate(w), i, [Allocate(w).slots[i] EXCEPT !.immutable = imm])

(* reserve_entity_slot: allocate, then mark the slot as having no archetype. *)
Reserve(w) ==
  LET i == NextIndex(w)
  IN  WithSlot(Allocate(w), i, [Allocate(w).slots[i] EXCEPT !.finalised = FALSE])

(* finalize_reserved_entity: nothing happens unless the reservation stands. *)
Finalise(w, id) ==
  IF IsReserved(w, id)
  THEN WithSlot(w, id.index, [w.slots[id.index] EXCEPT !.finalised = TRUE])
  ELSE w

(* CommandBuffer::apply of one create recorded with a real id: the flag is  *)
(* stamped on the slot whatever became of the reservation meanwhile.        *)
Stamp(w, id) ==
  IF id.index < w.count
  THEN WithSlot(w, id.index, [w.slots[id.index] EXCEPT !.immutable = TRUE])
  ELSE w

FinaliseAndStamp(w, id, imm) ==
  IF imm THEN Stamp(Finalise(w, id), id) ELSE Finalise(w, id)

(* Mutant of Freed: an empty list is not ended by a self-pointing tail. *)
FreedWithoutTail(w, i) ==
  [generation |-> w.slots[i].generation, alive |-> FALSE, next_free |-> w.first_free,
   finalised |-> w.slots[i].finalised, immutable |-> w.slots[i].immutable]

(* The tail shared by destroy_entity and drop_reserved_slot. *)
Freed(w, i) ==
  [generation |-> w.slots[i].generation, alive |-> FALSE,
   next_free |-> IF w.has_free THEN w.first_free ELSE i,
   finalised |-> w.slots[i].finalised, immutable |-> w.slots[i].immutable]

PushFree(w, i) == Table(w.count, [w.slots EXCEPT ![i] = Freed(w, i)], TRUE, i)

Destroy(w, id) == IF Holds(w, id) THEN PushFree(w, id.index) ELSE w

-----------------------------------------------------------------------------
(* The types of a table, whose domain grows by push_back only. *)
IsTable(w) ==
  /\ w \in [count : 0 .. MaxSlots, slots : [0 .. w.count - 1 -> EntitySlot],
            has_free : BOOLEAN, first_free : Index]
=============================================================================

-------------------------- MODULE IdentitySnapshot --------------------------
(***************************************************************************)
(* Saving and restoring the identity layer (ecs/World.cpp,                 *)
(* snapshot_identity, restore_identity, restore_entity_precheck_;          *)
(* ecs/World.hpp, restore_entity and WorldIdentitySnapshot).               *)
(*                                                                         *)
(* A save is taken at any idle moment; a second World ("twin") then loads  *)
(* it, and afterwards the run that never saved and the restored run        *)
(* receive the same calls.  The promise of the save format is that nobody  *)
(* can tell the two apart by their EntityIDs.                              *)
(***************************************************************************)
EXTENDS EntitySlots, SequencesExt

CONSTANT NoSnapshot     \* the value of "saved" before a save is taken

VARIABLES
  saved,        \* the WorldIdentitySnapshot on disk
  twin,         \* the slot table of the World that loads it
  mode          \* "run", "saved", "loading", "both" or, for a damaged file, "damaged"

identityVars == <<slotVars, saved, twin, mode>>

-----------------------------------------------------------------------------
(* The free chain as snapshot_identity walks it: a node per step, and the  *)
(* step at which a self-pointing tail ends the walk.                       *)
ChainNode(w) ==
  LET node[k \in 1 .. w.count] ==
        IF k = 1 THEN w.first_free
        ELSE IF node[k - 1] < w.count THEN w.slots[node[k - 1]].next_free ELSE w.count
  IN  node

TailSteps(w) ==
  LET node == ChainNode(w)
  IN  {k \in 1 .. w.count : /\ \A j \in 1 .. k : node[j] < w.count
                            /\ w.slots[node[k]].next_free = node[k]}

FirstTail(w) == CHOOSE k \in TailSteps(w) : \A j \in TailSteps(w) : k <= j

(* Mutant of FreeList: the dead slots in index order, not in chain order. *)
FreeListScanned(w) == SetToSortSeq({i \in 0 .. w.count - 1 : ~w.slots[i].alive}, <)

FreeList(w) ==
  IF w.has_free /\ TailSteps(w) # {}
  THEN SubSeq(ChainNode(w), 1, FirstTail(w))
  ELSE <<>>

ChainIntact(w) ==
  w.has_free => /\ TailSteps(w) # {}
                /\ \A k \in DOMAIN FreeList(w) : ~w.slots[FreeList(w)[k]].alive

DeadSlots(w) == {i \in 0 .. w.count - 1 : ~w.slots[i].alive}

Unfinalised(w) == {i \in 0 .. w.count - 1 : w.slots[i].alive /\ ~w.slots[i].finalised}

(* snapshot_identity refuses reservations and a chain it cannot explain. *)
SnapshotAccepted(w) ==
  /\ Unfinalised(w) = {}
  /\ ChainIntact(w)
  /\ Len(FreeList(w)) = Cardinality(DeadSlots(w))

Snapshot(w) ==
  [slots |-> [i \in 0 .. w.count - 1 |->
                [generation |-> w.slots[i].generation,
                 immutable |-> w.slots[i].alive /\ w.slots[i].immutable]],
   free_list |-> FreeList(w)]

(* Mutant of SnapshotValid: the free list may name a slot twice. *)
SnapshotValidWithDuplicates(s) ==
  /\ \A i \in DOMAIN s.slots : s.slots[i].generation \in Generation
  /\ \A j \in DOMAIN s.free_list : s.free_list[j] \in DOMAIN s.slots

(* restore_identity validates the whole file before it touches the World. *)
SnapshotValid(s) ==
  /\ \A i \in DOMAIN s.slots : s.slots[i].generation \in Generation
  /\ \A j \in DOMAIN s.free_list : s.free_list[j] \in DOMAIN s.slots
  /\ \A j, k \in DOMAIN s.free_list : s.free_list[j] = s.free_list[k] => j = k

(* Mutant of RestoredSlot: the immutable flag is not carried over. *)
RestoredSlotMutable(s, i) ==
  IF \E j \in DOMAIN s.free_list : s.free_list[j] = i
  THEN LET j == CHOOSE j \in DOMAIN s.free_list : s.free_list[j] = i
       IN  [generation |-> s.slots[i].generation, alive |-> FALSE,
            finalised |-> TRUE, immutable |-> FALSE,
            next_free |-> IF j < Len(s.free_list) THEN s.free_list[j + 1] ELSE i]
  ELSE [generation |-> s.slots[i].generation, alive |-> TRUE,
        finalised |-> FALSE, immutable |-> FALSE, next_free |-> 0]

(* Every slot is reserved, then the free list overwrites its members. *)
RestoredSlot(s, i) ==
  IF \E j \in DOMAIN s.free_list : s.free_list[j] = i
  THEN LET j == CHOOSE j \in DOMAIN s.free_list : s.free_list[j] = i
       IN  [generation |-> s.slots[i].generation, alive |-> FALSE,
            finalised |-> TRUE, immutable |-> FALSE,
            next_free |-> IF j < Len(s.free_list) THEN s.free_list[j + 1] ELSE i]
  ELSE [generation |-> s.slots[i].generation, alive |-> TRUE,
        finalised |-> FALSE, immutable |-> s.slots[i].immutable, next_free |-> 0]

Restore(s) ==
  [count |-> Cardinality(DOMAIN s.slots),
   slots |-> [i \in DOMAIN s.slots |-> RestoredSlot(s, i)],
   has_free |-> s.free_list # <<>>,
   first_free |-> IF s.free_list # <<>> THEN s.free_list[1] ELSE 0]

(* The ways one entry of the file can be wrong. *)
Damaged(s) ==
  {[s EXCEPT !.free_list = Append(@, i)] : i \in 0 .. MaxSlots}
  \cup {[s EXCEPT !.slots[i].generation = g] : i \in DOMAIN s.slots, g \in {0, GenMax + 1}}

-----------------------------------------------------------------------------
(* Mutations happen before the save and, in both Worlds at once, after the *)
(* load.  A save is taken when every buffer has been applied.              *)
Lockstep(op(_)) ==
  /\ mode \in {"run", "both"}
  /\ twin' = IF mode = "both" THEN op(twin) ELSE twin
  /\ UNCHANGED <<saved, mode>>

BothCreate(imm) == CreateEntity(imm) /\ Lockstep(LAMBDA w : Create(w, imm))

BothRecord(imm) == RecordCreate(imm) /\ Lockstep(Reserve)

BothApply(op) ==
  ApplyCreate(op) /\ Lockstep(LAMBDA w : FinaliseAndStamp(w, op.id, op.immutable))

BothDiscard(op) == DiscardCreate(op) /\ Lockstep(LAMBDA w : w)

BothDestroy(id) == DestroyEntity(id) /\ Lockstep(LAMBDA w : Destroy(w, id))

BothTick == TickPhase /\ Lockstep(LAMBDA w : w)

SnapshotIdentity ==
  /\ mode = "run"
  /\ phase = "idle"
  /\ queued = {}
  /\ SnapshotAccepted(world)
  /\ saved' = Snapshot(world)
  /\ mode' = "saved"
  /\ UNCHANGED <<slotVars, twin>>

RestoreIdentity ==
  /\ mode = "saved"
  /\ SnapshotValid(saved)
  /\ twin' = Restore(saved)
  /\ mode' = "loading"
  /\ UNCHANGED <<slotVars, saved>>

RestoreDamaged ==
  /\ mode = "saved"
  /\ \E s \in Damaged(saved) :
       /\ SnapshotValid(s)
       /\ twin' = Restore(s)
  /\ mode' = "damaged"
  /\ UNCHANGED <<slotVars, saved>>

(* restore_entity, once per live slot, in any order. *)
RestoreEntity(id) ==
  /\ mode = "loading"
  /\ IsReserved(twin, id)
  /\ twin' = Finalise(twin, id)
  /\ UNCHANGED <<slotVars, saved, mode>>

FinishLoad ==
  /\ mode = "loading"
  /\ Unfinalised(twin) = {}
  /\ mode' = "both"
  /\ saved' = NoSnapshot
  /\ UNCHANGED <<slotVars, twin>>

IdentityInit ==
  /\ SlotInit
  /\ saved = NoSnapshot
  /\ twin = EmptyTable
  /\ mode = "run"

IdentityNext ==
  \/ \E imm \in BOOLEAN : BothCreate(imm)
  \/ \E imm \in BOOLEAN : BothRecord(imm)
  \/ \E op \in queued : BothApply(op)
  \/ \E op \in queued : BothDiscard(op)
  \/ \E id \in EntityID : BothDestroy(id)
  \/ BothTick
  \/ SnapshotIdentity
  \/ RestoreIdentity
  \/ RestoreDamaged
  \/ \E id \in EntityID : RestoreEntity(id)
  \/ FinishLoad

IdentitySpec == IdentityInit /\ [][IdentityNext]_identityVars

-----------------------------------------------------------------------------
(* Saving the World that finished loading writes the file it was loaded    *)
(* from, bit for bit (determinism.md: the round trip of the identity layer).*)
RoundTrip ==
  [][mode = "loading" /\ mode' = "both" =>
       SnapshotAccepted(twin) /\ Snapshot(twin) = saved]_identityVars

(* The restored run and the run that never saved give out the same         *)
(* EntityIDs for ever after, and agree on which handles are alive,         *)
(* reserved and immutable.                                                 *)
TwinAgrees ==
  mode = "both" =>
    /\ Room => NextId(twin) = NextId(world)
    /\ \A id \in EntityID : /\ IsAlive(twin, id) = IsAlive(world, id)
                            /\ IsReserved(twin, id) = IsReserved(world, id)
                            /\ IsImmutable(twin, id) = IsImmutable(world, id)

(* The walk of the free chain explains every dead slot of every World.     *)
(* Between ticks and with no reservation outstanding snapshot_identity      *)
(* never refuses: its corruption checks never fire, whatever sequence of    *)
(* creations, reservations and destructions built the chain.  And a file    *)
(* restore_identity accepts, damaged or not, never builds a table whose     *)
(* chain is broken or whose handles carry the deferred bit.                 *)
AlwaysSaveable ==
  /\ phase = "idle" /\ Unfinalised(world) = {} => SnapshotAccepted(world)
  /\ mode # "run" => /\ ChainIntact(twin)
                     /\ Len(FreeList(twin)) = Cardinality(DeadSlots(twin))
                     /\ \A i \in 0 .. twin.count - 1 : twin.slots[i].generation \in Generation
=============================================================================

---------------------------- MODULE WorldStorage ----------------------------
(***************************************************************************)
(* Archetype storage of the ECS World: which rows of which chunks hold an  *)
(* entity's components, how rows move when entities are created, destroyed *)
(* or change components, how queries find archetypes and where the blocks  *)
(* come from (ecs/Archetype.hpp, ecs/Chunk.hpp, ecs/World.hpp and          *)
(* ecs/World.cpp; ecs/SlotTable and ChunkPool are modules of their own).   *)
(*                                                                         *)
(* All columns of an archetype are bumped together, so one version stands  *)
(* for column_versions.  A signature is the set of its sorted ids.  The    *)
(* guard in_tick_or_log_ of these calls is modelled in EntitySlots.        *)
(***************************************************************************)
EXTENDS SlotTable, ChunkPool

CONSTANTS
  Component,      \* component type ids
  SizeOf,         \* sizeof of a component; 0 is a tag, which has no column data
  AlignOf,
  IdBytes,        \* sizeof(EntityID)
  BlockBytes,     \* CHUNK_BLOCK_BYTES
  MatcherBits,    \* the modulus of the bitfield prefilter, 63 in the code
  EpochMax,       \* largest archetype_epoch before it wraps to 0
  Present,        \* stands for the data of a tag
  Creations,      \* what callers create entities with: [sig, immutable]
  Changeable,     \* the components callers add and remove
  Queries,        \* the cache keys callers use: [require, exclude]
  MaxVersion      \* bound of the model on the sum of the column versions

ASSUME StorageAssumption ==
  /\ Component \subseteq Nat /\ IsFiniteSet(Component)
  /\ SizeOf \in [Component -> Nat] /\ AlignOf \in [Component -> Nat \ {0}]
  /\ IdBytes \in Nat \ {0} /\ BlockBytes \in Nat
  /\ MatcherBits \in Nat \ {0} /\ EpochMax \in Nat \ {0}
  /\ Creations \subseteq [sig : (SUBSET Component) \ {{}}, immutable : BOOLEAN]
  /\ Changeable \subseteq Component
  /\ Queries \subseteq [require : SUBSET Component, exclude : SUBSET Component]

VARIABLES
  table,    \* entity_slots and its free list
  store,    \* [archs, place, pool, epoch, cache]: archetypes, location of every slot, chunk_pool_,
            \* archetype_epoch, query_cache
  ended     \* ~World has run

storageVars == <<table, store, ended>>

Loc(a, c, r) == [arch |-> a, chunk |-> c, row |-> r]
Nowhere == Loc(0, 0, 0)
Row(id, values) == [id |-> id, values |-> values]
Columns(sig) == {c \in sig : SizeOf[c] > 0}

-----------------------------------------------------------------------------
(* compute_chunk_layout *)
RoundUp(n, align) == ((n + align - 1) \div align) * align

(* Mutant of LayoutAt: the slab of EntityIDs at the start of the block is forgotten. *)
LayoutWithoutIds(sig, capacity) ==
  FoldLeft(LAMBDA l, c : [offsets |-> (c :> RoundUp(l.end, AlignOf[c])) @@ l.offsets,
                          end |-> RoundUp(l.end, AlignOf[c]) + capacity * SizeOf[c]],
           [offsets |-> <<>>, end |-> 0],
           SetToSortSeq(Columns(sig), <))

(* The offset of every column for a capacity, and the end of the last one. *)
LayoutAt(sig, capacity) ==
  FoldLeft(LAMBDA l, c : [offsets |-> (c :> RoundUp(l.end, AlignOf[c])) @@ l.offsets,
                          end |-> RoundUp(l.end, AlignOf[c]) + capacity * SizeOf[c]],
           [offsets |-> <<>>, end |-> capacity * IdBytes],
           SetToSortSeq(Columns(sig), <))

(* A guess that allows for the worst padding, lowered until the layout fits. *)
ChunkCapacity(sig) ==
  LET perRow == IdBytes + MapThenSumSet(LAMBDA c : SizeOf[c], Columns(sig))
      padding == MapThenSumSet(LAMBDA c : AlignOf[c] - 1, Columns(sig))
      usable == IF BlockBytes > padding THEN BlockBytes - padding ELSE BlockBytes
      guess == Max({1, usable \div perRow})
  IN  Max({n \in 1 .. guess : n = 1 \/ LayoutAt(sig, n).end <= BlockBytes})

(* chunk_capacity and column_offsets, constant for an archetype's life. *)
Layout ==
  [sig \in (SUBSET Component) \ {{}} |->
     [capacity |-> ChunkCapacity(sig), offsets |-> LayoutAt(sig, ChunkCapacity(sig)).offsets]]

-----------------------------------------------------------------------------
(* Archetypes, their rows and the pool: operators on the store record. *)
Store(archs, place, pool, epoch, cache) ==
  [archs |-> archs, place |-> place, pool |-> pool, epoch |-> epoch, cache |-> cache]

ArchIndex(s, sig) == SelectInSeq(s.archs, LAMBDA a : a.sig = sig)

NextEpoch(s) ==
  IF s.epoch < EpochMax THEN [s EXCEPT !.epoch = @ + 1]
  ELSE [s EXCEPT !.epoch = 1, !.cache = <<>>]

find_or_create_archetype(s, sig) ==
  IF ArchIndex(s, sig) # 0 THEN s
  ELSE NextEpoch([s EXCEPT !.archs = Append(@, [sig |-> sig, version |-> 0, chunks |-> <<>>])])

allocate_chunk(s, a) ==
  [s EXCEPT !.archs[a].chunks = Append(@, [block |-> NextBlock(s.pool), rows |-> <<>>]),
            !.pool = Acquire(@)]

HasRoom(s, a) ==
  LET chunks == s.archs[a].chunks
  IN  chunks # <<>> /\ Len(Last(chunks).rows) < Layout[s.archs[a].sig].capacity

(* A row in the trailing chunk, and the slot of its entity pointing at it. *)
PutRow(s, a, row) ==
  LET t == IF HasRoom(s, a) THEN s ELSE allocate_chunk(s, a)
      k == Len(t.archs[a].chunks)
  IN  [t EXCEPT !.archs[a].chunks[k].rows = Append(@, row),
                !.place[row.id.index] = Loc(a, k, Len(t.archs[a].chunks[k].rows) + 1)]

(* reserve_row and reserve_rows, with the values written: the version goes *)
(* up once per chunk touched.                                              *)
ReserveRows(s, a, rows) ==
  LET t == FoldLeft(LAMBDA u, row : PutRow(u, a, row), s, rows)
      touched == Len(t.archs[a].chunks) - Len(s.archs[a].chunks)
                   + (IF HasRoom(s, a) /\ rows # <<>> THEN 1 ELSE 0)
  IN  [t EXCEPT !.archs[a].version = @ + touched]

AddRows(s, sig, rows) ==
  LET t == find_or_create_archetype(s, sig)
  IN  ReserveRows(t, ArchIndex(t, sig), rows)

(* Mutant of FillHole: the slot of the entity that moved is not updated. *)
FillHoleOnly(s, l, row) == [s EXCEPT !.archs[l.arch].chunks[l.chunk].rows[l.row] = row]

FillHole(s, l, row) ==
  [s EXCEPT !.archs[l.arch].chunks[l.chunk].rows[l.row] = row, !.place[row.id.index] = l]

(* Mutant of DropRow: an emptied chunk keeps its block while it is also released. *)
DropRowKeepsChunk(s, a) ==
  LET k == Len(s.archs[a].chunks)
      t == [s EXCEPT !.archs[a].chunks[k].rows = Front(@)]
  IN  IF t.archs[a].chunks[k].rows # <<>> THEN t
      ELSE [t EXCEPT !.pool = Release(@, s.archs[a].chunks[k].block)]

(* The trailing row goes, and its chunk with it when that was the last one. *)
DropRow(s, a) ==
  LET k == Len(s.archs[a].chunks)
      t == [s EXCEPT !.archs[a].chunks[k].rows = Front(@)]
  IN  IF t.archs[a].chunks[k].rows # <<>> THEN t
      ELSE [t EXCEPT !.archs[a].chunks = Front(@), !.pool = Release(@, s.archs[a].chunks[k].block)]

(* Mutant of compact: the version is left alone. *)
CompactUnversioned(s, l) ==
  LET last == Len(s.archs[l.arch].chunks)
      rows == s.archs[l.arch].chunks[last].rows
      hole == ~(l.chunk = last /\ l.row = Len(rows))
      t == IF hole THEN FillHole(s, l, Last(rows)) ELSE s
  IN  DropRow(t, l.arch)

(* compact_archetype_after_external_move: the global last row fills the hole. *)
compact(s, l) ==
  LET last == Len(s.archs[l.arch].chunks)
      rows == s.archs[l.arch].chunks[last].rows
      hole == ~(l.chunk = last /\ l.row = Len(rows))
      t == IF hole THEN FillHole(s, l, Last(rows)) ELSE s
  IN  DropRow([t EXCEPT !.archs[l.arch].version = @ + 1], l.arch)

RowAt(s, l) == s.archs[l.arch].chunks[l.chunk].rows[l.row]
SigOf(s, id) == s.archs[s.place[id.index].arch].sig

(* Mutant of Migrate: the source is compacted before its values are moved. *)
MigrateTooLate(s, id, sig, values) ==
  LET from == s.place[id.index]
      gone == compact(s, from)
      kept == IF from.chunk \in DOMAIN gone.archs[from.arch].chunks
                 /\ from.row \in DOMAIN gone.archs[from.arch].chunks[from.chunk].rows
              THEN [d \in DOMAIN values |->
                      IF d \in SigOf(s, id) THEN RowAt(gone, from).values[d] ELSE values[d]]
              ELSE values
  IN  AddRows(gone, sig, <<Row(id, kept)>>)

(* The shared part of add_component and remove_component: the row of the   *)
(* target archetype is reserved and filled before the source is compacted. *)
Migrate(s, id, sig, values) ==
  LET from == s.place[id.index]
      there == AddRows(s, sig, <<Row(id, values)>>)
  IN  compact(there, from)

NewStore(pool) == Store(<<>>, [i \in Index |-> Nowhere], pool, 0, <<>>)

drain_to_pool(pool, chunks) == FoldLeft(LAMBDA p, c : Release(p, c.block), pool, chunks)

(* ~World: drain_to_pool over all archetypes, then ~ChunkPool. *)
Drained(s) ==
  NewStore(DestroyPool(FoldLeft(LAMBDA pool, a : drain_to_pool(pool, a.chunks), s.pool, s.archs)))

-----------------------------------------------------------------------------
(* resolve_query_cache *)
matcher_hash(ids) == {c % MatcherBits : c \in ids}

(* Mutant of Matches: a bit shared by the exclude set rejects the archetype. *)
MatchesByBits(sig, key) ==
  /\ matcher_hash(key.require) \subseteq matcher_hash(sig)
  /\ matcher_hash(key.exclude) \cap matcher_hash(sig) = {}
  /\ key.require \subseteq sig

(* A shared bit of the exclude set has to be confirmed: ids collide. *)
Matches(sig, key) ==
  /\ matcher_hash(key.require) \subseteq matcher_hash(sig)
  /\ matcher_hash(key.exclude) \cap matcher_hash(sig) # {} => key.exclude \cap sig = {}
  /\ key.require \subseteq sig

(* The archetypes of a query, in the order of their indices. *)
Matching(archs, key) ==
  FoldLeft(LAMBDA m, a : IF Matches(archs[a].sig, key) THEN Append(m, a) ELSE m,
           <<>>, [a \in DOMAIN archs |-> a])

resolve_query_cache(s, key) ==
  IF key \in DOMAIN s.cache /\ s.cache[key].epoch = s.epoch THEN s
  ELSE [s EXCEPT !.cache = [k \in DOMAIN @ \cup {key} |->
          IF k = key THEN [epoch |-> s.epoch, matched |-> Matching(s.archs, key)] ELSE s.cache[k]]]

-----------------------------------------------------------------------------
(* The calls.  Every one is refused while systems run, except reserving. *)
(* The data callers store tells the entities apart: the index of the entity *)
(* when it is created or gains a component, another mark when it is          *)
(* assigned again.                                                           *)
Mark(id) == id.index
Remark(id) == MaxSlots + id.index
Marks == 0 .. 2 * MaxSlots - 1

NewRow(id, sig) == Row(id, [c \in Columns(sig) |-> Mark(id)])

(* create_entities: the slots, then the rows; create_entity_impl is a batch of one. *)
CreatedSlots(n, imm) ==
  FoldLeft(LAMBDA t, k : [table |-> Create(t.table, imm), ids |-> Append(t.ids, NextId(t.table))],
           [table |-> table, ids |-> <<>>], [k \in 1 .. n |-> k])

Slots(n) == Cardinality({i \in Index : i >= table.count \/ ~table.slots[i].alive}) >= n

(* Bounds of the model: addresses to take a block from, and column versions, *)
(* which every structural change raises.                                     *)
Bounded(s) ==
  Cardinality({p \in (DOMAIN s.archs) \X (1 .. MaxVersion + 2) : p[2] <= s.archs[p[1]].version}) <= MaxVersion
Affordable(n) == CanAcquire(store.pool, n)

CreateEntities(n, sig, imm) ==
  /\ ~ended /\ Slots(n) /\ Affordable(n)
  /\ LET made == CreatedSlots(n, imm)
     IN  /\ table' = made.table
         /\ store' = AddRows(store, sig, [k \in 1 .. n |-> NewRow(made.ids[k], sig)])
  /\ Bounded(store')
  /\ UNCHANGED ended

(* reserve_entity_slot, for a create recorded in a CommandBuffer. *)
ReserveEntity ==
  /\ ~ended /\ Slots(1)
  /\ table' = Reserve(table)
  /\ UNCHANGED <<store, ended>>

(* finalize_reserved_entities_bulk: one batch of rows when every id still  *)
(* stands, and one row at a time, the others skipped, when one does not.   *)
FinaliseReserved(ids, sig) ==
  /\ ~ended /\ Affordable(Len(ids))
  /\ \E k \in DOMAIN ids : IsReserved(table, ids[k])
  /\ LET rows == [k \in DOMAIN ids |-> NewRow(ids[k], sig)]
     IN  store' = IF \A k \in DOMAIN ids : IsReserved(table, ids[k]) THEN AddRows(store, sig, rows)
                  ELSE FoldLeft(LAMBDA s, r : IF IsReserved(table, r.id) THEN AddRows(s, sig, <<r>>) ELSE s,
                                store, rows)
  /\ table' = FoldLeft(Finalise, table, ids)
  /\ Bounded(store')
  /\ UNCHANGED ended

(* The location of a dead slot is never read: allocate_entity_slot resets it. *)
DestroyEntity(id) ==
  /\ ~ended
  /\ Holds(table, id)
  /\ table' = Destroy(table, id)
  /\ store' = IF IsReserved(table, id) THEN store
              ELSE [compact(store, store.place[id.index]) EXCEPT !.place[id.index] = Nowhere]
  /\ Bounded(store')
  /\ UNCHANGED ended

(* add_component of a component the entity has: the value is assigned in place. *)
ReplaceComponent(id, c) ==
  /\ ~ended
  /\ IsAlive(table, id) /\ ~IsImmutable(table, id)
  /\ c \in Columns(SigOf(store, id))
  /\ LET l == store.place[id.index]
     IN  store' = [store EXCEPT !.archs[l.arch].chunks[l.chunk].rows[l.row].values[c] = Remark(id)]
  /\ UNCHANGED <<table, ended>>

add_component(id, c) ==
  /\ ~ended /\ Affordable(1)
  /\ IsAlive(table, id) /\ ~IsImmutable(table, id)
  /\ c \notin SigOf(store, id)
  /\ LET values == RowAt(store, store.place[id.index]).values
         sig == SigOf(store, id) \cup {c}
     IN  store' = Migrate(store, id, sig,
                          [d \in Columns(sig) |-> IF d = c THEN Mark(id) ELSE values[d]])
  /\ Bounded(store')
  /\ UNCHANGED <<table, ended>>

(* An entity keeps its last component: nothing happens then. *)
remove_component(id, c) ==
  /\ ~ended /\ Affordable(1)
  /\ IsAlive(table, id) /\ ~IsImmutable(table, id)
  /\ c \in SigOf(store, id) /\ SigOf(store, id) # {c}
  /\ LET values == RowAt(store, store.place[id.index]).values
         sig == SigOf(store, id) \ {c}
     IN  store' = Migrate(store, id, sig, [d \in Columns(sig) |-> values[d]])
  /\ Bounded(store')
  /\ UNCHANGED <<table, ended>>

(* for_each and the prewarming of a stage look a query up. *)
Query(key) ==
  /\ ~ended
  /\ store' = resolve_query_cache(store, key)
  /\ UNCHANGED <<table, ended>>

(* The end of tick_systems. *)
Tick ==
  /\ ~ended
  /\ store' = [store EXCEPT !.pool = AdvanceTick(@)]
  /\ UNCHANGED <<table, ended>>

DestroyWorld ==
  /\ ~ended
  /\ ended' = TRUE
  /\ store' = Drained(store)
  /\ table' = EmptyTable

StorageInit ==
  /\ table = EmptyTable
  /\ store = NewStore(EmptyPool)
  /\ ended = FALSE

StorageNext ==
  \/ \E n \in 1 .. 2, c \in Creations : CreateEntities(n, c.sig, c.immutable)
  \/ ReserveEntity
  \/ \E ids \in BoundedSeq(EntityID, 2) \ {<<>>}, c \in Creations :
       IsInjective(ids) /\ ~c.immutable /\ FinaliseReserved(ids, c.sig)
  \/ \E id \in EntityID : DestroyEntity(id)
  \/ \E id \in EntityID, c \in Changeable : ReplaceComponent(id, c)
  \/ \E id \in EntityID, c \in Changeable : add_component(id, c)
  \/ \E id \in EntityID, c \in Changeable : remove_component(id, c)
  \/ \E key \in Queries : Query(key)
  \/ Tick
  \/ DestroyWorld

StorageSpec == StorageInit /\ [][StorageNext]_storageVars

-----------------------------------------------------------------------------
LiveIds == IF ended THEN {} ELSE {id \in EntityID : IsAlive(table, id)}

(* Slots and rows agree: the slot of every live entity points at a row     *)
(* that bears its id, and there are no other rows; only the trailing chunk *)
(* of an archetype may be partly filled, and none is empty.  Every move of *)
(* create, destroy, migrate and finalise has to keep both sides in step.   *)
RowsMatchSlots ==
  LET rowsOf(a) == UNION {{Loc(a, k, r) : r \in DOMAIN store.archs[a].chunks[k].rows} :
                            k \in DOMAIN store.archs[a].chunks}
      rows == UNION {rowsOf(a) : a \in DOMAIN store.archs}
  IN  /\ \A id \in LiveIds : /\ store.place[id.index] \in rows
                             /\ RowAt(store, store.place[id.index]).id = id
      /\ Cardinality(rows) = Cardinality(LiveIds)
      /\ \A a \in DOMAIN store.archs : \A k \in DOMAIN store.archs[a].chunks :
           LET filled == Len(store.archs[a].chunks[k].rows)
           IN  IF k < Len(store.archs[a].chunks)
               THEN filled = Layout[store.archs[a].sig].capacity
               ELSE filled \in 1 .. Layout[store.archs[a].sig].capacity

(* Every block handed out by operator new has exactly one owner, a chunk   *)
(* of one archetype or the free list, none is used after it is deleted,    *)
(* and ~World leaves none behind.                                          *)
BlocksOwnedOnce ==
  LET inChunks == UNION {{<<a, k>> : k \in DOMAIN store.archs[a].chunks} : a \in DOMAIN store.archs}
      owned == {store.archs[p[1]].chunks[p[2]].block : p \in inChunks}
      cached == {store.pool.free[k].block : k \in DOMAIN store.pool.free}
  IN  /\ Cardinality(owned) = Cardinality(inChunks)
      /\ Cardinality(cached) = Len(store.pool.free)
      /\ owned \cap cached = {}
      /\ owned \cup cached = store.pool.live
      /\ ended => store.pool.live = {}

(* A cached query that still counts as current names exactly the           *)
(* archetypes whose signature has all required and no excluded component,  *)
(* in index order: nothing is iterated twice, missed or wrongly included,  *)
(* although ids share prefilter bits and the epoch wraps.                  *)
CacheComplete ==
  \A key \in DOMAIN store.cache :
    store.cache[key].epoch = store.epoch =>
      LET matched == store.cache[key].matched
      IN  /\ Range(matched) = {a \in DOMAIN store.archs :
                                 /\ \A c \in key.require : c \in store.archs[a].sig
                                 /\ \A c \in key.exclude : c \notin store.archs[a].sig}
          /\ \A i, j \in DOMAIN matched : i < j => matched[i] < matched[j]

(* The slabs of an archetype that exists lie inside the block, aligned,    *)
(* apart from each other and from the EntityIDs.  The padding guess of     *)
(* compute_chunk_layout need not fit at first.                             *)
LayoutSound ==
  \A a \in DOMAIN store.archs :
    LET sig == store.archs[a].sig
        n == Layout[sig].capacity
        at == Layout[sig].offsets
    IN  \A c \in Columns(sig) :
          /\ at[c] % AlignOf[c] = 0
          /\ at[c] >= n * IdBytes
          /\ at[c] + n * SizeOf[c] <= BlockBytes
          /\ \A d \in Columns(sig) \ {c} :
               at[c] + n * SizeOf[c] <= at[d] \/ at[d] + n * SizeOf[d] <= at[c]

(* Where the data of a component lies, as get_component returns it. *)
NoAddress == [block |-> 0, offset |-> 0]

get_component(t, s, id, c) ==
  IF ~IsAlive(t, id) \/ c \notin Columns(SigOf(s, id)) THEN NoAddress
  ELSE LET l == s.place[id.index]
       IN  [block |-> s.archs[l.arch].chunks[l.chunk].block,
            offset |-> Layout[SigOf(s, id)].offsets[c] + (l.row - 1) * SizeOf[c]]

component_version_in(t, s, id, c) ==
  IF ~IsAlive(t, id) \/ c \notin SigOf(s, id) THEN 0
  ELSE s.archs[s.place[id.index].arch].version

(* Inside one archetype a version that has not changed guards every        *)
(* address: no step moves the components of an entity that stays there     *)
(* without raising the version, and no version goes back.                  *)
VersionGuardsAddresses ==
  [][~ended' /\ store' # store =>
       /\ \A a \in DOMAIN store.archs : store'.archs[a].version >= store.archs[a].version
       /\ \A id \in LiveIds :
            LET a == store.place[id.index].arch
            IN  /\ store'.archs[a].version = store.archs[a].version
                /\ IsAlive(table', id)
                /\ store'.place[id.index].arch = a
                => \A c \in SigOf(store, id) :
                     get_component(table', store', id, c) = get_component(table, store, id, c)]_storageVars

(* The storage implements a plain map from entities to components. *)
Seen(s, id) ==
  [c \in SigOf(s, id) |->
     IF c \in Columns(SigOf(s, id)) THEN RowAt(s, s.place[id.index]).values[c] ELSE Present]

Entities(t, s) == [id \in {jd \in EntityID : IsAlive(t, jd)} |-> Seen(s, id)]
Fixed(t) == {id \in EntityID : IsImmutable(t, id)}

Promise ==
  INSTANCE EntityStore WITH
    entities <- Entities(table, store),
    frozen <- Fixed(table),
    Value <- Marks \cup {Present}

(* Whatever rows are packed, swapped or migrated, a caller sees each call  *)
(* change the components of the entity it names, and nothing else.         *)
StorageRefinesStore == Promise!Spec
=============================================================================

# OpenVic-Simulation: a TLA+ development

OpenVic-Simulation is the simulation library of a grand strategy game. Three
properties of it are hard to test and easy to lose: a day must give the same
result on every machine, whatever the number of threads; the machinery that
runs a day (slots and handles, schedulers, pools, queues of events and of player
actions) must not lose, repeat or reorder anything; and the facts that the
simulation keeps more than once (who owns, leads, is allied to, has paid whom)
must go on agreeing. This directory models that machinery and those books,
checks them with TLC on small instances and proves part of it with TLAPS. Paths
below are relative to `src/src/openvic-simulation/` unless they start with `src/`.

`PROJECT.json` ties every definition to the lines it was translated from, lists
the runs, the hazards, and for every checked property a mutant of the code that
breaks it.

## 1. Inventory

The repository has two engines side by side: the classic simulation (an object
tree under `InstanceManager`, run day by day by `SimulationClock`, in parallel
phases on `utility/ThreadPool`) and a newer entity component system under `ecs/`
(a `World`, a `SystemScheduler`, an `EcsThreadPool`) meant to carry it later.
The two do not call each other.

| Component | State | Operations | Hard behaviour | What makes it correct |
|---|---|---|---|---|
| Entity table (`ecs/World`, `EntityID`) | slots with generation, intrusive free list, structural-mutation flag | create, reserve, finalise, stamp immutable, destroy, snapshot, restore | long mixes of calls, wrapping generations, saves at odd moments | the free list is a chain over the dead slots; a dead handle stays dead; a restored World gives the same ids |
| ECS storage (`Archetype`, `ChunkPool`, `CachedRef`) | rows in pooled chunks, column versions, query cache | append, swap-and-pop, migrate, query, cached reads | rows move under cached pointers, a pool with a cap, an epoch that wraps | rows, slots and blocks agree; it behaves as a map from entities to components |
| Command buffers (`ecs/CommandBuffer`) | recorded ops, placeholders, created ids | record, merge, apply, clear | recorded ids stale at apply; rebasing | applying equals issuing the commands in order |
| System scheduler (`ecs/SystemScheduler`) | registry, graph, stages | register, unregister, clear, rebuild, run a stage | orientation of conflicts, slots left by removed systems | stages race free, ordered as declared, independent of registration order |
| ECS pool (`ecs/EcsThreadPool`) | queue, stop flag, workers, a counter per dispatch | dispatch, worker loop, destructor | nested dispatches, wake-ups, a counter on the caller's stack | a dispatch is a fork and join; nothing hangs |
| Game pool (`utility/ThreadPool`) | bundles of items with a generator each, a work kind per thread, active count | initialise, process_work, loop, destructor | wake-ups, partition of work | each phase visits each item once; draws do not depend on the threads |
| Game events (`misc/EventInstanceManager`, `misc/Event`, event effects) | fired-once records, queued events, player events, log | daily tick, fire, answer, pulse | effects that fire and queue events while loops run | due events fire on their day, an option runs once, a tick ends |
| Session and clock (`InstanceManager`, `misc/SimulationClock`, `misc/GameAction`) | action queue, flags, date, pause and speed | queue, execute, refresh, tick, force, set date | callbacks that queue during the update | actions in order, once; no stale refresh; time goes on |
| Reactive values (`utility/reactive`, `types/Signal`, `CowVector`) | cached value, dirty flag, tracked connections, shared lists of slots | read, set, recalculate, connect, disconnect, emit | lazy recalculation by several threads, lists written while they are walked | a clean value is current; an emission walks the list it began with |
| Goods market and needs (`economy/trading`, `population/Pop`) | orders, prices, cash | allocate, place, clear | fixed-point shares over several rounds | goods and money are conserved, nobody spends more than it has |
| Production (`economy/production`) | workers, output, wages, stockpiles of artisans | hire, produce, pay, choose a craft, order inputs | sharing loops that start again | everything paid has been earned; orders stay within cash |
| Treasury (`country/CountryInstance`) | budgets, cash, national stockpile | budget update, tick before and after the map | shares rounded one by one, products that exceed a word | what leaves a budget is what arrives |
| Countries, provinces, states (`country`, `map`) | owners, controllers, cores, states, unlock levels, ranks | set owner/controller/core, unlock, rank daily | each fact is kept on two sides | the sides agree |
| Map making (`map/MapDefinition`) | water, regions, adjacencies, two path maps | add standard and special adjacencies | every pair is written four times | adjacency is mutual and the path maps follow it |
| Pathfinding (`pathfinding`) | points, segments, what the searches keep | connect, disconnect, remove, search | segments kept thrice, pointers into a vector that moves | a path is found if there is one; segments agree |
| Armies and leaders (`military/UnitInstanceGroup`) | groups and leaders of countries, provinces | create, move, set leader, set country | partial refusals | leaders and groups name each other |
| Diplomacy (`diplomacy`) | twelve tables of relations, enemies, owners of spheres | setters, actions | keys that ignore order, copies beside the tables | tables and copies agree |
| Politics, rebels, decisions, modifiers, crimes | per-object values | daily and monthly ticks | mostly arithmetic | |
| Scripts, data loading, definitions, history | definitions that do not change after loading | parse, load | malformed data | outside the scope of model checking |
| Containers, fixed point, dates, colours, console, tests | libraries | | | used by what they do |

How they interact. The front end calls `GameManager` and `InstanceManager`; the
clock calls back into `InstanceManager::queue_game_action`; executing a tick
calls the instance managers in a fixed order and hands countries, provinces and
goods to the `ThreadPool` phase by phase; events run at the end of the tick's
serial part and call back into themselves through script effects. Pops place
orders with the markets while the provinces tick and are told what they bought
and sold while the goods tick; countries read reactive values that provinces and
other countries change. In the ECS, `World` owns a scheduler, which owns a pool;
bodies record into `CommandBuffer`s while the structural flag forbids direct
changes, and the buffers are merged and applied to the `World` at the barrier
that ends a stage.

## 2. Modules

| Module | Models | Built on |
|---|---|---|
| `SlotTable` | one World's slots as a value: the operators of `World.cpp` on it | |
| `EntitySlots` | a World in use: direct and recorded creates, destroys, tick phases, handle history | `SlotTable` |
| `IdentitySnapshot` | save, load into a second World, a damaged save, a common life afterwards | `EntitySlots` |
| `ChunkPool` | the pool of blocks, as a value | |
| `EntityStore` | abstract: a map from entities to components | |
| `WorldStorage` | archetypes, chunks, rows, batches, migration, queries | `SlotTable`, `ChunkPool`; refines `EntityStore` |
| `CachedRefs` | cached component pointers over the storage | `WorldStorage` |
| `ForkJoin` | abstract: a dispatch runs each of its chunks once, then returns | |
| `EcsThreadPool` | the ECS pool, critical section by critical section | refines `ForkJoin` |
| `SystemScheduler` | registry and `rebuild`, loop by loop | |
| `CommandBuffer` | recording, merging, applying, clearing, as operators | `SlotTable` |
| `StageRun` | a stage: gates, bodies interleaved per command, join, barrier; and the sequential meaning it is compared with | `CommandBuffer` |
| `GameEvents` | the events tick, firing, options, players, pulses | |
| `GameSession` | queue, clock, refresh, life cycle of a session | |
| `WorkPool` | the game's pool | refines `ForkJoin` |
| `ReactiveState` | mutable and derived states, observers, threads that get; run on the tariff states of a country, which `MCThreads` translates | |
| `SignalSlots` | the copy-on-write list of slots under emissions | |
| `GoodMarket` | a day of one good | |
| `NeedsAllocation` | how a pop shares its cash over needs | `GoodMarket` (fixed point) |
| `Treasury` | a country's money through its days | `GoodMarket` (fixed point) |
| `Production`, `Artisans` | a resource gathering operation; a pop of artisans | `GoodMarket` (fixed point) |
| `ProvinceOwnership` | owners, controllers, cores, states | |
| `CountryUnlocks` | technologies, inventions, what they unlock | |
| `GreatPowers` | rankings, great and secondary powers | |
| `UnitGroups` | armies, navies, leaders | |
| `Diplomacy` | tables, setters, actions | |
| `Pathfinding` | the map of points and both searches | |
| `MapDefinition` | water, regions, adjacencies, path maps | |
| `Folding` | what a fold computes, with its step and its invariant as parameters | |
| `SlotTableProofs` | what each operation of the slot table does | `SlotTable` |
| `EntitySlotsProofs` | the free list, dead handles and saves | `EntitySlots`, `IdentitySnapshot`, `SlotTableProofs` |
| `ArchetypeProofs` | chunks, pool, archetypes, batches, compaction | `WorldStorage`, `SlotTableProofs`, `Folding` |
| `WorldStorageProofs` | rows, blocks, caches, addresses; the refinement of `EntityStore` | `ArchetypeProofs` |
| `SystemSchedulerProofs` | race freedom, declared order, independence of registration order; the ECS pool is a fork and join | `SystemScheduler`, `EcsThreadPool`, `ForkJoin`, `Folding` |
| `ThreadProofs` | the draws and phases of the game pool; emissions | `WorkPool`, `ForkJoin`, `SignalSlots` |
| `GameProofs` | events, session; the books of ownership, units, diplomacy and unlocks | `GameEvents`, `GameSession`, `ProvinceOwnership`, `UnitGroups`, `Diplomacy`, `CountryUnlocks`, `Folding` |
| `MC...` | instances for TLC; `MCIdentity`, `MCGame`, `MCThreads` and `MCBooks` put several parts side by side, with the data of `MCEconomy` and `MCSystemScheduler` | |

### How states and actions correspond to the code

**`SlotTable`, `EntitySlots`.** `world` is `entity_slots`, `has_free_entity`,
`first_free_entity`. Generations are 32-bit with the top bit taken by
`DEFERRED_GENERATION_BIT`; the models use `1 .. GenMax` and wrap to 1 just as
`EntityID.hpp` wraps past the mask. The location of a finalised entity in its
archetype is reduced to whether it has one (`finalised`). `CreateEntity`,
`RecordCreate`, `ApplyCreate`, `DiscardCreate` and `DestroyEntity` are whole
calls; `TickPhase` is the flag that `SystemScheduler` raises around bodies.
`retired`, `wrapped` and `born` are history: which handles died, which slots
wrapped since, and how each entity was created.

**`IdentitySnapshot`.** `SnapshotIdentity` walks the chain as the code does and
refuses a World with an unfinalised slot; `RestoreIdentity` checks then builds;
`RestoreEntity` places one saved entity. After `FinishLoad` every operation is
applied to both Worlds.

**`ChunkPool`, `WorldStorage`, `CachedRefs`.** A chunk has a block of the pool, and
rows of entity and component values; all columns of an archetype are bumped
together, so one version stands for them. Layout is computed as the code does,
the first guess of the capacity and its lowering included. A query keeps its
matched archetypes and the epoch they were found in. `EntityStore` is what a
caller may rely on; `WorldStorage` is shown to implement it.

**`EcsThreadPool`.** One action per critical section: publishing the jobs,
the notification, taking a job, running it, the decrement with its notification,
the caller's test, the sleeps (with the atomic release of the mutex) and the
wake-ups, spurious ones included. `call[t]` is the `done_count`, `done_mutex` and
`done_cv` on the stack of a caller. The queue is a stack, as in the code (the
comment at `EcsThreadPool.hpp:110` speaks of FIFO); no property depends on that.

**`SystemScheduler`.** `edges` and `depth` are the adjacency lists and the
longest-path depths, recomputed after each edge as `rebuild` does.
`OrientConflict` is one iteration of the conflict loop in ascending type order,
`EmitSystem` one of Kahn's loop. A rebuild that finds a cycle is `Refused`.
`register_system` is called at most once at a time for a type, as the
scheduler's own lookups by type take for granted.

**`CommandBuffer`, `StageRun`.** A buffer is its list of ops, the number of
placeholders issued and the mode. `Execute` is one recorded command of one body,
so bodies interleave command by command; a create in a plain system reserves a
slot at once, a create in a threaded one takes a placeholder. `Join` merges the
chunk buffers in chunk order, `ApplyPending` applies one system's buffer,
`EndStage` clears. The reference meaning `Directly` evaluates the stage's gates
on entry and then issues every body's commands to the World without buffers.

**`GameEvents`.** An event's trigger, its AI's roll and its player's answer are
arbitrary choices. Effects run on an explicit `stack` of frames, since an option
may fire an event that runs at once. The iteration cursors of the code (`cursor`)
and the result of its lookup (`fired_for`) are state, because effects change the
containers they walk. `firings` is history: every firing with the options that
were run for it.

**`GameSession`.** `QueueGameAction` numbers the actions so that order and loss
can be told; `ExecuteAction` is one iteration of `execute_game_actions`, which
clears the queue when the loop is over (`EndExecution`); while
`currently_executing_game_actions` is set nothing can be queued. An action is
reduced to whether it reports a change. `stale` is history: a change was
reported that no refresh has shown.

**`WorkPool`.** `ItemsOf` and `WorkOf` are the two divisions of the code, items
into `WORK_BUNDLE_COUNT` bundles and bundles into threads. `drawn` is, per
bundle, the items of the phase in the order in which they drew from its generator.
A pass of the loop is the test of the cancellation flag, the wait, taking the work
kind, one step per item, and the decrement with its notification.

**`ReactiveState`, `SignalSlots`.** A thread has a stack of the calls it is in; the
locks of a state are state, and so are the connections a derived state has made.
`is_dirty` is stored and read outside its lock, in program order. In `SignalSlots`
the count of a payload is read and changed by atomic accesses, one step each, and
an emission walks the payload it copied the handle of.

**`GoodMarket`, `NeedsAllocation`, `Treasury`, `Production`, `Artisans`.** Fixed point
with a small `One`: products round down, quotients towards zero, `mul_div` through
a word of bounded width. A loop over orders, pops or goods is one operator; a
day of a market is one action, a day of a treasury the sequence of its calls.
What a pop buys is charged part by part, for the inputs of its trade and for each
category of its needs, each part of the money and of the tariff rounded down by
itself (`Expenses`, as in `Pop::after_buy`): the parts may come to less than the
whole, and `splits` counts by how much at most. Every order is a sum of such
wishes, so nothing that was bought is left over. Artisans order at the prices of
the morning and pay those of the day (`DayPrices`: the same, or as high as the
market may raise them).

**`ProvinceOwnership`, `UnitGroups`, `Diplomacy`, `CountryUnlocks`, `GreatPowers`.** One
action per setter or daily update, with every list it writes; a refused insert or
removal is recorded. States are named by their capital. Who is ranked is found anew
by every daily update (`Rankings` are the orders of any countries that `exist()`,
civilised ones first): a country that is gone keeps its last rank, its status
and its place in the list of great powers. The levels of the uncivilised, which
an update only exchanges for one another, are one status.

**`MapDefinition`, `Pathfinding`.** An image is a function from pixels to provinces;
each loop over pixels or lines of a file is one action. A search step is one
iteration of its loop, with the pointers and iterators it keeps checked for use
after the vectors moved.

## 3. Runs

| Run | Distinct states | Shows |
|---|---|---|
| `identity` | 300,535 | the free list is a chain through the dead slots; dead handles stay dead; a World between ticks can be saved; the loaded twin issues the same ids ever after; the ECS pool implements `ForkJoin` and every dispatch and destruction ends |
| `game` | 352,024 | queued events fire on their day, a firing runs one of its options once, the log agrees, a tick ends; actions run once and in order, no change misses the refresh, unpaused time goes on; goods and money are kept in market, needs, treasury, production and artisans, up to the rounding the models state |
| `threads` | 297,836 | a phase of the game's pool is a fork and join whose draws are those of a fixed partition; a clean reactive value is current and tracked; an emission keeps its list; nobody waits for ever |
| `storage` | 88,842 | rows, slots, blocks and query caches agree; layouts do not overlap; the whole implements `EntityStore`; an unchanged version in an unchanged archetype means an unchanged address |
| `books_and_schedules` | 370,408 | seven books of a nation: ownership, units, diplomacy and unlocks agree; ranks are sound while countries come and go; searches find what there is; the map is put together consistently. 120 programs times every registration history: race freedom, declared order, independence of registration order; every interleaving of two systems of a stage gives the World of the direct meaning |
| `immutable_stamp`, `lost_connection`, `cached_ref`, `market`, `wages`, `overspending`, `artisan_debt` | | the seven disagreements of section 6 |

In the runs of several parts one part is chosen in the initial state and the
others keep still: the parts share no state, so the interleavings of two of them
would show nothing that each alone does not.

Every run has behaviours that stop on purpose: a damaged save ends a load, a pool is destroyed,
the days, calls or moves of a model are used up. Deadlock is therefore not checked;
that nothing gets stuck is a liveness property (`CallsEnd`, `GameGoesOn`,
`NobodyWaitsForEver`).

### Bounds, and why they are enough

* `identity`: `MaxSlots = 2`, `GenMax = 3`, `MaxQueued = 1`. Two slots give every
  shape of chain (empty, head that is tail, head and tail) and reuse in either
  order; three generations let a slot wrap several times while an older handle
  is held. The proofs remove all three bounds, for the table and for its saves. The pool: two
  workers and the owner, `MaxChunks = 3`, `NestMax = 1`: more jobs than workers,
  both workers blocked in or behind the nested dispatch, the owner waiting on its
  own counter. One body at a time may nest.
* `books_and_schedules`, schedules: three types over two components, each with another of four
  access patterns (disjoint by filters, overlapping, extra lists), and five edge
  sets (none, single, a chain, a cycle); `MaxRegs = 3` slots, so removed slots are met. The
  proofs remove these bounds. Stages: three systems of which two run, two chunks, two commands a body, five
  bodies that cover each kind of op with own and foreign targets.
* `game`: two countries, two provinces (one without an owner), three events, two
  days, a log of two entries so that it overflows; `MaxFirings = 24` is never
  reached. Sessions: `MaxQueue = 3` actions waiting, `Days = 3` (dates modulo 3), two
  speeds; actions are numbered modulo `MaxQueue + 2`, enough to see a loss or a
  repetition.
  Market: `One = 4`, two buyers, three orders, both pricing rules. Needs: three
  goods in two categories. Treasury: two pops, two stored goods, four plans, two
  days, purchases for two and for three uses, `HalfWord = 512` so that products wrap. Production: five pops and one
  owner, revenues from 0 to 30. Artisans: four wares, three crafts, two days,
  the prices of the morning or the highest the day allows. `wages`, `overspending` and
  `artisan_debt` have the same bounds.
* `threads`: three bundles (the code has 32), up to four items of two kinds and a
  hardware concurrency of up to four, so one to three threads: fewer items than
  bundles, as many, more; threads that divide the bundles and that do not.
  Reactive: two threads, three reads each, the tariff states with a shared input
  and a conditional read. Signals: two emitters, two slots, three payloads.
* `storage`: three slots, chunks of one and of two rows (`BlockBytes = 24`), three
  blocks of which the pool keeps two, component ids 1 and 64 that collide modulo
  63 as two hashes may, an epoch that wraps at once (0, 1, then 1 again with the
  caches dropped), versions up to 4.
* `books_and_schedules`, books: ownership two provinces of one region and two countries under every rule;
  unlocks three technologies and two inventions that share features; powers four
  countries of which any two or more exist at an update, two great and one secondary
  rank, one day of grace; units two groups,
  a general, an admiral, two countries, two provinces; paths four points, any graph
  of five edges, three calls; diplomacy three countries, one topic of tables per
  behaviour, three moves; map strips of three and squares of four pixels, three
  provinces, two lines.
* The treasury is updated before every day and asks each pop it has projected
  (rule `Owner`); section 6 says what happens otherwise.

### Fairness, and why the code justifies it

* Pools and reactive values: weak fairness of each thread's next step and of the
  caller or owner that waits, i.e. the operating system runs every runnable
  thread. No fairness for new dispatches, sets, spurious wake-ups, or the call of
  the destructor. No notification is assumed to reach a thread that is not asleep.
* Events: weak fairness of the steps of a tick that has begun: one thread runs it.
  Nothing forces days, answers or changes of player.
* Session: weak fairness of the update in progress and of real time (`Elapse`),
  strong fairness of `UpdateClock`, because the front end polls it once a frame
  whatever else it does in between; nobody is obliged to unpause.

## 4. What is proved

Each proof module extends the modules it is about; the theorems listed in
`PROJECT.json` are for every value of the constants. The assumptions are those of
the modules themselves (`TableAssumption`, `SlotsAssumption`, `SchedulerAssumption`,
`SessionAssumption`, `EventsAssumption`, `PoolAssumption`, `WorkAssumption`, `SignalAssumption`,
`OwnershipAssumption`, `UnitAssumption`, `DiplomacyAssumption`,
`UnlocksAssumption`): they say what the constants are (finite sets,
natural bounds, definitions of the right shape, marker values that are no
members of the sets they mark), and TLC evaluates them in every run. The
invariants below were checked by TLC before they were proved.

**Entity table** (`EntitySlotsProofs`: `TypeOK`, `FreeChain`, `RetiredStayDead`). For
every number of slots, generation bound and bound on recorded creates.
`FreeChain` says the intrusive list visits the dead slots, each once, and ends in a
slot that points to itself; the code only stores the links, so the inductive
invariant `IInv` keeps the list as a ghost sequence `stack` and says that link `k`
points to entry `k + 1`. `RetiredStayDead` alone is not inductive: it needs to
know that a retired handle's generation is no newer than its slot's while the
slot has not wrapped. The argument runs through three relations, `AllocStep`,
`StampStep` and `FreeStep`, that say what the table's operations may change; the
operators are shown to be such steps (`ReuseFacts`, `PushBackFacts`, `StampFacts`,
`DestroyFacts`) and the invariant to be kept by them, so that seven actions share
three arguments.

**Saving and loading** (`EntitySlotsProofs`: `TwinAgrees`, `AlwaysSaveable`, `RoundTrip`).
For every number of slots and generations. `snapshot_identity` finds the free list by
walking links; `ChainNodes` solves that recursion (the walk visits the chain and then
stays at its last slot), so the free list of the file is exactly `stack`, which has
as many entries as there are dead slots (`ChainCount`, by a bijection): the checks
of the save never fire. What `restore_identity` makes of an acceptable file has that
list as its chain (`RestoredTable`), also when the file was damaged (`DamagedSound`).
The invariant `IdentityInv` says what the two Worlds are to each other: while the
entities are loaded the twin has the head of the chain and the slots of the World
up to `finalised` (`Kept`), and afterwards up to what no operation reads (`Alike`: the
link of a live slot, the bits of a dead one). Every call keeps two tables alike and
gives the same handle (`CreateAlike`, `StampAlike`, `DestroyAlike`), which is more than
the agreement at one moment that a comparison of two saves would show.

**Folds** (`Folding`). The loops of the code over a list or a batch are folds in the
models, and the folds of the community modules are recursive functions on the subsets of
a finite set. The library's induction theorems take an operator as a parameter and no
prover here can instantiate them; `Folding` takes the step, the choice of the next
element and the invariant as *constants* instead, and a module that proves something of
a fold takes a named instance of it. `FoldRecursion` is what the fold computes,
`FoldInvariant` the induction. Both rest on well-foundedness of the naturals alone.

**ECS storage** (`ArchetypeProofs`, `WorldStorageProofs`: `RowsMatchSlots`, `BlocksOwnedOnce`,
`CacheComplete`, `VersionGuardsAddresses`, `StorageRefinesStore`). For any components, layouts,
entities, blocks, values, creations and queries. `StorageInv` is the inductive invariant: the
table is sound (`TableSound`, the chain of section "Entity table"), every entity alive has one
row in an archetype of its signature, at the place its slot names, and every row is that of
one entity (`Placed`), chunks are full but for the last (`Packed`), every block is in one
chunk or once in the pool (`PoolSound`, `UsedOnce`), and caches of the current epoch are
complete (`CacheOK`). The calls break it half way: a migration has two rows for one entity, a
compaction a hole. So the layers below speak of a store with *holes*, rows that belong to
nobody: putting a row adds an entity (`PutPlaces`), a swap moves the hole to the end and the
row that is dropped closes it (`CompactFacts`, `DropFacts`), and what a call leaves has none.
Batches are folds over such steps (`ReserveFacts`, `AddFacts`), and so are the creation and
finalisation of slots (`CreatedFacts`, `FinalisedFacts`), the sweep of old blocks
(`AdvanceFacts`) and the drain of `~World` (`DrainFacts`). Each call is then one of six
relations between the table and store before and after: `Kept`, `Grew`, `Removed`, `Replaced`,
`Migrated`, or the end (`StepKinds`). They say what every entity keeps (its row, and its place
unless the version of its archetype went up: `Keeps`), from which both the addresses and the
refinement follow: `Grew` is `Appear`, `Removed` is `Disappear`, `Replaced` and `Migrated` are
`SetComponent` or `DropComponent`, and the rest are stutters.

**Scheduler** (`SystemSchedulerProofs`: `SchedulerTypeOK`, `StagesRaceFree`, `DeclaredOrder`,
`LayoutIgnoresRegistrationOrder`). For every
set of types, declarations, declared edges and registration history, two systems
of one stage never touch the same data of any archetype with one of them
writing. Two halves: `UnorderedPairsCannotRace` shows that what
`provably_disjoint` lets pass cannot overlap on any archetype, and the invariant
`SchedulerIInv` carries the rest through both loops of `rebuild`: depths increase
along edges (`GraphInv`), a conflict is waiting or joined by a path
(`OrientedInv`), a stage holds distinct systems of equal depth (`EmittedInv`), and
a path makes depths differ (`PathDeepens`), so a conflicting pair is never in one
stage (`SeparatedInv`).
`DeclaredOrder` needs an invariant of its own, `OrderIInv`: types are distinct, the
declared edges stay in the graph while conflicts are oriented (`DeclaredKept`),
and the loop of Kahn emits in order (`InOrderInv`): whatever is ready comes after
all that was emitted by depth and then by type, so stages deepen and are ascending
inside. That nothing is left out when the loop ends is the only argument about
all systems at once: among those left one has least depth (`LeastNumber`, from the
well-foundedness of the natural numbers), its predecessors were emitted, and so it
is ready (`NothingIsLeftOut`).

`LayoutIgnoresRegistrationOrder` compares two rebuilds, of two registries with
the same live types. `rebuild` works on registry indices; the proof states the same
algorithm on types, `OrientTypes`, and folds it over the conflicts in the order of
their types (`FinalEdges`, an instance of `Folding`). `BuildInv` says that while
conflicts are oriented the graph, read as types, is that fold over the conflicts taken
so far, which all come before those that wait: each test of an iteration
(a path, a cycle, the costs of the two directions) has the same answer on both sides
(`PathTyped`, `AcyclicTyped`, `PreferenceTyped`), a depth being unique and bounded
by the number of systems (`OneTypeDepth`, `DepthBound`). A graph of types admits one
layout (`OneLayout`): the depths of the stages, and the types of a stage, are each
the one ascending list of their set (`AscendingAgree`). `LayoutIInv` says that what is
in force, and what was seen, is that layout.

**ECS pool** (`SystemSchedulerProofs`: `ForkJoinRefined`). For any number of workers and chunks,
with nested dispatches, spurious wake-ups and a destructor that may come at any
moment the owner is idle: every behaviour of the pool is one of `ForkJoin`, which
says that a dispatch runs each of its chunks exactly once and returns after all
of them. The refinement mapping reads the abstract dispatches off `call` and `ran`
(`Active`, `Runs`). The steps can only be mapped under `PoolInv`: a chunk that is not
outstanding has run once, an outstanding one is in the queue or with exactly one
worker (`JobsSound`, `JobsOnce`), the counter is the cardinality of the
outstanding jobs (`CallsSound`), and a worker asleep in a nested dispatch is still
running its outer job (`WorkersSound`), which is what keeps an outer dispatch from
returning. `PoolInductive` is that invariant; under it each action is either a step
of `FJNext` or leaves the mapped variables alone (`FJStep`), action by action.

**Game pool** (`ThreadProofs`: `DrawsIndependentOfThreads`, `PhaseIsForkJoin`). For any
number of threads, bundles, items and phases. A thread works through consecutive items:
the parts of the division follow one another, so flattening the bundles of a thread
gives a contiguous piece of `1 .. Items` (`ChunkIsPiece`, `Flattened`, `WorkIsPiece`). One
number per thread therefore says everything about its progress: `Progress` is that
what it has still to do runs from that number to the end of its part, and that each of
its bundles has drawn its own items up to that number. Beside it, `WorkFlow` says that
`active_work_count` is the number of threads that have work (`Busy`), which is why
nobody has any when the owner returns. Then every bundle has drawn all of its items in
order, whatever the number of threads, and an item drawn has been drawn by one bundle
in one place (`DrawingOne`), which is the step of `ForkJoin`. Where a part begins is
a recursive function, and the flattening a fold: both are solved by writing the
solution down and showing it the only one, a difference having a first place where
it appears (`LeastNumber`). The assumption says that a tick has at least one phase
and that `NONE` is no kind, as in `work_t`, where it is an enumerator of its own.

**Events** (`GameProofs`: `NeverOverdue`, `FiringsComplete`). For any definitions of events
and effects, any countries, provinces and days, and any nesting of effects.
`NeverOverdue` needs `QueueInTime`: during the loop of `pending_events_tick` the entries
before the cursor lie in the future, the others on this day or later, which the
erasing of an entry and the appending by its effects have to keep.
`FiringsComplete` needs `History`: a firing whose option is still to come is in
exactly one place, a frame of the stack or the events of the players, and there
is an injection from the log into the firings that explains every record. The
injection is existential, so each step exhibits the next one: shifted when the
log drops its oldest record, extended when a record is appended.

**Session** (`GameProofs`: `ExecutedInOrder`, `GamestateFresh`). `QueueInOrder` says that the
actions left to execute carry consecutive numbers, from the last one executed to
the last one accepted; that the loop runs over a queue nobody can add to
meanwhile follows from `FlagsFollow`. `GamestateFresh` holds at rest only; `RefreshComing`
says where the news of a change is while the thread is elsewhere.

**Signals** (`ThreadProofs`: `EmissionsKeepTheirList`). For any number of threads, slots
and payloads. The payload of an emission is neither freed nor edited because the
count of a payload is exactly the number of its readers and of the handle
(`CountsExact`), and a writer edits in place only a payload whose count it has read as
one; between that read and the edit no emission can take a reference, because
taking one needs the mutex the writer holds (`WritersSound`). The atomic accesses
to the count are separate steps in the model, as in the code.

**Provinces, countries, armies** (`GameProofs`: `MapBooksAgree`, `UnitBooksAgree`, `DiplomacyAgrees`,
`UnlocksAgree`).
For any map, countries, rule of reporting, groups and leaders. `OwnershipInv` is
`MapBooksAgree` with the types of the variables; one lemma, `MovedAgrees`, says
that an item which moves in a fact and in the lists kept beside it leaves both in
step, and every setter is shown to be such a move. `UnitInv` adds that a group or leader
that was not made yet is in no list (`Unmade`); without it a new group could be
in a list twice.
`DiplomacyInv` takes a table as a set of entries with at most one for a key, whatever
the order of the two countries; `WritingKeeps` says that a write leaves it such a
set, puts the value under its key and changes no other reading. Beside that it says
that the enemies are the readings of the wars, and the owner of a sphere a
reading of the opinions, until an action was committed (`WarsAgree`,
`SpheresAgree`); that nobody is its own enemy is needed for a war to have two sides.
`UnlocksInv` says that the level of a feature is the sum of the levels of what activates
it, and a variant's the sum over its technologies (`ReasonsIn`). A sum is a fold; two
instances of `Folding` give what is needed of it: a sum is linear in its terms and not
negative when they are not (`SumFacts`, `SumAdds`), and changes by what one term changes by
(`SumChanges`). So a change moves each level by the change of its reasons
(`LevelsFollow`), and none is ever refused. The cultures are widened on one path and
recalculated on the other to the same (`AllowedFollows`, `MostPermissiveOfBoth`).

**Only model-checked.**

* Liveness (`CallsEnd`, `GameGoesOn`, `NobodyWaitsForEver`): it rests on fairness and
  `ENABLED`, outside what the prover handles.
* What other folds and recursions compute, where no invariant of the fold has been
  carried through yet: commands applied in order (`CommandBuffer`, `StageRun`), the value a
  reactive state ought to have (`ReactiveState`), sums over orders, pops, goods and workers
  (`GoodMarket`, `NeedsAllocation`, `Treasury`, `Production`, `Artisans`), the promotion loop (`GreatPowers`), paths (`Pathfinding`), loops over
  lines of the map (`MapDefinition`).
* The layout of a chunk (`LayoutSound`), whose capacity is found by a search over a sorted
  list of columns.
* Not proved yet: the tracking of reactive values (`TrackedOnce`).


## 5. Plan

Done, in this order: the entity table (the handles everything else rests on),
its snapshot, the ECS pool, the scheduler, command buffers and stages; the
classic simulation's events, pool and session; storage and cached references;
reactive values and signals; ownership, unlocks, powers, market, needs, treasury,
production, artisans, units, paths, diplomacy, map; then the proofs of section 4.

Left: the order in which `dataloader/Dataloader.cpp` fills and locks the registries
of definitions (each must be complete and locked when it is read, and the nodes a
definition keeps must outlive their parser until scripts are parsed); the dense
slot allocator and the ordered reductions of the ECS; dates; rivers; the
histories of provinces and countries; the sums of the daily updates.

## 6. What the models disagree with

* **`immutable_stamp`** (`ecs/CommandBuffer.cpp:63`). Applying a single recorded create
  stamps `immutable` on the slot by index only; if the reservation was dropped and
  the slot reused, a mutable entity becomes immutable. The bulk branch re-checks.
* **`cached_ref`** (`ecs/CachedRef.hpp:58`). A cached pointer is trusted when the version of
  the column is unchanged, but versions are counted per archetype: after a
  migration the numbers may agree although the pointer is another column's.
* **`lost_connection`** (`core/stl/containers/CowVector.hpp:286`). Connecting a slot during an
  emission writes a new list that is empty: the earlier connections are lost.
* **`market`** (`economy/trading/GoodMarket.cpp:215`). The purchasing power that is taken out of
  the sum for a satisfied buyer is not the one that was put in: a later buyer is
  given more than is offered and pays more than it has.
* **`wages`** (`economy/production/ResourceGatheringOperation.cpp:446`). A worker whose share is
  exactly its minimum wage is passed over without its wage being taken out.
* **`overspending`** (`country/CountryInstance.cpp:2378`, 2397). Pensions and unemployment subsidies
  are projected by rounding each down, and a pop's share of the social budget is divided
  by the sum of the two: the shares may exceed the budget, and the cash, by a unit, which
  the code reports as "a severe bug in the economy code". `TreasurySound` says that it is
  never more than that unit, and never another category.
* **`artisan_debt`** (`economy/production/ArtisanalProducer.cpp:282`, `population/Pop.cpp:394`). An
  input of which the pop wants none is not counted among the goods to buy, but taken off
  their number (171-174): the artisan sets aside a unit more than it has, and is in debt
  when the market takes it all. `ArtisanSound` bounds both by the number of such inputs.

Met while modelling, not shown by a run:

ECS and threads
* Plain systems reserve ids while recording, so two of them in one stage get ids
  that depend on the interleaving, against `src/docs/ecs/command-buffer.md:61` and
  `src/docs/ecs/determinism.md:57`. The stages of `books_and_schedules` have
  at most one plain creator.
* `CommandBuffer::clear` forgets reserved ids: their slots stay taken and no later
  snapshot is accepted.
* `MutableState.hpp:100`: the postfix operators announce the old value.
* `CowVector` has more faults of the kind above: a size of 0 while shared leads to a
  null dereference, the count is read and changed in separate accesses, `back()`
  reads one past the end, insertions allocate only what they insert.
* `RingBuffer`: `emplace_front` moves its offset twice, erasing loses elements, growing
  loses wrapped ones; only `push_back` and `fill` are used.
* Members of a pop that are not atomic (`Pop.hpp:138-164`: income, expenses by need) are
  added to by the threads of several goods: updates may be lost. Cash, total
  expenses, imports and tariffs are atomic.

Events and session
* Recording a `fire_only_once` event before it is executed does not stop an effect
  from firing it again (`EventInstanceManager.cpp:220`): the effect does not look.
* `country_events_tick` keeps one lookup of `fired_for` for all countries: a record
  made by an effect in between is missed, or the pointer dangles.
* An answer out of range is refused after the player's event was erased, so that
  event is never executed. `FiringsComplete` counts it as closed without an option.
* `SimulationClock.cpp:52` asks about the pause when it queues a tick, not when the tick
  is executed: a day may pass in a game that was paused in between.
* `set_today_and_update` called from the refresh callback sets the request for a
  refresh that `update_gamestate` then clears.
* `force_tick` does not ask whether a session has started; the date passes.
* `GameManager::load_mods`: after one failing mod the later ones are skipped, and the
  roots of the earlier ones stay, against the comment at `GameManager.cpp:134`.

Economy
* Import subsidies reach the pops with a negative sign (`CountryInstance.cpp:2549`): the tariff
  rate is negative, the budget and its projection are positive, and nothing cancels the
  sign out, against the comment at line 2552. The country earns what it was to pay.
* What an artisan produces is uninitialised when the
  chance to swap is not positive; all-time revenue is compared with a day's costs.
* `Pop.cpp:351` declares a local `income` over the member, so artisans receive twice
  their profit and the member nothing; inputs are subtracted although they were
  paid when bought.
* What a purchase costs is charged in parts that are rounded down (`Pop.cpp:702-737`): when it
  serves several uses, up to a unit less than the cost for each further one is never paid.
* `mul_div` overflows for large cash times weight;
  `affordable_price` is not capped (`GoodMarket.cpp:150-156`).
* The rules that let a controller report ask a country whose projection excludes the
  pops; two ticks without an update use stale unemployment.
* An unowned province keeps its employees on the books; revenue of yesterday stays
  when there is no output.

Nation and map
* `CountryInstance.cpp:1309-1339`: the running total of industrial power stays 0;
  1603 assigns monthly leadership points instead of adding them.
* `CountryInstanceManager.cpp:138`: `std::clamp` has its lower bound above the upper when fewer
  countries exist than there are great power ranks. That is undefined, and left out.
* `CountryInstanceManager.cpp:58-62`, 111-123: a country that loses its last province is
  not ranked any more, so a great power that is gone keeps its place for good if its last rank
  was a great one, and otherwise until its days of grace are over: a country ranked among
  the great has no slot, and the list has two countries of one rank. `RanksSound` says what
  remains true.
* A new unit group is only in its country's list; its first move reports an error;
  `set_country` keeps the old country's leader; `set_leader` drops the old leader
  before it refuses the new one.
* `DiplomaticAction.cpp:15-17` drops the cost of an action, so all cost 0; declaring
  war through an action sets only the table; a second sphere leaves the first
  owner's opinion; influence below zero wraps to 100.
* `MapDefinition.cpp:243`: impassable lines change only the adjacency lists, and the path
  maps stay connected; 178-182: of two water provinces only the first is closed to
  armies; land points have no position when paths are weighed (612); a river
  segment ends after one step (760).
* Fringe search estimates from the wrong point and does not find shortest paths;
  A* does for `weight_scale >= 1`; navies are given the land map
  (`AStarPathing.cpp:140`).

## 7. What is not modelled

The components with status `not_modelled` in `PROJECT.json`, each with its reason.
The mapped lines are a minority of the repository: what is left out is mostly
loading and parsing, definitions, aggregates recomputed from scratch, containers
and the console. In the modelled components: memory reclamation and object
lifetimes (beyond what the models name), weak memory ordering (each critical
section and each atomic access is one step of a machine with stores in program
order), logging and profiling, hashes and names, the contents of game actions,
the evaluation of triggers and weights, and the formats of save files (a save is
the value that is written; a damaged one has an entry added to its free list or a
generation out of range).

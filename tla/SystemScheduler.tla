--------------------------- MODULE SystemScheduler ---------------------------
(***************************************************************************)
(* How the ECS scheduler turns registered systems into stages              *)
(* (ecs/SystemScheduler.cpp, rebuild; ecs/SystemAccess.hpp; the registry   *)
(* operations of ecs/World.hpp and ecs/World.cpp).                         *)
(*                                                                         *)
(* A system type declares what its tick parameters read and write, which   *)
(* components its query excludes, what it touches outside the rows it      *)
(* iterates, and the types it must run after or before.  rebuild runs on   *)
(* one thread; its two loops (one conflict, one emitted system at a time)  *)
(* are one step per iteration, during which nothing else may happen.       *)
(* Nodes of the DAG are indices of the registry, dead slots included.      *)
(***************************************************************************)
EXTENDS Integers, Sequences, FiniteSets

CONSTANTS
  Types,        \* the system_type_id_t values, compared as numbers
  Components,   \* the component and singleton ids
  Programs,     \* the static metadata considered: functions from Types to declarations
  MaxRegs       \* bound of the model on the length of system_registry_

Declaration ==
  [reads : SUBSET Components, writes : SUBSET Components, exclude : SUBSET Components,
   extra_reads : SUBSET Components, extra_writes : SUBSET Components,
   run_after : SUBSET Types, run_before : SUBSET Types]

ASSUME SchedulerAssumption ==
  /\ Types \subseteq Nat
  /\ Programs \subseteq [Types -> Declaration]
  /\ MaxRegs \in Nat

VARIABLES
  program,      \* the static metadata of every system type
  registry,     \* system_registry_: the type and liveness of every registration
  dirty,        \* scheduler_dirty_
  built,        \* built_
  phase,        \* "idle", or the loop of rebuild that is running: "orient" or "emit"
  edges,        \* the DAG, local to rebuild, as pairs of registry indices
  depth,        \* the depth of every node, local to rebuild
  todo,         \* the conflict pairs not oriented yet, local to rebuild
  stages,       \* stages_: per stage, the registry indices in emit order
  seen          \* history: the layout of a schedule in which every type was live

schedulerVars == <<program, registry, dirty, built, phase, edges, depth, todo, stages, seen>>

NoLayout == << <<0>> >>

-----------------------------------------------------------------------------
(* Access sets after canonicalisation: a write absorbs a read. *)
Require(d) == d.reads \cup d.writes
Extra(d) == d.extra_reads \cup d.extra_writes
Access(d) == Require(d) \cup Extra(d)
Written(d) == d.writes \cup d.extra_writes

(* access_conflict_components; access_overlaps is its being non-empty. *)
Conflicts(a, b) == Access(a) \cap Access(b) \cap (Written(a) \cup Written(b))

DisjointIteration(a, b) ==
  \/ Require(a) \cap b.exclude # {}
  \/ Require(b) \cap a.exclude # {}

(* Mutant of ProvablyDisjoint: a conflict in an extra list is overlooked. *)
ProvablyDisjointByRows(a, b) ==
  /\ DisjointIteration(a, b)
  /\ Conflicts(a, b) \subseteq Require(a) \cap Require(b)

ProvablyDisjoint(a, b) ==
  /\ DisjointIteration(a, b)
  /\ Conflicts(a, b) \subseteq (Require(a) \cap Require(b)) \ (Extra(a) \cup Extra(b))

MustOrder(a, b) == Conflicts(a, b) # {} /\ ~ProvablyDisjoint(a, b)

-----------------------------------------------------------------------------
Nodes == DOMAIN registry

Live == {i \in Nodes : registry[i].alive}

TypeOf(i) == registry[i].type

Decl(i) == program[TypeOf(i)]

IsLiveType(t) == \E i \in Live : TypeOf(i) = t

(* Mutant of DeclaredEdges: run_before is forgotten. *)
DeclaredAfterOnly ==
  {e \in Live \X Live : TypeOf(e[1]) \in Decl(e[2]).run_after}

(* Phase 1: the declared edges between live registrations. *)
DeclaredEdges ==
  {e \in Live \X Live : \/ TypeOf(e[1]) \in Decl(e[2]).run_after
                        \/ TypeOf(e[2]) \in Decl(e[1]).run_before}

Preds(E, v) == {u \in Nodes : <<u, v>> \in E}

(* recompute_depths_or_detect_cycle: the longest path into each node, which *)
(* exists exactly when the graph has no cycle.                              *)
IsDepth(E, d) ==
  \A v \in Nodes :
    /\ \A u \in Preds(E, v) : d[u] < d[v]
    /\ d[v] # 0 => \E u \in Preds(E, v) : d[v] = d[u] + 1

Depths == [Nodes -> 0 .. Len(registry)]

Acyclic(E) == \E d \in Depths : IsDepth(E, d)

DepthOf(E) == CHOOSE d \in Depths : IsDepth(E, d)

(* path_exists: v is in every set that contains u and follows the edges. *)
PathExists(E, u, v) ==
  \A S \in SUBSET Nodes :
    (u \in S /\ \A e \in E : e[1] \in S => e[2] \in S) => v \in S

(* Phase 3: the pairs of live registrations that must not run together. *)
ConflictPairs ==
  {p \in Live \X Live : p[1] < p[2] /\ MustOrder(Decl(p[1]), Decl(p[2]))}

LowType(p) == IF TypeOf(p[1]) < TypeOf(p[2]) THEN TypeOf(p[1]) ELSE TypeOf(p[2])
HighType(p) == IF TypeOf(p[1]) < TypeOf(p[2]) THEN TypeOf(p[2]) ELSE TypeOf(p[1])

(* Pairs are taken in the order of their types, not of their indices. *)
IsNextConflict(p) ==
  \A q \in todo : \/ LowType(p) < LowType(q)
                  \/ LowType(p) = LowType(q) /\ HighType(p) <= HighType(q)

(* Phase 4: the depth the target of an edge would gain. *)
Cost(u, v) == IF depth[u] + 1 > depth[v] THEN depth[u] + 1 - depth[v] ELSE 0

(* Mutant of RunsFirst: ties go to the system registered first. *)
RunsFirstByIndex(u, v) == Cost(u, v) <= Cost(v, u)

(* Whether the edge goes from u to v, where u was registered before v. *)
RunsFirst(u, v) ==
  \/ Cost(u, v) < Cost(v, u)
  \/ Cost(u, v) = Cost(v, u) /\ TypeOf(u) <= TypeOf(v)

Oriented(p) == IF RunsFirst(p[1], p[2]) THEN p ELSE <<p[2], p[1]>>

Reversed(p) == <<p[2], p[1]>>

-----------------------------------------------------------------------------
(* register_system appends, whatever slots are dead.  A type is registered  *)
(* at most once at a time.                                                  *)
RegisterSystem(t) ==
  /\ phase = "idle"
  /\ Len(registry) < MaxRegs
  /\ ~IsLiveType(t)
  /\ registry' = Append(registry, [type |-> t, alive |-> TRUE])
  /\ dirty' = TRUE
  /\ UNCHANGED <<program, built, phase, edges, depth, todo, stages, seen>>

UnregisterSystem(i) ==
  /\ phase = "idle"
  /\ i \in Live
  /\ registry' = [registry EXCEPT ![i] = [type |-> TypeOf(i), alive |-> FALSE]]
  /\ dirty' = TRUE
  /\ UNCHANGED <<program, built, phase, edges, depth, todo, stages, seen>>

(* clear_systems, which invalidates the scheduler. *)
ClearSystems ==
  /\ phase = "idle"
  /\ registry' = <<>>
  /\ dirty' = TRUE
  /\ built' = FALSE
  /\ UNCHANGED <<program, phase, edges, depth, todo, stages, seen>>

(* rebuild returns, and its locals with it. *)
Returned ==
  /\ phase' = "idle"
  /\ dirty' = FALSE
  /\ edges' = {}
  /\ depth' = <<>>
  /\ todo' = {}

(* The stages are emptied and the schedule is marked unusable. *)
Refused ==
  /\ built' = FALSE
  /\ stages' = <<>>
  /\ Returned

(* tick_systems, schedule_hash or a debug accessor finds the schedule dirty: *)
(* phases 1 to 3, which end at once on a declared cycle.                     *)
BeginRebuild ==
  /\ phase = "idle"
  /\ dirty
  /\ \/ /\ ~Acyclic(DeclaredEdges)
        /\ Refused
     \/ /\ Acyclic(DeclaredEdges)
        /\ edges' = DeclaredEdges
        /\ depth' = DepthOf(DeclaredEdges)
        /\ todo' = ConflictPairs
        /\ phase' = "orient"
        /\ UNCHANGED <<dirty, built, stages>>
  /\ UNCHANGED <<program, registry, seen>>

(* One iteration of phase 4. *)
Continue(E, d, p) ==
  /\ edges' = E
  /\ depth' = d
  /\ todo' = todo \ {p}
  /\ UNCHANGED <<built, stages, dirty, phase>>

OrientConflict(p) ==
  /\ phase = "orient"
  /\ p \in todo
  /\ IsNextConflict(p)
  /\ LET preferred == edges \cup {Oriented(p)}
         fallback == edges \cup {Reversed(Oriented(p))}
     IN  IF PathExists(edges, p[1], p[2]) \/ PathExists(edges, p[2], p[1])
         THEN Continue(edges, depth, p)
         ELSE IF Acyclic(preferred) THEN Continue(preferred, DepthOf(preferred), p)
         ELSE IF Acyclic(fallback) THEN Continue(fallback, DepthOf(fallback), p)
         ELSE Refused
  /\ UNCHANGED <<program, registry, seen>>

BeginEmit ==
  /\ phase = "orient"
  /\ todo = {}
  /\ phase' = "emit"
  /\ stages' = <<>>
  /\ UNCHANGED <<program, registry, dirty, built, edges, depth, todo, seen>>

(* Phases 5 and 6: the ready system of least depth, then of least type,     *)
(* joins the last stage, or opens one when its depth differs.               *)
Emitted == {i \in Nodes : \E s \in DOMAIN stages : \E k \in DOMAIN stages[s] : stages[s][k] = i}

Ready == {v \in Live \ Emitted : Preds(edges, v) \subseteq Emitted}

ComesFirst(v) ==
  \A w \in Ready : \/ depth[v] < depth[w]
                   \/ depth[v] = depth[w] /\ TypeOf(v) <= TypeOf(w)

OpensStage(v) == stages = <<>> \/ depth[stages[Len(stages)][1]] # depth[v]

EmitSystem(v) ==
  /\ phase = "emit"
  /\ v \in Ready
  /\ ComesFirst(v)
  /\ stages' = IF OpensStage(v) THEN Append(stages, <<v>>)
               ELSE [stages EXCEPT ![Len(stages)] = Append(@, v)]
  /\ UNCHANGED <<program, registry, dirty, built, phase, edges, depth, todo, seen>>

(* The layout as peers compare it (schedule_hash folds exactly this). *)
Layout == [s \in DOMAIN stages |-> [k \in DOMAIN stages[s] |-> TypeOf(stages[s][k])]]

FinishRebuild ==
  /\ phase = "emit"
  /\ Ready = {}
  /\ built' = TRUE
  /\ Returned
  /\ seen' = IF seen = NoLayout /\ \A t \in Types : IsLiveType(t) THEN Layout ELSE seen
  /\ UNCHANGED <<program, registry, stages>>

SchedulerInit ==
  /\ program \in Programs
  /\ registry = <<>>
  /\ dirty = TRUE
  /\ built = FALSE
  /\ phase = "idle"
  /\ edges = {}
  /\ depth = <<>>
  /\ todo = {}
  /\ stages = <<>>
  /\ seen = NoLayout

SchedulerNext ==
  \/ \E t \in Types : RegisterSystem(t)
  \/ \E i \in Nodes : UnregisterSystem(i)
  \/ ClearSystems
  \/ BeginRebuild
  \/ \E p \in todo : OrientConflict(p)
  \/ BeginEmit
  \/ \E v \in Nodes : EmitSystem(v)
  \/ FinishRebuild

SchedulerSpec == SchedulerInit /\ [][SchedulerNext]_schedulerVars

-----------------------------------------------------------------------------
(* Type invariant of the scheduler. *)
SchedulerTypeOK ==
  /\ program \in [Types -> Declaration]
  /\ registry \in Seq([type : Types, alive : BOOLEAN])
  /\ dirty \in BOOLEAN /\ built \in BOOLEAN
  /\ phase \in {"idle", "orient", "emit"}
  /\ phase # "idle" => /\ edges \subseteq Live \X Live
                       /\ depth \in Depths
                       /\ todo \subseteq Live \X Live
  /\ stages \in Seq(Seq(Nat) \ {<<>>})

(* The schedule run uses: every change of the registry forces a rebuild. *)
InForce == built /\ ~dirty

(* What one system may touch while it runs.  A row belongs to an archetype, *)
(* a set of components; a singleton is reached through the extra lists.     *)
Matches(d, archetype) == Require(d) \subseteq archetype /\ archetype \cap d.exclude = {}

Touches(d, archetype, c) == c \in Extra(d) \/ (c \in Require(d) /\ Matches(d, archetype))

WritesTo(d, archetype, c) == c \in d.extra_writes \/ (c \in d.writes /\ Matches(d, archetype))

MayRace(a, b) ==
  \E archetype \in SUBSET Components, c \in Components :
    \/ WritesTo(a, archetype, c) /\ Touches(b, archetype, c)
    \/ WritesTo(b, archetype, c) /\ Touches(a, archetype, c)

(* Two systems of one stage run concurrently without synchronisation: on no *)
(* entity, of whatever archetype, does one write a component the other      *)
(* touches.  The disjoint-iteration override must not lose this.            *)
StagesRaceFree ==
  InForce => \A s \in DOMAIN stages :
               \A j, k \in DOMAIN stages[s] :
                 j # k => ~MayRace(Decl(stages[s][j]), Decl(stages[s][k]))

(* Each live system is scheduled exactly once and no dead one is; a         *)
(* declared run_after or run_before between two of them puts them in        *)
(* different stages, in that order, whatever the conflicts around them did; *)
(* and a stage lists its systems by ascending type, the order in which the  *)
(* barrier applies their commands.                                          *)
DeclaredOrder ==
  InForce =>
    /\ Emitted = Live
    /\ \A s1, s2 \in DOMAIN stages : \A j \in DOMAIN stages[s1], k \in DOMAIN stages[s2] :
         LET a == stages[s1][j]
             b == stages[s2][k]
         IN  /\ a = b => s1 = s2 /\ j = k
             /\ TypeOf(a) \in Decl(b).run_after \/ TypeOf(b) \in Decl(a).run_before => s1 < s2
             /\ s1 = s2 /\ j < k => TypeOf(a) < TypeOf(b)

(* The layout, and with it schedule_hash, is a function of the set of live  *)
(* system types: no order of registrations, removals and rebuilds shows.    *)
LayoutIgnoresRegistrationOrder ==
  InForce /\ seen # NoLayout /\ (\A t \in Types : IsLiveType(t)) => Layout = seen
=============================================================================

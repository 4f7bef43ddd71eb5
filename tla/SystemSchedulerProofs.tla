------------------------ MODULE SystemSchedulerProofs ------------------------
(***************************************************************************)
(* Proofs about how systems are scheduled and run.                         *)
(*                                                                         *)
(* For every set of system types, components and declarations: no schedule *)
(* in force lets two systems of one stage race.  The argument has two      *)
(* halves.  The static one: a pair the conflict test lets through cannot   *)
(* race on any archetype, disjoint-iteration override included.  The       *)
(* dynamic one: every other pair is joined by a path of the DAG, paths     *)
(* survive the edges added later, and a path separates two depths.         *)
(*                                                                         *)
(* That a schedule does not depend on the order of registration: rebuild   *)
(* works on registry indices, but every step of it is the step of the same *)
(* algorithm on types, a fold over the conflicts in their order, whose     *)
(* result is a function of the declarations and the live types; and its    *)
(* graph admits one layout.                                                *)
(*                                                                         *)
(* The worker pool that runs a stage (EcsThreadPool): for any number of    *)
(* workers, chunks and nested dispatches, a dispatch is a fork and join.   *)
(* What carries the proof is where a job can be: in the queue or with one  *)
(* worker until it is counted off, and never twice.                        *)
(***************************************************************************)
EXTENDS SystemScheduler, EcsThreadPool, SequenceTheorems, FiniteSetTheorems, WellFoundedInduction, TLAPS


-----------------------------------------------------------------------------
(* The static half. *)
LEMMA ConflictIsSymmetric ==
  ASSUME NEW a, NEW b
  PROVE  MustOrder(a, b) <=> MustOrder(b, a)
<1>1. Conflicts(a, b) = Conflicts(b, a)
  BY DEF Conflicts
<1>2. DisjointIteration(a, b) <=> DisjointIteration(b, a)
  BY DEF DisjointIteration
<1>3. (Require(a) \cap Require(b)) \ (Extra(a) \cup Extra(b))
        = (Require(b) \cap Require(a)) \ (Extra(b) \cup Extra(a))
  OBVIOUS
<1>4. QED
  BY <1>1, <1>2, <1>3 DEF MustOrder, ProvablyDisjoint

LEMMA RaceIsConflict ==
  ASSUME NEW a, NEW b, NEW archetype \in SUBSET Components, NEW c \in Components,
         WritesTo(a, archetype, c), Touches(b, archetype, c)
  PROVE  MustOrder(a, b)
<1>1. c \in Conflicts(a, b)
  BY DEF WritesTo, Touches, Conflicts, Access, Written, Require, Extra
<1>2. SUFFICES ASSUME ProvablyDisjoint(a, b) PROVE FALSE
  BY <1>1 DEF MustOrder
<1>3. c \in Require(a) /\ c \in Require(b) /\ c \notin Extra(a) /\ c \notin Extra(b)
  BY <1>1, <1>2 DEF ProvablyDisjoint
<1>4. Matches(a, archetype) /\ Matches(b, archetype)
  BY <1>3 DEF WritesTo, Touches, Extra
<1>5. Require(a) \cap b.exclude = {} /\ Require(b) \cap a.exclude = {}
  BY <1>4 DEF Matches
<1>6. QED
  BY <1>2, <1>5 DEF ProvablyDisjoint, DisjointIteration

LEMMA UnorderedPairsCannotRace ==
  ASSUME NEW a, NEW b, ~MustOrder(a, b)
  PROVE  ~MayRace(a, b)
BY RaceIsConflict, ConflictIsSymmetric DEF MayRace

-----------------------------------------------------------------------------
(* The dynamic half: paths and depths. *)
LEMMA EdgeIsPath ==
  ASSUME NEW E, NEW u, NEW v, <<u, v>> \in E
  PROVE  PathExists(E, u, v)
BY DEF PathExists

LEMMA PathSurvives ==
  ASSUME NEW E, NEW F, E \subseteq F, NEW u, NEW v, PathExists(E, u, v)
  PROVE  PathExists(F, u, v)
BY DEF PathExists

LEMMA PathDeepens ==
  ASSUME NEW E, E \subseteq Nodes \X Nodes, NEW d \in [Nodes -> Int], IsDepth(E, d),
         NEW u \in Nodes, NEW v \in Nodes, u # v, PathExists(E, u, v)
  PROVE  d[u] < d[v]
<1> DEFINE S == {w \in Nodes : w = u \/ d[u] < d[w]}
<1>1. S \in SUBSET Nodes /\ u \in S
  OBVIOUS
<1>2. ASSUME NEW e \in E, e[1] \in S PROVE e[2] \in S
  <2>1. e[1] \in Nodes /\ e[2] \in Nodes /\ e = <<e[1], e[2]>>
    OBVIOUS
  <2>2. e[1] \in Preds(E, e[2])
    BY <2>1 DEF Preds
  <2>3. d[e[1]] < d[e[2]]
    BY <2>1, <2>2 DEF IsDepth
  <2>4. d[u] \in Int /\ d[e[1]] \in Int /\ d[e[2]] \in Int
    BY <2>1
  <2>5. e[1] = u \/ d[u] < d[e[1]]
    BY <1>2
  <2>6. d[u] < d[e[2]]
    BY <2>3, <2>4, <2>5
  <2>7. QED
    BY <2>1, <2>6
<1>3. v \in S
  <2> HIDE DEF S
  <2>1. QED
    BY <1>1, <1>2 DEF PathExists
<1>4. QED
  BY <1>3

LEMMA ChosenDepth ==
  ASSUME NEW E, Acyclic(E)
  PROVE  DepthOf(E) \in Depths /\ IsDepth(E, DepthOf(E))
BY DEF Acyclic, DepthOf

-----------------------------------------------------------------------------
(* The strengthening.  While rebuild runs the schedule is dirty and depth is *)
(* the depth of the graph; every conflict is waiting or joined by a path;    *)
(* and while it emits, a stage is made of distinct systems of one depth.     *)
GraphInv ==
  phase # "idle" => dirty /\ IsDepth(edges, depth)

OrientedInv ==
  phase # "idle" =>
    \A p \in ConflictPairs :
      \/ p \in todo
      \/ PathExists(edges, p[1], p[2])
      \/ PathExists(edges, p[2], p[1])

StageInv(stage) ==
  /\ \A j \in DOMAIN stage : stage[j] \in Live /\ depth[stage[j]] = depth[stage[1]]
  /\ \A j, k \in DOMAIN stage : j # k => stage[j] # stage[k]

EmittedInv ==
  phase = "emit" => todo = {} /\ \A s \in DOMAIN stages : StageInv(stages[s])

SeparatedInv ==
  InForce => \A s \in DOMAIN stages : \A j, k \in DOMAIN stages[s] :
               j # k => ~MustOrder(Decl(stages[s][j]), Decl(stages[s][k]))

SchedulerIInv ==
  SchedulerTypeOK /\ GraphInv /\ OrientedInv /\ EmittedInv /\ SeparatedInv

LEMMA InitEstablishes == SchedulerInit => SchedulerIInv
<1> SUFFICES ASSUME SchedulerInit PROVE SchedulerIInv
  OBVIOUS
<1> USE DEF SchedulerInit
<1>1. SchedulerTypeOK
  <2>1. stages \in Seq(Seq(Nat) \ {<<>>})
    OBVIOUS
  <2>2. registry \in Seq([type : Types, alive : BOOLEAN])
    OBVIOUS
  <2>3. program \in [Types -> Declaration]
    BY SchedulerAssumption
  <2>4. QED
    BY <2>1, <2>2, <2>3 DEF SchedulerTypeOK
<1>2. QED
  BY <1>1 DEF SchedulerIInv, GraphInv, OrientedInv, EmittedInv, SeparatedInv, InForce

LEMMA IndexOfSequence ==
  ASSUME NEW R, NEW s \in Seq(R), NEW i \in DOMAIN s
  PROVE  i \in 1 .. Len(s) /\ Len(s) \in Nat /\ s[i] \in R
OBVIOUS

LEMMA RegistryChangeKeeps ==
  ASSUME SchedulerIInv,
         \/ \E t \in Types : RegisterSystem(t)
         \/ \E i \in Nodes : UnregisterSystem(i)
         \/ ClearSystems
  PROVE  SchedulerIInv'
<1>1. phase' = "idle" /\ dirty' /\ program' = program /\ built' \in BOOLEAN /\ dirty' \in BOOLEAN
      /\ stages' = stages
  BY DEF RegisterSystem, UnregisterSystem, ClearSystems, SchedulerIInv, SchedulerTypeOK
<1>2. registry' \in Seq([type : Types, alive : BOOLEAN])
  <2>1. registry \in Seq([type : Types, alive : BOOLEAN])
    BY DEF SchedulerIInv, SchedulerTypeOK
  <2>2. ASSUME NEW t \in Types, RegisterSystem(t)
        PROVE  registry' \in Seq([type : Types, alive : BOOLEAN])
    BY <2>1, <2>2 DEF RegisterSystem
  <2>3. ASSUME NEW i \in Nodes, UnregisterSystem(i)
        PROVE  registry' \in Seq([type : Types, alive : BOOLEAN])
    <3> DEFINE R == [type : Types, alive : BOOLEAN]
               r == [type |-> TypeOf(i), alive |-> FALSE]
    <3>0. i \in DOMAIN registry
      BY DEF Nodes
    <3>1. i \in 1 .. Len(registry) /\ registry[i] \in R
      BY <2>1, <3>0, IndexOfSequence
    <3>2. r \in R
      BY <3>1 DEF TypeOf
    <3>3. registry' = [registry EXCEPT ![i] = r]
      BY <2>3 DEF UnregisterSystem
    <3> HIDE DEF R, r
    <3>4. [registry EXCEPT ![i] = r] \in Seq(R)
      BY <2>1, <3>1, <3>2, ExceptSeq DEF R
    <3>5. QED
      BY <3>3, <3>4 DEF R
  <2>4. ASSUME ClearSystems
        PROVE  registry' \in Seq([type : Types, alive : BOOLEAN])
    BY <2>4 DEF ClearSystems
  <2>5. QED
    BY <2>2, <2>3, <2>4
<1>3. SchedulerTypeOK'
  BY <1>1, <1>2 DEF SchedulerIInv, SchedulerTypeOK
<1>4. QED
  BY <1>1, <1>3 DEF SchedulerIInv, GraphInv, OrientedInv, EmittedInv, SeparatedInv, InForce

(* rebuild returning without a schedule leaves nothing in force. *)
LEMMA RefusedKeeps ==
  ASSUME SchedulerTypeOK, Refused, UNCHANGED <<program, registry, seen>>
  PROVE  SchedulerIInv'
<1>1. SchedulerTypeOK'
  <2>1. <<>> \in Seq(Seq(Nat) \ {<<>>})
    OBVIOUS
  <2>2. QED
    BY <2>1 DEF SchedulerTypeOK, Refused, Returned
<1>2. QED
  BY <1>1 DEF Refused, Returned, SchedulerIInv, GraphInv, OrientedInv, EmittedInv,
              SeparatedInv, InForce

(* The registry does not move, so neither does what is read off it. *)
LEMMA RegistryFixed ==
  ASSUME UNCHANGED <<program, registry>>
  PROVE  /\ Nodes' = Nodes /\ Live' = Live /\ Depths' = Depths
         /\ ConflictPairs' = ConflictPairs
         /\ \A i : Decl(i)' = Decl(i)
         /\ \A E, d : IsDepth(E, d)' <=> IsDepth(E, d)
         /\ \A E, u, v : PathExists(E, u, v)' <=> PathExists(E, u, v)
<1>1. Nodes' = Nodes
  BY DEF Nodes
<1>2. Live' = Live
  BY <1>1 DEF Live
<1>3. Depths' = Depths
  BY <1>1 DEF Depths
<1>4. \A i : Decl(i)' = Decl(i)
  BY DEF Decl, TypeOf
<1>5. ConflictPairs' = ConflictPairs
  BY <1>2, <1>4 DEF ConflictPairs
<1>6. \A E, d : IsDepth(E, d)' <=> IsDepth(E, d)
  BY <1>1 DEF IsDepth, Preds
<1>7. \A E, u, v : PathExists(E, u, v)' <=> PathExists(E, u, v)
  BY <1>1 DEF PathExists
<1>8. QED
  BY <1>1, <1>2, <1>3, <1>4, <1>5, <1>6, <1>7

LEMMA BeginRebuildKeeps ==
  ASSUME SchedulerIInv, BeginRebuild
  PROVE  SchedulerIInv'
<1>0. SchedulerTypeOK /\ phase = "idle" /\ dirty /\ UNCHANGED <<program, registry, seen>>
  BY DEF SchedulerIInv, BeginRebuild
<1>1. CASE Refused
  BY <1>0, <1>1, RefusedKeeps
<1>2. CASE /\ Acyclic(DeclaredEdges)
           /\ edges' = DeclaredEdges
           /\ depth' = DepthOf(DeclaredEdges)
           /\ todo' = ConflictPairs
           /\ phase' = "orient"
           /\ UNCHANGED <<dirty, built, stages>>
  <2>1. depth' \in Depths /\ IsDepth(edges', depth')
    BY <1>2, ChosenDepth
  <2>2. edges' \subseteq Live \X Live /\ todo' \subseteq Live \X Live
    BY <1>2 DEF DeclaredEdges, ConflictPairs
  <2>3. SchedulerTypeOK'
    BY <1>0, <1>2, <2>1, <2>2, RegistryFixed DEF SchedulerTypeOK
  <2>4. GraphInv'
    BY <1>0, <1>2, <2>1, RegistryFixed DEF GraphInv
  <2>5. OrientedInv'
    BY <1>0, <1>2, RegistryFixed DEF OrientedInv
  <2>6. EmittedInv' /\ SeparatedInv'
    BY <1>0, <1>2 DEF EmittedInv, SeparatedInv, InForce
  <2>7. QED
    BY <2>3, <2>4, <2>5, <2>6 DEF SchedulerIInv
<1>3. QED
  BY <1>1, <1>2 DEF BeginRebuild

(* An iteration of phase 4 that goes on: no edge is lost, and the pair it  *)
(* took is joined.                                                         *)
LEMMA ContinueKeeps ==
  ASSUME SchedulerIInv, phase = "orient", UNCHANGED <<program, registry, seen>>,
         NEW p \in todo, NEW E, E \subseteq Live \X Live, edges \subseteq E,
         NEW d \in Depths, IsDepth(E, d), Continue(E, d, p),
         PathExists(E, p[1], p[2]) \/ PathExists(E, p[2], p[1])
  PROVE  SchedulerIInv'
<1>0. /\ SchedulerTypeOK /\ dirty
      /\ edges' = E /\ depth' = d /\ todo' = todo \ {p}
      /\ UNCHANGED <<built, stages, dirty, phase>>
  BY DEF SchedulerIInv, GraphInv, Continue
<1>1. SchedulerTypeOK'
  BY <1>0, RegistryFixed DEF SchedulerTypeOK
<1>2. GraphInv'
  BY <1>0, RegistryFixed DEF GraphInv
<1>3. OrientedInv'
  <2>1. SUFFICES ASSUME NEW q \in ConflictPairs
                 PROVE  \/ q \in todo'
                        \/ PathExists(E, q[1], q[2])
                        \/ PathExists(E, q[2], q[1])
    BY <1>0, RegistryFixed DEF OrientedInv
  <2>2. \/ q \in todo
        \/ PathExists(edges, q[1], q[2])
        \/ PathExists(edges, q[2], q[1])
    BY DEF SchedulerIInv, OrientedInv
  <2>3. CASE q = p
    BY <2>3
  <2>4. CASE q \in todo /\ q # p
    BY <1>0, <2>4
  <2>5. CASE PathExists(edges, q[1], q[2]) \/ PathExists(edges, q[2], q[1])
    BY <2>5, PathSurvives
  <2>6. QED
    BY <2>2, <2>3, <2>4, <2>5
<1>4. EmittedInv' /\ SeparatedInv'
  BY <1>0 DEF EmittedInv, SeparatedInv, InForce
<1>5. QED
  BY <1>1, <1>2, <1>3, <1>4 DEF SchedulerIInv

LEMMA OrientConflictKeeps ==
  ASSUME SchedulerIInv, NEW p \in todo, OrientConflict(p)
  PROVE  SchedulerIInv'
<1> DEFINE q == Oriented(p)
           preferred == edges \cup {q}
           fallback == edges \cup {Reversed(q)}
<1>0. /\ SchedulerTypeOK /\ phase = "orient" /\ UNCHANGED <<program, registry, seen>>
      /\ edges \subseteq Live \X Live /\ depth \in Depths /\ IsDepth(edges, depth)
      /\ p \in Live \X Live
  BY DEF OrientConflict, SchedulerIInv, SchedulerTypeOK, GraphInv
<1>1. q = <<p[1], p[2]>> \/ q = <<p[2], p[1]>>
  BY <1>0 DEF Oriented
<1>2. q \in Live \X Live /\ Reversed(q) \in Live \X Live
  BY <1>0, <1>1 DEF Reversed
<1>3. Reversed(q) = <<p[1], p[2]>> \/ Reversed(q) = <<p[2], p[1]>>
  BY <1>1 DEF Reversed
<1>4. CASE /\ PathExists(edges, p[1], p[2]) \/ PathExists(edges, p[2], p[1])
           /\ Continue(edges, depth, p)
  BY <1>0, <1>4, ContinueKeeps
<1>5. CASE Acyclic(preferred) /\ Continue(preferred, DepthOf(preferred), p)
  <2>1. DepthOf(preferred) \in Depths /\ IsDepth(preferred, DepthOf(preferred))
    BY <1>5, ChosenDepth
  <2>2. PathExists(preferred, p[1], p[2]) \/ PathExists(preferred, p[2], p[1])
    BY <1>1, EdgeIsPath
  <2>3. preferred \subseteq Live \X Live /\ edges \subseteq preferred
    BY <1>0, <1>2
  <2>4. QED
    BY <1>0, <1>5, <2>1, <2>2, <2>3, ContinueKeeps
<1>6. CASE Acyclic(fallback) /\ Continue(fallback, DepthOf(fallback), p)
  <2>1. DepthOf(fallback) \in Depths /\ IsDepth(fallback, DepthOf(fallback))
    BY <1>6, ChosenDepth
  <2>2. PathExists(fallback, p[1], p[2]) \/ PathExists(fallback, p[2], p[1])
    BY <1>3, EdgeIsPath
  <2>3. fallback \subseteq Live \X Live /\ edges \subseteq fallback
    BY <1>0, <1>2
  <2>4. QED
    BY <1>0, <1>6, <2>1, <2>2, <2>3, ContinueKeeps
<1>7. CASE Refused
  BY <1>0, <1>7, RefusedKeeps
<1>8. QED
  BY <1>4, <1>5, <1>6, <1>7 DEF OrientConflict

LEMMA BeginEmitKeeps ==
  ASSUME SchedulerIInv, BeginEmit
  PROVE  SchedulerIInv'
<1>0. /\ SchedulerTypeOK /\ GraphInv /\ OrientedInv
      /\ phase = "orient" /\ phase' = "emit" /\ todo = {} /\ stages' = <<>>
      /\ UNCHANGED <<program, registry, dirty, built, edges, depth, todo, seen>>
  BY DEF SchedulerIInv, BeginEmit
<1>1. SchedulerTypeOK'
  <2>1. <<>> \in Seq(Seq(Nat) \ {<<>>})
    OBVIOUS
  <2>2. QED
    BY <1>0, <2>1, RegistryFixed DEF SchedulerTypeOK
<1>2. GraphInv' /\ OrientedInv'
  BY <1>0, RegistryFixed DEF GraphInv, OrientedInv
<1>3. EmittedInv' /\ SeparatedInv'
  BY <1>0 DEF EmittedInv, SeparatedInv, GraphInv, InForce
<1>4. QED
  BY <1>1, <1>2, <1>3 DEF SchedulerIInv

(* A new stage, or a system of the same depth that was in none, keeps them so. *)
LEMMA StageGrows ==
  ASSUME NEW stage \in Seq(Nat) \ {<<>>}, StageInv(stage),
         NEW v \in Live, v \in Nat, depth[v] = depth[stage[1]],
         \A k \in DOMAIN stage : stage[k] # v
  PROVE  StageInv(Append(stage, v))
<1> DEFINE grown == Append(stage, v)
<1>1. /\ Len(stage) \in Nat \ {0} /\ DOMAIN stage = 1 .. Len(stage)
      /\ DOMAIN grown = 1 .. Len(stage) + 1
      /\ grown[Len(stage) + 1] = v
      /\ \A k \in DOMAIN stage : grown[k] = stage[k]
  OBVIOUS
<1>2. grown[1] = stage[1]
  BY <1>1
<1> HIDE DEF grown
<1>3. \A j \in DOMAIN grown : j \in DOMAIN stage \/ j = Len(stage) + 1
  BY <1>1
<1>4. \A j \in DOMAIN grown : grown[j] \in Live /\ depth[grown[j]] = depth[grown[1]]
  BY <1>1, <1>2, <1>3 DEF StageInv
<1>5. \A j, k \in DOMAIN grown : j # k => grown[j] # grown[k]
  BY <1>1, <1>3 DEF StageInv
<1>6. StageInv(grown)
  BY <1>4, <1>5 DEF StageInv
<1>7. QED
  BY <1>6 DEF grown

LEMMA EmitSystemKeeps ==
  ASSUME SchedulerIInv, NEW v \in Nodes, EmitSystem(v)
  PROVE  SchedulerIInv'
<1> DEFINE T == Seq(Nat) \ {<<>>}
<1>0. /\ SchedulerTypeOK /\ GraphInv /\ OrientedInv
      /\ phase = "emit" /\ todo = {}
      /\ UNCHANGED <<program, registry, dirty, built, phase, edges, depth, todo, seen>>
      /\ dirty
  BY DEF SchedulerIInv, EmittedInv, EmitSystem, GraphInv
<1>1. v \in Live /\ v \in Nat /\ \A s \in DOMAIN stages : \A k \in DOMAIN stages[s] : stages[s][k] # v
  <2>1. v \in Live \ Emitted
    BY DEF EmitSystem, Ready
  <2>2. v \in Nat
    BY <1>0, IndexOfSequence DEF Nodes, SchedulerTypeOK
  <2>3. QED
    BY <2>1, <2>2 DEF Emitted
<1>2. stages \in Seq(T) /\ \A s \in DOMAIN stages : StageInv(stages[s])
  BY <1>0 DEF SchedulerTypeOK, SchedulerIInv, EmittedInv
<1>3. \A stage : StageInv(stage)' <=> StageInv(stage)
  BY <1>0, RegistryFixed DEF StageInv
<1>4. stages' \in Seq(T) /\ \A s \in DOMAIN stages' : StageInv(stages'[s])
  <2>1. CASE OpensStage(v)
    <3>1. stages' = Append(stages, <<v>>)
      BY <2>1 DEF EmitSystem
    <3>2. <<v>> \in T /\ StageInv(<<v>>)
      BY <1>1 DEF StageInv
    <3> HIDE DEF T
    <3>3. QED
      BY <1>2, <3>1, <3>2
  <2>2. CASE ~OpensStage(v)
    <3> DEFINE last == Len(stages)
               grown == Append(stages[last], v)
    <3>1. stages # <<>> /\ depth[stages[last][1]] = depth[v]
      BY <2>2 DEF OpensStage
    <3>2. last \in 1 .. Len(stages) /\ last \in DOMAIN stages /\ stages[last] \in T
      <4> HIDE DEF T
      <4>1. QED
        BY <1>2, <3>1
    <3>3. StageInv(grown)
      BY <1>1, <1>2, <3>1, <3>2, StageGrows
    <3>4. grown \in T
      BY <1>1, <3>2
    <3>5. stages' = [stages EXCEPT ![last] = grown]
      BY <2>2 DEF EmitSystem
    <3> HIDE DEF T, grown, last
    <3>6. QED
      BY <1>2, <3>2, <3>3, <3>4, <3>5
  <2>3. QED
    BY <2>1, <2>2
<1>5. SchedulerTypeOK'
  BY <1>0, <1>4, RegistryFixed DEF SchedulerTypeOK
<1>6. GraphInv' /\ OrientedInv' /\ EmittedInv' /\ SeparatedInv'
  BY <1>0, <1>3, <1>4, RegistryFixed
     DEF GraphInv, OrientedInv, EmittedInv, SeparatedInv, InForce
<1>7. QED
  BY <1>5, <1>6 DEF SchedulerIInv

(* The schedule goes into force: two systems of a stage have one depth, so   *)
(* no path joins them, so they are no conflict.                             *)
LEMMA FinishRebuildKeeps ==
  ASSUME SchedulerIInv, FinishRebuild
  PROVE  SchedulerIInv'
<1>0. /\ SchedulerTypeOK /\ GraphInv /\ OrientedInv /\ EmittedInv
      /\ phase = "emit" /\ UNCHANGED <<program, registry, stages>>
      /\ Returned /\ built'
  BY DEF SchedulerIInv, FinishRebuild
<1>1. /\ edges \subseteq Nodes \X Nodes /\ depth \in [Nodes -> Int]
      /\ IsDepth(edges, depth) /\ todo = {}
  BY <1>0 DEF SchedulerTypeOK, GraphInv, EmittedInv, Live, Depths
<1>2. ASSUME NEW u \in Live, NEW v \in Live, u # v, depth[u] = depth[v]
      PROVE  <<u, v>> \notin ConflictPairs
  <2>1. SUFFICES ASSUME <<u, v>> \in ConflictPairs PROVE FALSE
    OBVIOUS
  <2>2. PathExists(edges, u, v) \/ PathExists(edges, v, u)
    BY <1>0, <1>1, <2>1 DEF OrientedInv
  <2>3. depth[u] < depth[v] \/ depth[v] < depth[u]
    BY <1>1, <1>2, <2>2, PathDeepens DEF Live
  <2>4. depth[u] \in Int
    BY <1>1 DEF Live
  <2>5. QED
    BY <1>2, <2>3, <2>4
<1>3. ASSUME NEW u \in Live, NEW v \in Live, u # v, depth[u] = depth[v]
      PROVE  ~MustOrder(Decl(u), Decl(v))
  <2>1. u \in Int /\ v \in Int
    BY <1>0, IndexOfSequence DEF Nodes, Live, SchedulerTypeOK
  <2>2. CASE u < v
    BY <1>2, <1>3, <2>2 DEF ConflictPairs
  <2>3. CASE v < u
    BY <1>2, <1>3, <2>3, ConflictIsSymmetric DEF ConflictPairs
  <2>4. QED
    BY <1>3, <2>1, <2>2, <2>3
<1>4. SeparatedInv'
  <2>1. SUFFICES ASSUME NEW s \in DOMAIN stages, NEW j \in DOMAIN stages[s],
                        NEW k \in DOMAIN stages[s], j # k
                 PROVE  ~MustOrder(Decl(stages[s][j]), Decl(stages[s][k]))
    BY <1>0, RegistryFixed DEF SeparatedInv
  <2>2. StageInv(stages[s])
    BY <1>0 DEF EmittedInv
  <2>3. QED
    BY <1>3, <2>1, <2>2 DEF StageInv
<1>5. SchedulerTypeOK'
  BY <1>0 DEF SchedulerTypeOK, Returned
<1>6. GraphInv' /\ OrientedInv' /\ EmittedInv'
  BY <1>0 DEF GraphInv, OrientedInv, EmittedInv, Returned
<1>7. QED
  BY <1>4, <1>5, <1>6 DEF SchedulerIInv

LEMMA StutterKeeps ==
  ASSUME SchedulerIInv, UNCHANGED schedulerVars
  PROVE  SchedulerIInv'
<1>1. UNCHANGED <<program, registry>> /\ UNCHANGED <<dirty, built, phase, edges, depth, todo, stages, seen>>
  BY DEF schedulerVars
<1>2. SchedulerTypeOK' /\ GraphInv' /\ OrientedInv'
  BY <1>1, RegistryFixed DEF SchedulerIInv, SchedulerTypeOK, GraphInv, OrientedInv
<1>3. EmittedInv' /\ SeparatedInv'
  BY <1>1, RegistryFixed DEF SchedulerIInv, EmittedInv, StageInv, SeparatedInv, InForce
<1>4. QED
  BY <1>2, <1>3 DEF SchedulerIInv

(* The strengthening is inductive over every operation on the registry and   *)
(* every iteration of rebuild.                                              *)
THEOREM SchedulerInductive == SchedulerSpec => []SchedulerIInv
<1>1. SchedulerInit => SchedulerIInv
  BY InitEstablishes
<1>2. SchedulerIInv /\ [SchedulerNext]_schedulerVars => SchedulerIInv'
  <2>1. SUFFICES ASSUME SchedulerIInv, [SchedulerNext]_schedulerVars PROVE SchedulerIInv'
    OBVIOUS
  <2>2. CASE \/ \E t \in Types : RegisterSystem(t)
             \/ \E i \in Nodes : UnregisterSystem(i)
             \/ ClearSystems
    BY <2>1, <2>2, RegistryChangeKeeps
  <2>3. CASE BeginRebuild
    BY <2>1, <2>3, BeginRebuildKeeps
  <2>4. CASE \E p \in todo : OrientConflict(p)
    BY <2>1, <2>4, OrientConflictKeeps
  <2>5. CASE BeginEmit
    BY <2>1, <2>5, BeginEmitKeeps
  <2>6. CASE \E v \in Nodes : EmitSystem(v)
    BY <2>1, <2>6, EmitSystemKeeps
  <2>7. CASE FinishRebuild
    BY <2>1, <2>7, FinishRebuildKeeps
  <2>8. CASE UNCHANGED schedulerVars
    BY <2>1, <2>8, StutterKeeps
  <2>9. QED
    BY <2>1, <2>2, <2>3, <2>4, <2>5, <2>6, <2>7, <2>8 DEF SchedulerNext
<1>3. QED
  BY <1>1, <1>2, PTL DEF SchedulerSpec

(* The types of the scheduler's state, whatever the systems declare. *)
THEOREM SchedulerTypeCorrect == SchedulerSpec => []SchedulerTypeOK
<1>1. SchedulerIInv => SchedulerTypeOK
  BY DEF SchedulerIInv
<1>2. QED
  BY <1>1, SchedulerInductive, PTL

(* No schedule in force, for any number of systems and components and any    *)
(* declarations, lets two systems of a stage race (SystemScheduler::rebuild, *)
(* provably_disjoint).                                                      *)
THEOREM CoStagedSystemsNeverRace == SchedulerSpec => []StagesRaceFree
<1>1. SchedulerIInv => StagesRaceFree
  BY UnorderedPairsCannotRace DEF SchedulerIInv, SeparatedInv, StagesRaceFree
<1>2. QED
  BY <1>1, SchedulerInductive, PTL

-----------------------------------------------------------------------------
(* The order of a schedule.  A type has at most one live registration; the  *)
(* declared edges stay in the graph; and the loop that emits has passed     *)
(* every system that comes before those that are ready.                     *)
TypesDistinct == \A i, j \in Live : TypeOf(i) = TypeOf(j) => i = j

DeclaredKept == phase # "idle" => DeclaredEdges \subseteq edges

Before(u, v) ==
  \/ depth[u] < depth[v]
  \/ depth[u] = depth[v] /\ TypeOf(u) < TypeOf(v)

(* Stages deepen, and ascend by type within. *)
Ascending(st) ==
  \A s, t \in DOMAIN st : \A j \in DOMAIN st[s], k \in DOMAIN st[t] :
    /\ s < t => depth[st[s][j]] < depth[st[t][k]]
    /\ s = t /\ j < k => TypeOf(st[s][j]) < TypeOf(st[t][k])

InOrderInv ==
  phase = "emit" => /\ Ascending(stages)
                    /\ \A u \in Emitted, v \in Ready : Before(u, v)

OrderIInv == TypesDistinct /\ DeclaredKept /\ InOrderInv /\ DeclaredOrder

LEMMA LeastNumber ==
  ASSUME NEW T \in SUBSET Nat, T # {}
  PROVE  \E x \in T : \A y \in T : x <= y
<1> DEFINE R == OpToRel(<, Nat)
<1>1. IsWellFoundedOn(R, Nat)
  BY NatLessThanWellFounded
<1>2. \A x, y \in Nat : x < y => <<x, y>> \in R
  BY DEF OpToRel
<1> HIDE DEF R
<1>3. PICK x \in T : \A y \in T : <<y, x>> \notin R
  BY <1>1, WFMin
<1>4. \A y \in T : y \in Nat /\ x \in Nat /\ ~(y < x)
  BY <1>2, <1>3
<1>5. \A y \in T : x <= y
  BY <1>4
<1> QED
  BY <1>5

(* When nothing is ready, everything is placed: of the systems that are not, *)
(* one of least depth would be ready.                                       *)
LEMMA NothingIsLeftOut ==
  ASSUME SchedulerIInv, phase = "emit", Ready = {}
  PROVE  Emitted = Live
<1> DEFINE left == Live \ Emitted
           T == {depth[v] : v \in left}
<1>0. /\ edges \subseteq Live \X Live /\ depth \in [Nodes -> Nat] /\ IsDepth(edges, depth)
      /\ Live \subseteq Nodes
      /\ \A s \in DOMAIN stages : \A k \in DOMAIN stages[s] : stages[s][k] \in Live
  BY DEF SchedulerIInv, SchedulerTypeOK, GraphInv, EmittedInv, StageInv, Depths, Live
<1>1. Emitted \subseteq Live
  BY <1>0 DEF Emitted
<1>2. SUFFICES ASSUME left # {} PROVE FALSE
  BY <1>1
<1>3. T \in SUBSET Nat /\ T # {}
  BY <1>0, <1>2
<1> HIDE DEF T
<1>4. PICK n \in T : \A m \in T : n <= m
  BY <1>3, LeastNumber
<1>5. PICK v \in left : n = depth[v]
  BY <1>4 DEF T
<1>6. ASSUME NEW u \in Preds(edges, v) PROVE u \in Emitted
  <2>1. u \in Live /\ v \in Nodes
    BY <1>0, <1>5 DEF Preds
  <2>2. depth[u] < depth[v]
    BY <1>0, <2>1 DEF IsDepth
  <2>3. CASE u \in left
    <3>1. depth[u] \in T /\ depth[u] \in Nat /\ depth[v] \in Nat
      BY <1>0, <2>1, <2>3 DEF T
    <3>2. depth[v] <= depth[u]
      BY <1>4, <1>5, <3>1
    <3> QED
      BY <2>2, <3>1, <3>2
  <2> QED
    BY <2>1, <2>3
<1>7. v \in Ready
  BY <1>5, <1>6 DEF Ready
<1> QED
  BY <1>7

(* Where an emission leaves the entries: those there were stay where they    *)
(* are, and the new one, v in place k of stage t, is the last.              *)
LastPlace(st, new, v, t, k) ==
  /\ new[t][k] = v
  /\ \A s \in DOMAIN st : \A j \in DOMAIN st[s] :
       s \in DOMAIN new /\ j \in DOMAIN new[s] /\ new[s][j] = st[s][j]
  /\ \A s \in DOMAIN new : \A j \in DOMAIN new[s] :
       \/ s = t /\ j = k
       \/ s \in DOMAIN st /\ j \in DOMAIN st[s] /\ new[s][j] = st[s][j] /\ s <= t /\ (s = t => j < k)

LEMMA EmissionPlaces ==
  ASSUME NEW st \in Seq(Seq(Nat) \ {<<>>}), NEW v \in Nat, NEW opens \in BOOLEAN,
         ~opens => st # <<>>, NEW new,
         new = IF opens THEN Append(st, <<v>>) ELSE [st EXCEPT ![Len(st)] = Append(@, v)]
  PROVE  \E t \in DOMAIN new : \E k \in DOMAIN new[t] :
           LastPlace(st, new, v, t, k) /\ t = IF opens THEN Len(st) + 1 ELSE Len(st)
<1> USE DEF LastPlace
<1> DEFINE n == Len(st)
<1>0. n \in Nat /\ DOMAIN st = 1 .. n
  OBVIOUS
<1>1. CASE opens
  <2>1. /\ DOMAIN new = 1 .. n + 1 /\ new[n + 1] = <<v>>
        /\ \A s \in 1 .. n : new[s] = st[s]
    BY <1>1
  <2>0. DOMAIN <<v>> = {1} /\ <<v>>[1] = v
    OBVIOUS
  <2> HIDE DEF n
  <2>2. n + 1 \in 1 .. n + 1 /\ \A s \in 1 .. n + 1 : s = n + 1 \/ (s \in 1 .. n /\ s <= n + 1 /\ s # n + 1)
    BY ONLY <1>0
  <2>3. /\ n + 1 \in DOMAIN new /\ DOMAIN new[n + 1] = {1} /\ new[n + 1][1] = v
        /\ \A s \in DOMAIN new : s = n + 1 \/ (s \in 1 .. n /\ s <= n + 1 /\ s # n + 1)
    BY ONLY <2>0, <2>1, <2>2
  <2>4. \A s \in DOMAIN st : \A j \in DOMAIN st[s] :
          s \in DOMAIN new /\ j \in DOMAIN new[s] /\ new[s][j] = st[s][j]
    BY <1>0, <2>1
  <2>5. \A s \in DOMAIN new : \A j \in DOMAIN new[s] :
          \/ s = n + 1 /\ j = 1
          \/ /\ s \in DOMAIN st /\ j \in DOMAIN st[s] /\ new[s][j] = st[s][j] /\ s <= n + 1
             /\ (s = n + 1 => j < 1)
    BY <1>0, <2>1, <2>3
  <2> QED
    BY <1>1, <2>3, <2>4, <2>5 DEF n
<1>2. CASE ~opens
  <2> DEFINE last == st[n]
             m == Len(last)
  <2>1. n \in 1 .. n /\ last \in Seq(Nat) /\ m \in Nat /\ DOMAIN last = 1 .. m
    BY <1>0, <1>2
  <2>2. /\ DOMAIN new = 1 .. n /\ new[n] = Append(last, v)
        /\ \A s \in 1 .. n : s # n => new[s] = st[s]
    BY <1>0, <1>2, <2>1
  <2>3. /\ DOMAIN new[n] = 1 .. m + 1 /\ new[n][m + 1] = v
        /\ \A j \in 1 .. m : new[n][j] = last[j]
    BY <2>1, <2>2
  <2>4. \A j \in 1 .. m + 1 : j = m + 1 \/ (j \in 1 .. m /\ j < m + 1)
    BY <2>1, SMTT(40)
  <2>5. \A s \in 1 .. n : s <= n
    BY <1>0
  <2>6. m + 1 \in 1 .. m + 1 /\ \A j \in 1 .. m : j \in 1 .. m + 1
    BY <2>1
  <2> HIDE DEF n, m, last
  <2>7. \A s \in DOMAIN st : \A j \in DOMAIN st[s] :
          s \in DOMAIN new /\ j \in DOMAIN new[s] /\ new[s][j] = st[s][j]
    BY <1>0, <2>1, <2>2, <2>3, <2>6 DEF last
  <2>8. \A s \in DOMAIN new : \A j \in DOMAIN new[s] :
          \/ s = n /\ j = m + 1
          \/ s \in DOMAIN st /\ j \in DOMAIN st[s] /\ new[s][j] = st[s][j] /\ s <= n /\ (s = n => j < m + 1)
    BY <1>0, <2>1, <2>2, <2>3, <2>4, <2>5 DEF last
  <2> QED
    BY <1>2, <2>1, <2>2, <2>3, <2>6, <2>7, <2>8 DEF n
<1> QED
  BY <1>1, <1>2

LEMMA OrderInit == SchedulerInit => OrderIInv
BY DEF SchedulerInit, OrderIInv, TypesDistinct, DeclaredKept, InOrderInv, DeclaredOrder,
       InForce, Live, Nodes

(* Outside the loop that emits, and with no schedule in force, only the      *)
(* types and the graph are left to look at.                                 *)
LEMMA OrderWhileBuilding ==
  ASSUME TypesDistinct', DeclaredKept', phase' # "emit", ~InForce'
  PROVE  OrderIInv'
BY DEF OrderIInv, InOrderInv, DeclaredOrder

LEMMA RegistryChangeOrders ==
  ASSUME SchedulerIInv, OrderIInv,
         \/ \E t \in Types : RegisterSystem(t)
         \/ \E i \in Nodes : UnregisterSystem(i)
         \/ ClearSystems
  PROVE  OrderIInv'
<1>1. phase' = "idle" /\ dirty'
  BY DEF RegisterSystem, UnregisterSystem, ClearSystems
<1>2. TypesDistinct'
  <2>0. registry \in Seq([type : Types, alive : BOOLEAN]) /\ TypesDistinct
    BY DEF SchedulerIInv, SchedulerTypeOK, OrderIInv
  <2>1. ASSUME NEW t \in Types, RegisterSystem(t) PROVE TypesDistinct'
    <3> DEFINE n == Len(registry)
               r == [type |-> t, alive |-> TRUE]
    <3>1. /\ DOMAIN registry = 1 .. n /\ n \in Nat /\ registry' = Append(registry, r)
          /\ \A i \in Live : TypeOf(i) # t
      BY <2>0, <2>1 DEF RegisterSystem, IsLiveType
    <3>2. /\ DOMAIN registry' = 1 .. n + 1 /\ registry'[n + 1] = r
          /\ \A i \in 1 .. n : registry'[i] = registry[i]
      BY <2>0, <3>1
    <3>0. registry'[n + 1].type = t
      BY <3>2
    <3> HIDE DEF n, r
    <3>3. ASSUME NEW i \in Live' 
          PROVE \/ i = n + 1 /\ TypeOf(i)' = t
                \/ i \in Live /\ TypeOf(i)' = TypeOf(i)
      <4>1. i \in 1 .. n + 1 /\ registry'[i].alive
        <5>1. i \in DOMAIN registry' /\ registry'[i].alive
          BY DEF Live, Nodes
        <5> QED
          BY <3>2, <5>1
      <4>2. CASE i = n + 1
        BY <3>0, <4>2 DEF TypeOf
      <4>3. CASE i # n + 1
        <5>1. i \in 1 .. n
          BY <3>1, <4>1, <4>3
        <5> QED
          BY <3>1, <3>2, <4>1, <5>1 DEF TypeOf, Live, Nodes
      <4> QED
        BY <4>2, <4>3
    <3> QED
      BY <2>0, <3>1, <3>3 DEF TypesDistinct
  <2>2. ASSUME NEW k \in Nodes, UnregisterSystem(k) PROVE TypesDistinct'
    <3>1. registry' = [registry EXCEPT ![k] = [type |-> TypeOf(k), alive |-> FALSE]]
      BY <2>2 DEF UnregisterSystem
    <3>2. ASSUME NEW i \in Live' PROVE i \in Live /\ TypeOf(i)' = TypeOf(i)
      BY <2>0, <3>1 DEF Live, Nodes, TypeOf
    <3> QED
      BY <2>0, <3>2 DEF TypesDistinct
  <2>3. CASE ClearSystems
    BY <2>3 DEF ClearSystems, TypesDistinct, Live, Nodes
  <2> QED
    BY <2>1, <2>2, <2>3
<1>3. DeclaredKept'
  BY <1>1 DEF DeclaredKept
<1> QED
  BY <1>1, <1>2, <1>3, OrderWhileBuilding DEF InForce

(* What the order is read off when the registry does not move. *)
LEMMA OrderFixed ==
  ASSUME UNCHANGED <<program, registry>>
  PROVE  /\ DeclaredEdges' = DeclaredEdges
         /\ \A i : TypeOf(i)' = TypeOf(i)
         /\ TypesDistinct' <=> TypesDistinct
<1>1. \A i : TypeOf(i)' = TypeOf(i)
  BY DEF TypeOf
<1>2. Live' = Live /\ \A i : Decl(i)' = Decl(i)
  BY RegistryFixed
<1>3. DeclaredEdges' = DeclaredEdges
  BY <1>1, <1>2 DEF DeclaredEdges
<1>4. TypesDistinct' <=> TypesDistinct
  BY <1>1, <1>2 DEF TypesDistinct
<1> QED
  BY <1>1, <1>3, <1>4

LEMMA BuildingOrders ==
  ASSUME SchedulerIInv, OrderIInv, BeginRebuild \/ \E p \in todo : OrientConflict(p)
  PROVE  OrderIInv'
<1>0. UNCHANGED <<program, registry>> /\ dirty /\ phase # "emit"
  BY DEF BeginRebuild, OrientConflict, SchedulerIInv, GraphInv
<1>1. TypesDistinct'
  BY <1>0, OrderFixed DEF OrderIInv
<1>2. DeclaredKept' /\ phase' # "emit" /\ ~InForce'
  <2>1. CASE Refused
    BY <2>1 DEF Refused, Returned, DeclaredKept, InForce
  <2>2. CASE edges' = DeclaredEdges /\ phase' = "orient" /\ UNCHANGED dirty
    BY <1>0, <2>2, OrderFixed DEF DeclaredKept, InForce
  <2>3. ASSUME NEW p \in todo, NEW E, edges \subseteq E, NEW d, Continue(E, d, p), phase = "orient"
        PROVE  DeclaredKept' /\ phase' # "emit" /\ ~InForce'
    BY <1>0, <2>3, OrderFixed DEF Continue, DeclaredKept, InForce, OrderIInv
  <2>4. CASE BeginRebuild
    BY <2>1, <2>2, <2>4 DEF BeginRebuild
  <2>5. ASSUME NEW p \in todo, OrientConflict(p)
        PROVE  DeclaredKept' /\ phase' # "emit" /\ ~InForce'
    <3>1. \/ Refused
          \/ \E E, d : edges \subseteq E /\ Continue(E, d, p)
      BY <2>5 DEF OrientConflict
    <3> QED
      BY <2>1, <2>3, <2>5, <3>1 DEF OrientConflict
  <2> QED
    BY <2>4, <2>5
<1> QED
  BY <1>1, <1>2, OrderWhileBuilding

LEMMA BeginEmitOrders ==
  ASSUME SchedulerIInv, OrderIInv, BeginEmit
  PROVE  OrderIInv'
<1>0. /\ phase = "orient" /\ phase' = "emit" /\ stages' = <<>> /\ dirty
      /\ UNCHANGED <<program, registry, dirty, edges, depth>>
  BY DEF BeginEmit, SchedulerIInv, GraphInv
<1>1. TypesDistinct' /\ DeclaredKept'
  BY <1>0, OrderFixed DEF OrderIInv, DeclaredKept
<1>2. InOrderInv'
  BY <1>0 DEF InOrderInv, Ascending, Emitted
<1>3. DeclaredOrder'
  BY <1>0 DEF DeclaredOrder, InForce
<1> QED
  BY <1>1, <1>2, <1>3 DEF OrderIInv

LEMMA TypesAreNumbers ==
  ASSUME registry \in Seq([type : Types, alive : BOOLEAN]), NEW i \in Nodes
  PROVE  TypeOf(i) \in Nat
<1>1. registry[i] \in [type : Types, alive : BOOLEAN]
  BY IndexOfSequence DEF Nodes
<1> QED
  BY <1>1, SchedulerAssumption DEF TypeOf

LEMMA BeforeIsTransitive ==
  ASSUME NEW u \in Nodes, NEW v \in Nodes, NEW w \in Nodes,
         registry \in Seq([type : Types, alive : BOOLEAN]), depth \in [Nodes -> Nat],
         Before(u, v), Before(v, w)
  PROVE  Before(u, w)
<1>1. /\ depth[u] \in Nat /\ depth[v] \in Nat /\ depth[w] \in Nat
      /\ TypeOf(u) \in Nat /\ TypeOf(v) \in Nat /\ TypeOf(w) \in Nat
  BY TypesAreNumbers
<1> QED
  BY <1>1 DEF Before

LEMMA EmitSystemOrders ==
  ASSUME SchedulerIInv, OrderIInv, NEW v \in Nodes, EmitSystem(v)
  PROVE  OrderIInv'
<1>0. /\ phase = "emit" /\ phase' = "emit" /\ dirty /\ v \in Ready /\ ComesFirst(v) /\ TypesDistinct
      /\ UNCHANGED <<program, registry, dirty, edges, depth>>
      /\ registry \in Seq([type : Types, alive : BOOLEAN]) /\ depth \in [Nodes -> Nat]
      /\ stages \in Seq(Seq(Nat) \ {<<>>})
      /\ edges \subseteq Live \X Live /\ IsDepth(edges, depth) /\ Live \subseteq Nodes
      /\ \A s \in DOMAIN stages : StageInv(stages[s])
      /\ Ascending(stages) /\ \A u \in Emitted, w \in Ready : Before(u, w)
  BY DEF SchedulerIInv, SchedulerTypeOK, GraphInv, EmittedInv, EmitSystem, OrderIInv, InOrderInv,
         Depths, Live
<1>1. TypesDistinct' /\ DeclaredKept' /\ DeclaredOrder'
  BY <1>0, OrderFixed DEF OrderIInv, DeclaredKept, DeclaredOrder, InForce
<1>2. v \in Nat /\ v \in Live
  BY <1>0, IndexOfSequence DEF Nodes, Ready
<1>3. \E t \in DOMAIN stages' : \E k \in DOMAIN stages'[t] :
        /\ LastPlace(stages, stages', v, t, k)
        /\ t = IF OpensStage(v) THEN Len(stages) + 1 ELSE Len(stages)
  <2>1. ~OpensStage(v) => stages # <<>>
    BY DEF OpensStage
  <2>2. stages' = IF OpensStage(v) THEN Append(stages, <<v>>)
                  ELSE [stages EXCEPT ![Len(stages)] = Append(@, v)]
    BY DEF EmitSystem
  <2>3. OpensStage(v) \in BOOLEAN
    BY DEF OpensStage
  <2> DEFINE opens == OpensStage(v)
             new == stages'
  <2>4. /\ stages \in Seq(Seq(Nat) \ {<<>>}) /\ v \in Nat /\ opens \in BOOLEAN /\ (~opens => stages # <<>>)
        /\ new = IF opens THEN Append(stages, <<v>>) ELSE [stages EXCEPT ![Len(stages)] = Append(@, v)]
    BY <1>0, <1>2, <2>1, <2>2, <2>3
  <2> HIDE DEF opens, new
  <2>5. \E t \in DOMAIN new : \E k \in DOMAIN new[t] :
          LastPlace(stages, new, v, t, k) /\ t = IF opens THEN Len(stages) + 1 ELSE Len(stages)
    BY ONLY <2>4, EmissionPlaces
  <2> QED
    BY <2>5 DEF opens, new
<1>4. PICK t \in DOMAIN stages' : \E k \in DOMAIN stages'[t] :
        /\ LastPlace(stages, stages', v, t, k)
        /\ t = IF OpensStage(v) THEN Len(stages) + 1 ELSE Len(stages)
  BY <1>3
<1>5. PICK k \in DOMAIN stages'[t] :
        /\ LastPlace(stages, stages', v, t, k)
        /\ t = IF OpensStage(v) THEN Len(stages) + 1 ELSE Len(stages)
  BY <1>4
<1>6. /\ stages'[t][k] = v
      /\ \A s \in DOMAIN stages : \A j \in DOMAIN stages[s] :
           s \in DOMAIN stages' /\ j \in DOMAIN stages'[s] /\ stages'[s][j] = stages[s][j]
      /\ \A s \in DOMAIN stages' : \A j \in DOMAIN stages'[s] :
           \/ s = t /\ j = k
           \/ /\ s \in DOMAIN stages /\ j \in DOMAIN stages[s] /\ stages'[s][j] = stages[s][j]
              /\ s <= t /\ (s = t => j < k)
  BY <1>5 DEF LastPlace
<1>7. ASSUME NEW s \in DOMAIN stages, NEW j \in DOMAIN stages[s]
      PROVE  /\ stages[s][j] \in Emitted /\ stages[s][j] \in Live
             /\ depth[stages[s][j]] = depth[stages[s][1]]
  BY <1>0 DEF Emitted, StageInv
<1>8. \A u \in Emitted : Before(u, v)
  BY <1>0
(* What was there comes before v in every sense that is left. *)
<1>9. ASSUME NEW s \in DOMAIN stages, NEW j \in DOMAIN stages[s]
      PROVE  /\ s < t => depth[stages[s][j]] < depth[v]
             /\ s = t => TypeOf(stages[s][j]) < TypeOf(v)
  <2> DEFINE u == stages[s][j]
             n == Len(stages)
             head == stages[n][1]
  <2>1. /\ Before(u, v) /\ u \in Nodes /\ n \in Nat /\ DOMAIN stages = 1 .. n /\ s \in 1 .. n
    BY <1>0, <1>7, <1>8, SMTT(40)
  <2>2. depth[u] \in Nat /\ depth[v] \in Nat
    BY <1>0, <2>1
  <2>3. n \in DOMAIN stages /\ 1 \in DOMAIN stages[n] /\ stages # <<>>
    <3>1. n \in 1 .. n
      BY <2>1
    <3>2. stages[n] \in Seq(Nat) \ {<<>>}
      BY <1>0, <2>1, <3>1
    <3> QED
      BY <2>1, <3>1, <3>2
  <2>4. head \in Live /\ head \in Emitted /\ Before(head, v) /\ depth[head] \in Nat
    <3>1. head \in Live /\ head \in Emitted
      BY <1>7, <2>3
    <3> QED
      BY <1>0, <1>8, <3>1
  <2>5. s < n => depth[u] < depth[head]
    BY <1>0, <2>3 DEF Ascending
  <2>6. s = n => depth[u] = depth[head]
    BY <1>7
  <2>7. depth[head] <= depth[v]
    BY <2>2, <2>4 DEF Before
  <2> HIDE DEF u, head
  <2>8. CASE OpensStage(v)
    <3>1. depth[head] # depth[v] /\ t = n + 1
      BY <1>5, <2>3, <2>8 DEF OpensStage, head
    <3>2. s # t /\ (s < n \/ s = n)
      BY <2>1, <3>1
    <3> QED
      BY <2>2, <2>4, <2>5, <2>6, <2>7, <3>1, <3>2 DEF u
  <2>9. CASE ~OpensStage(v)
    <3>1. depth[head] = depth[v] /\ t = n
      BY <1>5, <2>3, <2>9 DEF OpensStage, head
    <3>2. s < t => depth[u] < depth[v]
      BY <2>5, <3>1
    <3>3. s = t => TypeOf(u) < TypeOf(v)
      BY <2>1, <2>2, <2>6, <3>1 DEF Before
    <3> QED
      BY <3>2, <3>3 DEF u
  <2> QED
    BY <2>8, <2>9
<1>10. Ascending(stages)'
  <2>1. SUFFICES ASSUME NEW s \in DOMAIN stages', NEW r \in DOMAIN stages',
                        NEW j \in DOMAIN stages'[s], NEW i \in DOMAIN stages'[r]
                 PROVE  /\ s < r => depth[stages'[s][j]] < depth[stages'[r][i]]
                        /\ s = r /\ j < i => TypeOf(stages'[s][j]) < TypeOf(stages'[r][i])
    BY <1>0, OrderFixed DEF Ascending
  <2>0. /\ s \in Int /\ r \in Int /\ t \in Int
        /\ j \in Int /\ i \in Int /\ k \in Int
    <3>1. stages' \in Seq(Seq(Nat) \ {<<>>})
      BY EmitSystemKeeps DEF SchedulerIInv, SchedulerTypeOK
    <3>2. \A a \in DOMAIN stages' : a \in Int /\ stages'[a] \in Seq(Nat)
      BY <3>1
    <3>3. \A a \in DOMAIN stages' : \A b \in DOMAIN stages'[a] : b \in Int
      BY <3>2
    <3> QED
      BY <3>2, <3>3
  <2>2. \/ s = t /\ j = k
        \/ /\ s \in DOMAIN stages /\ j \in DOMAIN stages[s] /\ stages'[s][j] = stages[s][j]
           /\ s <= t /\ (s = t => j < k)
    BY ONLY <1>6, s \in DOMAIN stages', j \in DOMAIN stages'[s]
  <2>3. \/ r = t /\ i = k
        \/ /\ r \in DOMAIN stages /\ i \in DOMAIN stages[r] /\ stages'[r][i] = stages[r][i]
           /\ r <= t /\ (r = t => i < k)
    BY ONLY <1>6, r \in DOMAIN stages', i \in DOMAIN stages'[r]
  <2>4. CASE s = t /\ j = k
    <3>1. ~(s < r) /\ ~(s = r /\ j < i)
      BY ONLY <2>0, <2>3, <2>4
    <3> QED
      BY <3>1
  <2>5. CASE r = t /\ i = k /\ ~(s = t /\ j = k)
    <3>1. s \in DOMAIN stages /\ j \in DOMAIN stages[s] /\ stages'[s][j] = stages[s][j]
      BY <2>2, <2>5
    <3>2. stages'[r][i] = v
      BY <1>6, <2>5
    <3> QED
      BY <1>9, <2>5, <3>1, <3>2
  <2>6. CASE ~(r = t /\ i = k) /\ ~(s = t /\ j = k)
    <3>1. /\ s \in DOMAIN stages /\ j \in DOMAIN stages[s] /\ stages'[s][j] = stages[s][j]
          /\ r \in DOMAIN stages /\ i \in DOMAIN stages[r] /\ stages'[r][i] = stages[r][i]
      BY <2>2, <2>3, <2>6
    <3> QED
      BY <1>0, <3>1 DEF Ascending
  <2> QED
    BY <2>4, <2>5, <2>6
<1>11. Emitted' = Emitted \cup {v}
  <2>1. Nodes' = Nodes
    BY <1>0, RegistryFixed
  <2>2. ASSUME NEW i \in Nodes PROVE i \in Emitted' <=> i \in Emitted \cup {v}
    <3>1. i \in Emitted' <=> \E s \in DOMAIN stages' : \E j \in DOMAIN stages'[s] : stages'[s][j] = i
      BY <2>1 DEF Emitted
    <3>2. i \in Emitted <=> \E s \in DOMAIN stages : \E j \in DOMAIN stages[s] : stages[s][j] = i
      BY DEF Emitted
    <3>3. ASSUME i \in Emitted' PROVE i \in Emitted \cup {v}
      <4>1. PICK s \in DOMAIN stages' : \E j \in DOMAIN stages'[s] : stages'[s][j] = i
        BY <3>1, <3>3
      <4>2. PICK j \in DOMAIN stages'[s] : stages'[s][j] = i
        BY <4>1
      <4>3. \/ s = t /\ j = k
            \/ s \in DOMAIN stages /\ j \in DOMAIN stages[s] /\ stages'[s][j] = stages[s][j]
        BY ONLY <1>6, s \in DOMAIN stages', j \in DOMAIN stages'[s]
      <4> QED
        BY <1>6, <3>2, <4>2, <4>3
    <3>4. ASSUME i \in Emitted \cup {v} PROVE i \in Emitted'
      BY <1>6, <3>1, <3>2, <3>4
    <3> QED
      BY <3>3, <3>4
  <2> QED
    BY <2>1, <2>2 DEF Emitted
<1>12. ASSUME NEW u \in Emitted', NEW w \in Ready' PROVE Before(u, w)'
  <2>1. /\ w \in Live \ Emitted /\ w # v /\ w \in Nodes
        /\ Preds(edges, w) \subseteq Emitted \cup {v}
    <3>1. Live' = Live /\ Preds(edges, w)' = Preds(edges, w)
      BY <1>0, RegistryFixed DEF Preds
    <3>2. w \in Live' \ Emitted' /\ Preds(edges, w)' \subseteq Emitted'
      BY DEF Ready
    <3> QED
      BY <1>0, <1>11, <3>1, <3>2
  <2>2. Before(v, w)
    <3>1. depth[v] \in Nat /\ depth[w] \in Nat /\ TypeOf(v) \in Nat /\ TypeOf(w) \in Nat
      BY <1>0, <2>1, TypesAreNumbers
    <3>2. CASE v \in Preds(edges, w)
      BY <1>0, <2>1, <3>2 DEF IsDepth, Before
    <3>3. CASE v \notin Preds(edges, w)
      <4>1. w \in Ready
        BY <2>1, <3>3 DEF Ready
      <4>2. TypeOf(v) # TypeOf(w)
        BY <1>0, <1>2, <2>1 DEF TypesDistinct
      <4>3. depth[v] < depth[w] \/ (depth[v] = depth[w] /\ TypeOf(v) <= TypeOf(w))
        BY <1>0, <4>1 DEF ComesFirst
      <4> QED
        BY <3>1, <4>2, <4>3 DEF Before
    <3> QED
      BY <3>2, <3>3
  <2>3. Before(u, w)
    <3>1. CASE u = v
      BY <2>2, <3>1
    <3>2. CASE u \in Emitted
      BY <1>0, <1>8, <2>1, <2>2, <3>2, BeforeIsTransitive DEF Emitted
    <3> QED
      BY <1>11, <3>1, <3>2
  <2> QED
    BY <1>0, <2>3, OrderFixed DEF Before
<1> QED
  BY <1>1, <1>10, <1>12 DEF OrderIInv, InOrderInv

(* The schedule goes into force: nothing is left out, a declared edge makes  *)
(* depths differ, and stages deepen.                                        *)
LEMMA FinishRebuildOrders ==
  ASSUME SchedulerIInv, OrderIInv, FinishRebuild
  PROVE  OrderIInv'
<1>0. /\ phase = "emit" /\ phase' = "idle" /\ UNCHANGED <<program, registry, stages>> /\ Ready = {}
      /\ edges \subseteq Live \X Live /\ depth \in [Nodes -> Nat] /\ IsDepth(edges, depth)
      /\ Live \subseteq Nodes /\ DeclaredEdges \subseteq edges
      /\ \A s \in DOMAIN stages : StageInv(stages[s])
      /\ Ascending(stages)
      /\ stages \in Seq(Seq(Nat) \ {<<>>})
  BY DEF SchedulerIInv, SchedulerTypeOK, GraphInv, EmittedInv, FinishRebuild, Returned, OrderIInv,
         InOrderInv, DeclaredKept, Depths, Live
<1>1. TypesDistinct' /\ DeclaredKept' /\ InOrderInv'
  BY <1>0, OrderFixed DEF OrderIInv, DeclaredKept, InOrderInv
<1>2. Emitted' = Live'
  <2>1. Emitted = Live
    BY <1>0, NothingIsLeftOut
  <2>2. Emitted' = Emitted
    BY <1>0, RegistryFixed DEF Emitted
  <2> QED
    BY <1>0, <2>1, <2>2, RegistryFixed
<1>3. ASSUME NEW s \in DOMAIN stages, NEW r \in DOMAIN stages,
             NEW j \in DOMAIN stages[s], NEW k \in DOMAIN stages[r]
      PROVE  /\ stages[s][j] = stages[r][k] => s = r /\ j = k
             /\ TypeOf(stages[s][j]) \in Decl(stages[r][k]).run_after
                \/ TypeOf(stages[r][k]) \in Decl(stages[s][j]).run_before => s < r
             /\ s = r /\ j < k => TypeOf(stages[s][j]) < TypeOf(stages[r][k])
  <2> DEFINE a == stages[s][j]
             b == stages[r][k]
  <2>1. /\ a \in Live /\ b \in Live /\ depth[a] \in Nat /\ depth[b] \in Nat
        /\ s \in Int /\ r \in Int
    <3>1. a \in Live /\ b \in Live
      BY <1>0 DEF StageInv
    <3>2. s \in Int /\ r \in Int
      <4>1. stages \in Seq(Seq(Nat) \ {<<>>})
        BY <1>0
      <4>2. DOMAIN stages = 1 .. Len(stages)
        BY ONLY <4>1
      <4> QED
        BY ONLY <4>2, s \in DOMAIN stages, r \in DOMAIN stages
    <3> QED
      BY <1>0, <3>1, <3>2
  <2>2. (s < r => depth[a] < depth[b]) /\ (r < s => depth[b] < depth[a])
    BY <1>0 DEF Ascending
  <2>3. s = r => depth[a] = depth[b]
    <3>1. depth[a] = depth[stages[s][1]] /\ depth[b] = depth[stages[r][1]]
      BY <1>0 DEF StageInv
    <3> QED
      BY <3>1
  <2>4. a = b => s = r /\ j = k
    <3>1. a = b => s = r
      BY <2>1, <2>2
    <3>2. s = r /\ j # k => a # b
      BY <1>0 DEF StageInv
    <3> QED
      BY <3>1, <3>2
  <2>5. TypeOf(a) \in Decl(b).run_after \/ TypeOf(b) \in Decl(a).run_before => s < r
    <3>1. SUFFICES ASSUME TypeOf(a) \in Decl(b).run_after \/ TypeOf(b) \in Decl(a).run_before
                   PROVE  s < r
      OBVIOUS
    <3>2. <<a, b>> \in edges
      BY <1>0, <2>1, <3>1 DEF DeclaredEdges
    <3>3. depth[a] < depth[b]
      BY <1>0, <2>1, <3>2 DEF IsDepth, Preds
    <3> QED
      BY <2>1, <2>2, <2>3, <3>3
  <2>6. s = r /\ j < k => TypeOf(a) < TypeOf(b)
    BY <1>0 DEF Ascending
  <2> QED
    BY <2>4, <2>5, <2>6
<1>4. DeclaredOrder'
  BY <1>0, <1>2, <1>3, OrderFixed, RegistryFixed, SMTT(40) DEF DeclaredOrder
<1> QED
  BY <1>1, <1>4 DEF OrderIInv

LEMMA StutterOrders ==
  ASSUME OrderIInv, UNCHANGED schedulerVars
  PROVE  OrderIInv'
BY DEF schedulerVars, OrderIInv, TypesDistinct, DeclaredKept, InOrderInv, Ascending, Before, DeclaredOrder,
       InForce, Emitted, Ready, Preds, Live, Nodes, DeclaredEdges, Decl, TypeOf

(* Types, declared edges and emission order are inductive beside the graph   *)
(* and its paths, through every operation on the registry and every         *)
(* iteration of rebuild.                                                    *)
THEOREM OrderInductive == SchedulerSpec => []OrderIInv
<1>1. SchedulerInit => OrderIInv
  BY OrderInit
<1>2. SchedulerIInv /\ OrderIInv /\ [SchedulerNext]_schedulerVars => OrderIInv'
  <2>1. SUFFICES ASSUME SchedulerIInv, OrderIInv, [SchedulerNext]_schedulerVars PROVE OrderIInv'
    OBVIOUS
  <2>2. CASE \/ \E t \in Types : RegisterSystem(t)
             \/ \E i \in Nodes : UnregisterSystem(i)
             \/ ClearSystems
    BY <2>1, <2>2, RegistryChangeOrders
  <2>3. CASE BeginRebuild \/ \E p \in todo : OrientConflict(p)
    BY <2>1, <2>3, BuildingOrders
  <2>4. CASE BeginEmit
    BY <2>1, <2>4, BeginEmitOrders
  <2>5. CASE \E v \in Nodes : EmitSystem(v)
    BY <2>1, <2>5, EmitSystemOrders
  <2>6. CASE FinishRebuild
    BY <2>1, <2>6, FinishRebuildOrders
  <2>7. CASE UNCHANGED schedulerVars
    BY <2>1, <2>7, StutterOrders
  <2> QED
    BY <2>1, <2>2, <2>3, <2>4, <2>5, <2>6, <2>7 DEF SchedulerNext
<1> QED
  BY <1>1, <1>2, SchedulerInductive, PTL DEF SchedulerSpec

(* Whatever was declared and registered, a schedule in force places every    *)
(* live system once, runs declared predecessors in earlier stages, and lists *)
(* a stage by ascending type (SystemScheduler::rebuild, phases 1, 5 and 6).  *)
THEOREM SchedulesKeepDeclaredOrder == SchedulerSpec => []DeclaredOrder
<1>1. OrderIInv => DeclaredOrder
  BY DEF OrderIInv
<1> QED
  BY <1>1, OrderInductive, PTL

-----------------------------------------------------------------------------
(* The schedule is a function of the live types. rebuild works on indices  *)
(* of the registry; the same algorithm on types, a fold over the conflicts *)
(* in their order, is what it computes whatever the registry.              *)

(* Pairs of types, in the order in which conflicts are oriented. *)
PairBefore(q, r) == q[1] < r[1] \/ (q[1] = r[1] /\ q[2] < r[2])
LastPair(T) == CHOOSE q \in T : \A r \in T : r = q \/ PairBefore(r, q)

IsTypeDepth(E, d) ==
  /\ d \in [Types -> Nat]
  /\ \A v \in Types :
       /\ \A u \in Types : <<u, v>> \in E => d[u] < d[v]
       /\ d[v] # 0 => \E u \in Types : <<u, v>> \in E /\ d[v] = d[u] + 1
TypesAcyclic(E) == \E d : IsTypeDepth(E, d)
TypeDepth(E) == CHOOSE d : IsTypeDepth(E, d)
TypePath(E, u, v) ==
  \A S \in SUBSET Types : (u \in S /\ \A a, b \in Types : <<a, b>> \in E /\ a \in S => b \in S) => v \in S

TypeCost(E, u, v) ==
  LET d == TypeDepth(E) IN IF d[u] + 1 > d[v] THEN d[u] + 1 - d[v] ELSE 0
Forward(E, q) == TypeCost(E, q[1], q[2]) <= TypeCost(E, q[2], q[1])
Towards(E, q) == IF Forward(E, q) THEN q ELSE <<q[2], q[1]>>
Away(E, q) == IF Forward(E, q) THEN <<q[2], q[1]>> ELSE q

(* One conflict between types is oriented. *)
OrientTypes(p, q, E) ==
  IF TypePath(E, q[1], q[2]) \/ TypePath(E, q[2], q[1]) THEN E
  ELSE IF TypesAcyclic(E \cup {Towards(E, q)}) THEN E \cup {Towards(E, q)}
  ELSE E \cup {Away(E, q)}

AnyEdges(p, T, E) == TRUE
Orienting == INSTANCE Folding WITH Step <- OrientTypes, Pick <- LastPair, Holds <- AnyEdges

DeclaredBetween(pr, L) == {e \in L \X L : e[1] \in pr[e[2]].run_after \/ e[2] \in pr[e[1]].run_before}
ConflictsBetween(pr, L) == {q \in L \X L : q[1] < q[2] /\ MustOrder(pr[q[1]], pr[q[2]])}
EdgesAfter(pr, L, done) == Orienting!Folded(0, DeclaredBetween(pr, L), done)
FinalEdges(pr, L) == EdgesAfter(pr, L, ConflictsBetween(pr, L))

-----------------------------------------------------------------------------
(* Pairs of numbers are ordered, and a finite set of them has a last one. *)
LEMMA PairsOrdered ==
  /\ \A q \in Nat \X Nat : ~PairBefore(q, q)
  /\ \A q, r \in Nat \X Nat : q = r \/ PairBefore(q, r) \/ PairBefore(r, q)
  /\ \A q, r, s \in Nat \X Nat : PairBefore(q, r) /\ PairBefore(r, s) => PairBefore(q, s)
  BY DEF PairBefore

LEMMA LastPairExists ==
  ASSUME NEW S \in SUBSET (Nat \X Nat), IsFiniteSet(S), S # {}
  PROVE  LastPair(S) \in S /\ \A r \in S : r = LastPair(S) \/ PairBefore(r, LastPair(S))
<1> DEFINE HasLast(T) == \E q \in T : \A r \in T : r = q \/ PairBefore(r, q)
           bad == {Cardinality(T) : T \in {U \in SUBSET S : U # {} /\ ~HasLast(U)}}
<1>1. \A T \in SUBSET S : IsFiniteSet(T) /\ Cardinality(T) \in Nat
  BY FS_Subset, FS_CardinalityType
<1>2. HasLast(S)
  <2> SUFFICES ASSUME ~HasLast(S) PROVE FALSE
    OBVIOUS
  <2> HIDE DEF HasLast
  <2>1. bad \in SUBSET Nat /\ bad # {}
    BY <1>1
  <2>2. PICK n \in bad : \A m \in bad : n <= m
    <3> HIDE DEF bad
    <3> QED
      BY <2>1, LeastNumber
  <2>3. PICK T \in SUBSET S : T # {} /\ ~HasLast(T) /\ n = Cardinality(T)
    BY <2>2
  <2>4. PICK x \in T : TRUE
    BY <2>3
  <2> DEFINE U == T \ {x}
  <2>5. U \in SUBSET S /\ Cardinality(U) \in Nat /\ Cardinality(U) = n - 1 /\ n \in Nat
    <3>1. IsFiniteSet(T) /\ Cardinality(T \ {x}) = Cardinality(T) - 1
      BY <1>1, <2>4, FS_RemoveElement
    <3> QED
      BY <1>1, <2>3, <3>1
  <2>6. U # {}
    <3> SUFFICES ASSUME U = {} PROVE HasLast(T)
      BY <2>3
    <3> QED
      BY <2>4 DEF HasLast
  <2>7. HasLast(U)
    <3> SUFFICES ASSUME ~HasLast(U) PROVE FALSE
      OBVIOUS
    <3>1. Cardinality(U) \in bad
      BY <2>5, <2>6
    <3> HIDE DEF U, bad
    <3>2. n <= Cardinality(U)
      BY <2>2, <3>1
    <3> QED
      BY <2>5, <3>2
  <2>8. PICK q \in U : \A r \in U : r = q \/ PairBefore(r, q)
    BY <2>7 DEF HasLast
  <2>9. q \in T /\ x \in T /\ q \in Nat \X Nat /\ x \in Nat \X Nat /\ T \subseteq Nat \X Nat
    BY <2>3, <2>4, <2>8
  <2>10. \A r \in T : r = x \/ r = q \/ PairBefore(r, q)
    BY <2>8
  <2>11. CASE PairBefore(x, q)
    BY <2>3, <2>9, <2>10, <2>11 DEF HasLast
  <2>12. CASE PairBefore(q, x)
    <3>1. \A r \in T : r = x \/ PairBefore(r, x)
      BY <2>9, <2>10, <2>12, PairsOrdered
    <3> QED
      BY <2>3, <2>9, <3>1 DEF HasLast
  <2>13. CASE q = x
    BY <2>13
  <2> QED
    BY <2>9, <2>11, <2>12, <2>13, PairsOrdered
<1> QED
  BY <1>2 DEF LastPair

(* Conflicts can be taken one after the other, the last one last. *)
LEMMA PairsPicked ==
  ASSUME NEW S \in SUBSET (Nat \X Nat), IsFiniteSet(S)
  PROVE  Orienting!Picks(S)
<1> DEFINE size == [T \in SUBSET S |-> Cardinality(T)]
<1>1. \A T \in SUBSET S : IsFiniteSet(T) /\ Cardinality(T) \in Nat /\ T \in SUBSET (Nat \X Nat)
  BY FS_Subset, FS_CardinalityType
<1>2. size \in [SUBSET S -> Nat] /\ \A T \in SUBSET S : size[T] = Cardinality(T)
  BY <1>1
<1> HIDE DEF size
<1>3. ASSUME NEW T \in SUBSET S, NEW U \in SUBSET T PROVE size[U] <= size[T]
  <2>1. U \in SUBSET S /\ IsFiniteSet(T)
    BY <1>1
  <2>2. Cardinality(U) <= Cardinality(T)
    BY <2>1, FS_Subset
  <2> QED
    BY <1>2, <2>1, <2>2
<1>4. ASSUME NEW T \in SUBSET S, T # {}
      PROVE  LastPair(T) \in T /\ size[T \ {LastPair(T)}] < size[T]
  <2>1. IsFiniteSet(T) /\ LastPair(T) \in T
    BY <1>1, <1>4, LastPairExists
  <2>2. T \ {LastPair(T)} \in SUBSET S
    OBVIOUS
  <2>3. Cardinality(T \ {LastPair(T)}) = Cardinality(T) - 1
    BY <2>1, FS_RemoveElement
  <2> QED
    BY <1>1, <1>2, <2>1, <2>2, <2>3
<1>5. Orienting!Measures(size, S)
  BY <1>2, <1>3, <1>4 DEF Orienting!Measures
<1> QED
  BY <1>5 DEF Orienting!Picks

(* The fold over one conflict more, when it comes last. *)
LEMMA OrientedLast ==
  ASSUME NEW pr, NEW L, NEW done \in SUBSET (Nat \X Nat), IsFiniteSet(done),
         NEW q \in Nat \X Nat, q \notin done, \A r \in done : PairBefore(r, q)
  PROVE  EdgesAfter(pr, L, done \cup {q}) = OrientTypes(0, q, EdgesAfter(pr, L, done))
<1> DEFINE S == done \cup {q}
<1>1. S \in SUBSET (Nat \X Nat) /\ IsFiniteSet(S) /\ S # {} /\ S \ {q} = done
  BY FS_AddElement
<1>2. LastPair(S) \in S /\ \A r \in S : r = LastPair(S) \/ PairBefore(r, LastPair(S))
  BY <1>1, LastPairExists
<1>3. LastPair(S) = q
  <2> SUFFICES ASSUME LastPair(S) # q PROVE FALSE
    OBVIOUS
  <2>1. LastPair(S) \in done /\ q \in S
    BY <1>2
  <2>2. PairBefore(LastPair(S), q) /\ PairBefore(q, LastPair(S)) /\ LastPair(S) \in Nat \X Nat
    BY <1>2, <2>1
  <2> HIDE DEF S
  <2> QED
    BY <2>2, PairsOrdered
<1>4. Orienting!Picks(S)
  BY <1>1, PairsPicked
<1> HIDE DEF S
<1>5. \A base : Orienting!Folded(0, base, S) = OrientTypes(0, LastPair(S), Orienting!Folded(0, base, S \ {LastPair(S)}))
  BY <1>1, <1>4, Orienting!FoldRecursion
<1>6. EdgesAfter(pr, L, S) = OrientTypes(0, q, EdgesAfter(pr, L, S \ {q}))
  BY <1>3, <1>5 DEF EdgesAfter
<1> QED
  BY <1>1, <1>6 DEF S

LEMMA OrientedNone ==
  ASSUME NEW pr, NEW L
  PROVE  EdgesAfter(pr, L, {}) = DeclaredBetween(pr, L)
<1>1. Orienting!Picks({})
  BY PairsPicked, FS_EmptySet
<1> QED
  BY <1>1, Orienting!FoldRecursion DEF EdgesAfter

(* A graph of registrations as a graph of types. *)
Typed(E) == {<<TypeOf(e[1]), TypeOf(e[2])>> : e \in E}
LiveTypes == {TypeOf(i) : i \in Live}
IndexOf(t) == CHOOSE i \in Live : TypeOf(i) = t
Registered == registry \in Seq([type : Types, alive : BOOLEAN]) /\ TypesDistinct

LEMMA RegistryFacts ==
  ASSUME Registered
  PROVE  /\ Len(registry) \in Nat /\ Nodes = 1 .. Len(registry) /\ Nodes \subseteq Nat /\ Live \subseteq Nodes
         /\ \A i \in Nodes : TypeOf(i) \in Types /\ TypeOf(i) \in Nat
         /\ LiveTypes \subseteq Types /\ Types \subseteq Nat
         /\ \A i \in Live : IndexOf(TypeOf(i)) = i
         /\ \A t \in LiveTypes : IndexOf(t) \in Live /\ TypeOf(IndexOf(t)) = t
<1>1. /\ Len(registry) \in Nat /\ Nodes = 1 .. Len(registry) /\ Live \subseteq Nodes
      /\ \A i \in Nodes : TypeOf(i) \in Types
  <2>1. registry \in Seq([type : Types, alive : BOOLEAN])
    BY DEF Registered
  <2>2. Len(registry) \in Nat /\ Nodes = 1 .. Len(registry) /\ Live \subseteq Nodes
    BY <2>1 DEF Nodes, Live
  <2>3. ASSUME NEW i \in Nodes PROVE TypeOf(i) \in Types
    <3>1. registry[i] \in [type : Types, alive : BOOLEAN]
      BY <2>1, IndexOfSequence DEF Nodes
    <3> QED
      BY <3>1 DEF TypeOf
  <2> QED
    BY <2>2, <2>3
<1>2. Types \subseteq Nat
  BY SchedulerAssumption
<1>3. \A i, j \in Live : TypeOf(i) = TypeOf(j) => i = j
  BY DEF Registered, TypesDistinct
<1>4. \A i \in Live : IndexOf(TypeOf(i)) = i
  BY <1>3 DEF IndexOf
<1> QED
  BY <1>1, <1>2, <1>4 DEF LiveTypes

LEMMA TypedEdge ==
  ASSUME Registered, NEW E, E \subseteq Live \X Live
  PROVE  /\ \A u, v \in Live : <<TypeOf(u), TypeOf(v)>> \in Typed(E) <=> <<u, v>> \in E
         /\ \A a, b : <<a, b>> \in Typed(E) => \E u, v \in Live : a = TypeOf(u) /\ b = TypeOf(v) /\ <<u, v>> \in E
<1>1. \A u, v \in Live : TypeOf(u) = TypeOf(v) => u = v
  BY DEF Registered, TypesDistinct
<1>2. ASSUME NEW a, NEW b, <<a, b>> \in Typed(E)
      PROVE  \E u, v \in Live : a = TypeOf(u) /\ b = TypeOf(v) /\ <<u, v>> \in E
  <2>1. PICK e \in E : <<a, b>> = <<TypeOf(e[1]), TypeOf(e[2])>>
    BY <1>2 DEF Typed
  <2>2. e[1] \in Live /\ e[2] \in Live /\ e = <<e[1], e[2]>>
    OBVIOUS
  <2> QED
    BY <2>1, <2>2
<1>3. ASSUME NEW u \in Live, NEW v \in Live, <<u, v>> \in E
      PROVE  <<TypeOf(u), TypeOf(v)>> \in Typed(E)
  <2>1. <<TypeOf(<<u, v>>[1]), TypeOf(<<u, v>>[2])>> \in Typed(E)
    BY <1>3 DEF Typed
  <2> QED
    BY <2>1
<1>4. ASSUME NEW u \in Live, NEW v \in Live, <<TypeOf(u), TypeOf(v)>> \in Typed(E)
      PROVE  <<u, v>> \in E
  <2>1. PICK i \in Live, j \in Live : TypeOf(u) = TypeOf(i) /\ TypeOf(v) = TypeOf(j) /\ <<i, j>> \in E
    <3>1. \E i, j \in Live : TypeOf(u) = TypeOf(i) /\ TypeOf(v) = TypeOf(j) /\ <<i, j>> \in E
      BY <1>2, <1>4
    <3> QED
      BY <3>1
  <2>2. u = i /\ v = j
    BY <1>1, <2>1
  <2> QED
    BY <2>1, <2>2
<1> QED
  BY <1>2, <1>3, <1>4

(* No depth exceeds the number of registrations: below a depth every depth occurs. *)
LEMMA DepthBound ==
  ASSUME Registered, NEW E, NEW d \in [Nodes -> Nat], IsDepth(E, d)
  PROVE  d \in Depths
<1> DEFINE n == Len(registry)
<1>1. n \in Nat /\ Nodes = 1 .. n
  BY RegistryFacts
<1>2. ASSUME NEW v \in Nodes PROVE d[v] \in 0 .. n
  <2> DEFINE values == {d[u] : u \in Nodes}
             missing == {k \in Nat : d[v] - k \in 0 .. d[v] /\ d[v] - k \notin values}
  <2>1. d[v] \in Nat
    OBVIOUS
  <2>2. missing = {}
    <3> SUFFICES ASSUME missing # {} PROVE FALSE
      OBVIOUS
    <3>1. PICK k \in missing : \A m \in missing : k <= m
      <4>1. missing \in SUBSET Nat
        OBVIOUS
      <4> HIDE DEF missing
      <4> QED
        BY <4>1, LeastNumber
    <3>2. k \in Nat /\ d[v] - k \in 0 .. d[v] /\ d[v] - k \notin values
      OBVIOUS
    <3>3. k # 0
      BY <2>1, <3>2
    <3>4. k - 1 \in Nat /\ d[v] - (k - 1) \in 0 .. d[v] /\ d[v] - (k - 1) = (d[v] - k) + 1
      BY <2>1, <3>2, <3>3
    <3>5. d[v] - (k - 1) \in values
      <4> SUFFICES ASSUME d[v] - (k - 1) \notin values PROVE FALSE
        OBVIOUS
      <4>1. k - 1 \in missing
        BY <3>4
      <4> HIDE DEF missing, values
      <4>2. k <= k - 1
        BY <3>1, <4>1
      <4> QED
        BY <3>2, <4>2
    <3>6. PICK u \in Nodes : d[u] = (d[v] - k) + 1
      BY <3>4, <3>5
    <3>7. d[u] # 0
      BY <2>1, <3>2, <3>6
    <3>8. PICK w \in Nodes : d[u] = d[w] + 1
      BY <3>7 DEF IsDepth, Preds
    <3>9. d[w] = d[v] - k
      BY <2>1, <3>2, <3>6, <3>8
    <3> QED
      BY <3>2, <3>9
  <2>3. 0 .. d[v] \subseteq values
    <3> SUFFICES ASSUME NEW m \in 0 .. d[v], m \notin values PROVE FALSE
      OBVIOUS
    <3>1. d[v] - m \in Nat /\ d[v] - (d[v] - m) = m
      BY <2>1
    <3> QED
      BY <2>2, <3>1
  <2>4. IsFiniteSet(Nodes) /\ Cardinality(Nodes) = n
    <3>1. IsFiniteSet(1 .. n) /\ Cardinality(1 .. n) = IF 1 > n THEN 0 ELSE n - 1 + 1
      BY <1>1, FS_Interval
    <3> QED
      BY <1>1, <3>1
  <2>5. IsFiniteSet(values) /\ Cardinality(values) <= n
    <3>1. d \in Surjection(Nodes, values)
      BY DEF Surjection
    <3> HIDE DEF values
    <3>2. IsFiniteSet(values) /\ Cardinality(values) <= Cardinality(Nodes)
      BY <2>4, <3>1, FS_Surjection
    <3> QED
      BY <2>4, <3>2
  <2> HIDE DEF values
  <2>6. Cardinality(0 .. d[v]) <= Cardinality(values)
    BY <2>3, <2>5, FS_Subset
  <2>7. Cardinality(0 .. d[v]) = d[v] + 1
    <3>1. Cardinality(0 .. d[v]) = IF 0 > d[v] THEN 0 ELSE d[v] - 0 + 1
      BY <2>1, FS_Interval
    <3> QED
      BY <2>1, <3>1
  <2>8. Cardinality(values) \in Nat
    BY <2>5, FS_CardinalityType
  <2> QED
    BY <1>1, <2>1, <2>5, <2>6, <2>7, <2>8
<1> QED
  BY <1>2 DEF Depths

(* A graph has one depth at most. *)
LEMMA OneTypeDepth ==
  ASSUME NEW E, NEW d, IsTypeDepth(E, d), NEW e, IsTypeDepth(E, e)
  PROVE  d = e
<1> DEFINE wrong == {v \in Types : d[v] # e[v]}
<1>1. d \in [Types -> Nat] /\ e \in [Types -> Nat]
  BY DEF IsTypeDepth
<1>2. wrong = {}
  <2> SUFFICES ASSUME wrong # {} PROVE FALSE
    OBVIOUS
  <2> DEFINE least(v) == IF d[v] <= e[v] THEN d[v] ELSE e[v]
             T == {least(v) : v \in wrong}
  <2>1. T \in SUBSET Nat /\ T # {}
    BY <1>1
  <2>2. PICK n \in T : \A m \in T : n <= m
    <3> HIDE DEF T
    <3> QED
      BY <2>1, LeastNumber
  <2>3. PICK v \in Types : d[v] # e[v] /\ n = least(v)
    BY <2>2
  <2>4. \A u \in Types : d[u] < n \/ e[u] < n => d[u] = e[u]
    <3> SUFFICES ASSUME NEW u \in Types, d[u] < n \/ e[u] < n, d[u] # e[u] PROVE FALSE
      OBVIOUS
    <3>1. least(u) \in T
      OBVIOUS
    <3>2. n <= least(u) /\ n \in Nat
      BY <2>1, <2>2, <3>1
    <3>3. d[u] \in Nat /\ e[u] \in Nat
      BY <1>1
    <3> QED
      BY <3>2, <3>3
  <2>5. d[v] \in Nat /\ e[v] \in Nat
    BY <1>1
  <2>6. CASE d[v] < e[v]
    <3>0. e[v] # 0
      BY <2>5, <2>6
    <3>1. PICK u \in Types : <<u, v>> \in E /\ e[v] = e[u] + 1
      BY <3>0 DEF IsTypeDepth
    <3>2. d[u] < d[v] /\ d[u] \in Nat /\ e[u] \in Nat
      BY <1>1, <3>1 DEF IsTypeDepth
    <3>3. n = d[v]
      BY <2>3, <2>5, <2>6
    <3>4. d[u] = e[u]
      BY <2>4, <3>2, <3>3
    <3> QED
      BY <2>5, <2>6, <3>1, <3>2, <3>4
  <2>7. CASE e[v] < d[v]
    <3>0. d[v] # 0
      BY <2>5, <2>7
    <3>1. PICK u \in Types : <<u, v>> \in E /\ d[v] = d[u] + 1
      BY <3>0 DEF IsTypeDepth
    <3>2. e[u] < e[v] /\ d[u] \in Nat /\ e[u] \in Nat
      BY <1>1, <3>1 DEF IsTypeDepth
    <3>3. n = e[v]
      BY <2>3, <2>5, <2>7
    <3>4. d[u] = e[u]
      BY <2>4, <3>2, <3>3
    <3> QED
      BY <2>5, <2>7, <3>1, <3>2, <3>4
  <2> QED
    BY <2>3, <2>5, <2>6, <2>7
<1> HIDE DEF wrong
<1>3. \A v \in Types : d[v] = e[v]
  BY <1>2 DEF wrong
<1> QED
  BY <1>1, <1>3

(* Depths of registrations are depths of types. *)
LEMMA DepthTyped ==
  ASSUME Registered, NEW E, E \subseteq Live \X Live, NEW d \in [Nodes -> Nat], IsDepth(E, d)
  PROVE  TypesAcyclic(Typed(E)) /\ \A i \in Live : TypeDepth(Typed(E))[TypeOf(i)] = d[i]
<1> DEFINE e == [t \in Types |-> IF t \in LiveTypes THEN d[IndexOf(t)] ELSE 0]
<1>1. /\ Live \subseteq Nodes /\ LiveTypes \subseteq Types
      /\ \A i \in Live : IndexOf(TypeOf(i)) = i /\ TypeOf(i) \in LiveTypes
      /\ \A t \in LiveTypes : IndexOf(t) \in Live /\ TypeOf(IndexOf(t)) = t
  BY RegistryFacts DEF LiveTypes
<1>2. e \in [Types -> Nat] /\ \A i \in Live : e[TypeOf(i)] = d[i]
  BY <1>1
<1>3. ASSUME NEW v \in Types, NEW u \in Types, <<u, v>> \in Typed(E) PROVE e[u] < e[v]
  <2>0. \A a, b : <<a, b>> \in Typed(E) => \E i, j \in Live : a = TypeOf(i) /\ b = TypeOf(j) /\ <<i, j>> \in E
    BY TypedEdge
  <2>1. PICK i, j \in Live : u = TypeOf(i) /\ v = TypeOf(j) /\ <<i, j>> \in E
    BY <1>3, <2>0
  <2>2. d[i] < d[j]
    BY <1>1, <2>1 DEF IsDepth, Preds
  <2> QED
    BY <1>2, <2>1, <2>2
<1>4. ASSUME NEW v \in Types, e[v] # 0
      PROVE  \E u \in Types : <<u, v>> \in Typed(E) /\ e[v] = e[u] + 1
  <2>1. v \in LiveTypes /\ IndexOf(v) \in Live /\ TypeOf(IndexOf(v)) = v
    BY <1>1, <1>4
  <2>2. e[v] = d[IndexOf(v)] /\ d[IndexOf(v)] # 0
    BY <1>4, <2>1
  <2>3. PICK i \in Nodes : <<i, IndexOf(v)>> \in E /\ d[IndexOf(v)] = d[i] + 1
    BY <1>1, <2>1, <2>2 DEF IsDepth, Preds
  <2>4. i \in Live
    BY <2>3
  <2>5. <<TypeOf(i), v>> \in Typed(E)
    BY <2>1, <2>3, <2>4, TypedEdge
  <2> QED
    BY <1>1, <1>2, <2>2, <2>3, <2>4, <2>5
<1> HIDE DEF e
<1>5. IsTypeDepth(Typed(E), e)
  BY <1>2, <1>3, <1>4 DEF IsTypeDepth
<1>6. IsTypeDepth(Typed(E), TypeDepth(Typed(E)))
  BY <1>5 DEF TypeDepth
<1>7. TypeDepth(Typed(E)) = e
  BY <1>5, <1>6, OneTypeDepth
<1> QED
  BY <1>2, <1>5, <1>7 DEF TypesAcyclic

LEMMA AcyclicTyped ==
  ASSUME Registered, NEW E, E \subseteq Live \X Live
  PROVE  Acyclic(E) <=> TypesAcyclic(Typed(E))
<1>1. ASSUME Acyclic(E) PROVE TypesAcyclic(Typed(E))
  <2>1. DepthOf(E) \in Depths /\ IsDepth(E, DepthOf(E))
    BY <1>1, ChosenDepth
  <2>2. DepthOf(E) \in [Nodes -> Nat]
    BY <2>1, RegistryFacts DEF Depths
  <2> QED
    BY <2>1, <2>2, DepthTyped
<1>2. ASSUME TypesAcyclic(Typed(E)) PROVE Acyclic(E)
  <2>1. PICK e : IsTypeDepth(Typed(E), e)
    BY <1>2 DEF TypesAcyclic
  <2> DEFINE d == [i \in Nodes |-> IF i \in Live THEN e[TypeOf(i)] ELSE 0]
  <2>2. /\ Live \subseteq Nodes /\ \A i \in Live : TypeOf(i) \in Types
    BY RegistryFacts
  <2>3. e \in [Types -> Nat]
    BY <2>1 DEF IsTypeDepth
  <2>4. d \in [Nodes -> Nat] /\ \A i \in Live : d[i] = e[TypeOf(i)]
    BY <2>2, <2>3
  <2>5. ASSUME NEW v \in Nodes, NEW u \in Nodes, <<u, v>> \in E PROVE d[u] < d[v]
    <3>1. u \in Live /\ v \in Live
      BY <2>5
    <3>2. <<TypeOf(u), TypeOf(v)>> \in Typed(E)
      BY <2>5, <3>1, TypedEdge
    <3>3. e[TypeOf(u)] < e[TypeOf(v)]
      BY <2>1, <2>2, <3>1, <3>2 DEF IsTypeDepth
    <3> QED
      BY <2>4, <3>1, <3>3
  <2>6. ASSUME NEW v \in Nodes, d[v] # 0 PROVE \E u \in Nodes : <<u, v>> \in E /\ d[v] = d[u] + 1
    <3>1. v \in Live
      BY <2>6
    <3>2. d[v] = e[TypeOf(v)] /\ TypeOf(v) \in Types
      BY <2>2, <2>4, <3>1
    <3>3. PICK t \in Types : <<t, TypeOf(v)>> \in Typed(E) /\ e[TypeOf(v)] = e[t] + 1
      BY <2>1, <2>6, <3>2 DEF IsTypeDepth
    <3>0. \A a, b : <<a, b>> \in Typed(E) => \E i, j \in Live : a = TypeOf(i) /\ b = TypeOf(j) /\ <<i, j>> \in E
      BY TypedEdge
    <3>4. PICK i, j \in Live : t = TypeOf(i) /\ TypeOf(v) = TypeOf(j) /\ <<i, j>> \in E
      BY <3>0, <3>3
    <3>5. j = v
      BY <3>1, <3>4 DEF Registered, TypesDistinct
    <3> QED
      BY <2>2, <2>4, <3>2, <3>3, <3>4, <3>5
  <2> HIDE DEF d
  <2>7. IsDepth(E, d)
    BY <2>5, <2>6 DEF IsDepth, Preds
  <2> QED
    BY <2>4, <2>7, DepthBound DEF Acyclic
<1> QED
  BY <1>1, <1>2

LEMMA PathTyped ==
  ASSUME Registered, NEW E, E \subseteq Live \X Live, NEW u \in Live, NEW v \in Live
  PROVE  PathExists(E, u, v) <=> TypePath(Typed(E), TypeOf(u), TypeOf(v))
<1>0. /\ Live \subseteq Nodes /\ \A i \in Nodes : TypeOf(i) \in Types
      /\ \A i, j \in Live : TypeOf(i) = TypeOf(j) => i = j
  BY RegistryFacts DEF Registered, TypesDistinct
<1>1. ASSUME PathExists(E, u, v), NEW S \in SUBSET Types, TypeOf(u) \in S,
             \A a, b \in Types : <<a, b>> \in Typed(E) /\ a \in S => b \in S
      PROVE  TypeOf(v) \in S
  <2> DEFINE R == {i \in Nodes : TypeOf(i) \in S}
  <2>1. u \in R
    BY <1>0, <1>1
  <2>2. ASSUME NEW e \in E, e[1] \in R PROVE e[2] \in R
    <3>1. e[1] \in Live /\ e[2] \in Live /\ e = <<e[1], e[2]>>
      OBVIOUS
    <3>2. <<TypeOf(e[1]), TypeOf(e[2])>> \in Typed(E)
      BY <3>1, TypedEdge
    <3> QED
      BY <1>0, <1>1, <2>2, <3>1, <3>2
  <2>3. v \in R
    <3>1. R \in SUBSET Nodes
      OBVIOUS
    <3> HIDE DEF R
    <3> QED
      BY <1>1, <2>1, <2>2, <3>1 DEF PathExists
  <2> QED
    BY <2>3
<1>2. ASSUME TypePath(Typed(E), TypeOf(u), TypeOf(v)), NEW S \in SUBSET Nodes, u \in S,
             \A e \in E : e[1] \in S => e[2] \in S
      PROVE  v \in S
  <2> DEFINE R == {TypeOf(i) : i \in S \cap Live}
  <2>1. TypeOf(u) \in R /\ R \in SUBSET Types
    BY <1>0, <1>2
  <2>2. ASSUME NEW a \in Types, NEW b \in Types, <<a, b>> \in Typed(E), a \in R PROVE b \in R
    <3>0. \A x, y : <<x, y>> \in Typed(E) => \E i, j \in Live : x = TypeOf(i) /\ y = TypeOf(j) /\ <<i, j>> \in E
      BY TypedEdge
    <3>1. PICK i, j \in Live : a = TypeOf(i) /\ b = TypeOf(j) /\ <<i, j>> \in E
      BY <2>2, <3>0
    <3>2. PICK k \in S \cap Live : a = TypeOf(k)
      BY <2>2
    <3>3. i = k
      BY <1>0, <3>1, <3>2
    <3>4. <<i, j>>[1] \in S => <<i, j>>[2] \in S
      BY <1>2, <3>1
    <3>5. j \in S
      BY <3>2, <3>3, <3>4
    <3> QED
      BY <3>1, <3>5
  <2>3. TypeOf(v) \in R
    <3> HIDE DEF R
    <3> QED
      BY <1>2, <2>1, <2>2 DEF TypePath
  <2>4. PICK k \in S \cap Live : TypeOf(v) = TypeOf(k)
    BY <2>3
  <2> QED
    BY <1>0, <2>4
<1> QED
  BY <1>1, <1>2 DEF PathExists, TypePath

(* A conflict between registrations as a conflict between types. *)
TypedPair(p) == <<LowType(p), HighType(p)>>
TypedPairs(P) == {TypedPair(p) : p \in P}

LEMMA ConflictFacts ==
  ASSUME Registered, NEW p \in ConflictPairs
  PROVE  /\ p = <<p[1], p[2]>> /\ p[1] \in Live /\ p[2] \in Live /\ p[1] \in Nat /\ p[2] \in Nat /\ p[1] < p[2]
         /\ TypeOf(p[1]) \in LiveTypes /\ TypeOf(p[2]) \in LiveTypes
         /\ TypeOf(p[1]) \in Nat /\ TypeOf(p[2]) \in Nat /\ TypeOf(p[1]) # TypeOf(p[2])
         /\ MustOrder(Decl(p[1]), Decl(p[2]))
<1>1. p = <<p[1], p[2]>> /\ p[1] \in Live /\ p[2] \in Live /\ p[1] < p[2] /\ MustOrder(Decl(p[1]), Decl(p[2]))
  BY DEF ConflictPairs
<1>2. Live \subseteq Nodes /\ Nodes \subseteq Nat /\ \A i \in Nodes : TypeOf(i) \in Nat
  BY RegistryFacts
<1>3. p[1] # p[2]
  BY <1>1, <1>2
<1>4. TypeOf(p[1]) # TypeOf(p[2])
  BY <1>1, <1>3 DEF Registered, TypesDistinct
<1> QED
  BY <1>1, <1>2, <1>4 DEF LiveTypes

LEMMA TypedPairOrdered ==
  ASSUME Registered, NEW p \in ConflictPairs
  PROVE  /\ \/ TypeOf(p[1]) < TypeOf(p[2]) /\ TypedPair(p) = <<TypeOf(p[1]), TypeOf(p[2])>>
            \/ TypeOf(p[2]) < TypeOf(p[1]) /\ TypedPair(p) = <<TypeOf(p[2]), TypeOf(p[1])>>
         /\ TypedPair(p) \in Nat \X Nat
  BY ConflictFacts DEF TypedPair, LowType, HighType

(* Distinct conflicts are conflicts of distinct pairs of types. *)
LEMMA TypedPairInjective ==
  ASSUME Registered, NEW p \in ConflictPairs, NEW r \in ConflictPairs, TypedPair(p) = TypedPair(r)
  PROVE  p = r
<1>1. \A i, j \in Live : TypeOf(i) = TypeOf(j) => i = j
  BY DEF Registered, TypesDistinct
<1>2. /\ p = <<p[1], p[2]>> /\ p[1] \in Live /\ p[2] \in Live /\ p[1] \in Nat /\ p[2] \in Nat /\ p[1] < p[2]
  BY ConflictFacts
<1>3. /\ r = <<r[1], r[2]>> /\ r[1] \in Live /\ r[2] \in Live /\ r[1] \in Nat /\ r[2] \in Nat /\ r[1] < r[2]
  BY ConflictFacts
<1>4. \/ TypeOf(p[1]) = TypeOf(r[1]) /\ TypeOf(p[2]) = TypeOf(r[2])
      \/ TypeOf(p[1]) = TypeOf(r[2]) /\ TypeOf(p[2]) = TypeOf(r[1])
  <2>1. TypedPair(p) = <<TypeOf(p[1]), TypeOf(p[2])>> \/ TypedPair(p) = <<TypeOf(p[2]), TypeOf(p[1])>>
    BY TypedPairOrdered
  <2>2. TypedPair(r) = <<TypeOf(r[1]), TypeOf(r[2])>> \/ TypedPair(r) = <<TypeOf(r[2]), TypeOf(r[1])>>
    BY TypedPairOrdered
  <2> QED
    BY <2>1, <2>2
<1>5. (p[1] = r[1] /\ p[2] = r[2]) \/ (p[1] = r[2] /\ p[2] = r[1])
  BY <1>1, <1>2, <1>3, <1>4
<1>6. p[1] = r[1] /\ p[2] = r[2]
  BY <1>2, <1>3, <1>5
<1> QED
  BY <1>2, <1>3, <1>6

(* What rebuild starts from is what the live types declare. *)
LEMMA TypedDeclared ==
  ASSUME Registered
  PROVE  Typed(DeclaredEdges) = DeclaredBetween(program, LiveTypes)
<1>1. ASSUME NEW t \in Typed(DeclaredEdges) PROVE t \in DeclaredBetween(program, LiveTypes)
  <2>1. PICK e \in DeclaredEdges : t = <<TypeOf(e[1]), TypeOf(e[2])>>
    BY <1>1 DEF Typed
  <2>2. /\ e[1] \in Live /\ e[2] \in Live
        /\ TypeOf(e[1]) \in program[TypeOf(e[2])].run_after \/ TypeOf(e[2]) \in program[TypeOf(e[1])].run_before
    BY DEF DeclaredEdges, Decl
  <2>3. TypeOf(e[1]) \in LiveTypes /\ TypeOf(e[2]) \in LiveTypes
    BY <2>2 DEF LiveTypes
  <2> QED
    BY <2>1, <2>2, <2>3 DEF DeclaredBetween
<1>2. ASSUME NEW t \in DeclaredBetween(program, LiveTypes) PROVE t \in Typed(DeclaredEdges)
  <2>1. /\ t = <<t[1], t[2]>> /\ t[1] \in LiveTypes /\ t[2] \in LiveTypes
        /\ t[1] \in program[t[2]].run_after \/ t[2] \in program[t[1]].run_before
    BY <1>2 DEF DeclaredBetween
  <2>2. PICK i \in Live : t[1] = TypeOf(i)
    BY <2>1 DEF LiveTypes
  <2>3. PICK j \in Live : t[2] = TypeOf(j)
    BY <2>1 DEF LiveTypes
  <2> DEFINE e == <<i, j>>
  <2>4. e \in DeclaredEdges /\ t = <<TypeOf(e[1]), TypeOf(e[2])>>
    BY <2>1, <2>2, <2>3 DEF DeclaredEdges, Decl
  <2> HIDE DEF e
  <2> QED
    BY <2>4 DEF Typed
<1> QED
  BY <1>1, <1>2

LEMMA TypedConflicts ==
  ASSUME Registered
  PROVE  TypedPairs(ConflictPairs) = ConflictsBetween(program, LiveTypes)
<1>1. ASSUME NEW p \in ConflictPairs PROVE TypedPair(p) \in ConflictsBetween(program, LiveTypes)
  <2>1. /\ TypeOf(p[1]) \in LiveTypes /\ TypeOf(p[2]) \in LiveTypes
        /\ MustOrder(program[TypeOf(p[1])], program[TypeOf(p[2])])
    BY ConflictFacts DEF Decl
  <2>2. MustOrder(program[TypeOf(p[2])], program[TypeOf(p[1])])
    BY <2>1, ConflictIsSymmetric
  <2>3. \/ TypeOf(p[1]) < TypeOf(p[2]) /\ TypedPair(p) = <<TypeOf(p[1]), TypeOf(p[2])>>
        \/ TypeOf(p[2]) < TypeOf(p[1]) /\ TypedPair(p) = <<TypeOf(p[2]), TypeOf(p[1])>>
    BY TypedPairOrdered
  <2> QED
    BY <2>1, <2>2, <2>3 DEF ConflictsBetween
<1>2. ASSUME NEW q \in ConflictsBetween(program, LiveTypes) PROVE \E p \in ConflictPairs : q = TypedPair(p)
  <2>1. /\ q = <<q[1], q[2]>> /\ q[1] \in LiveTypes /\ q[2] \in LiveTypes /\ q[1] < q[2]
        /\ MustOrder(program[q[1]], program[q[2]])
    BY <1>2 DEF ConflictsBetween
  <2>2. MustOrder(program[q[2]], program[q[1]])
    BY <2>1, ConflictIsSymmetric
  <2>3. PICK i \in Live : q[1] = TypeOf(i)
    BY <2>1 DEF LiveTypes
  <2>4. PICK j \in Live : q[2] = TypeOf(j)
    BY <2>1 DEF LiveTypes
  <2>5. i \in Nat /\ j \in Nat /\ TypeOf(i) \in Nat /\ TypeOf(j) \in Nat
    BY RegistryFacts
  <2>6. i # j /\ ~(TypeOf(j) < TypeOf(i)) /\ TypeOf(i) < TypeOf(j)
    BY <2>1, <2>3, <2>4, <2>5
  <2>7. CASE i < j
    <3>1. <<i, j>> \in ConflictPairs
      BY <2>1, <2>3, <2>4, <2>7 DEF ConflictPairs, Decl
    <3>2. q = TypedPair(<<i, j>>)
      BY <2>1, <2>3, <2>4, <2>6 DEF TypedPair, LowType, HighType
    <3> QED
      BY <3>1, <3>2
  <2>8. CASE j < i
    <3>1. <<j, i>> \in ConflictPairs
      BY <2>2, <2>3, <2>4, <2>8 DEF ConflictPairs, Decl
    <3>2. q = TypedPair(<<j, i>>)
      BY <2>1, <2>3, <2>4, <2>6 DEF TypedPair, LowType, HighType
    <3> QED
      BY <3>1, <3>2
  <2> QED
    BY <2>5, <2>6, <2>7, <2>8
<1> QED
  BY <1>1, <1>2 DEF TypedPairs

LEMMA LiveTypesFinite ==
  ASSUME Registered
  PROVE  IsFiniteSet(LiveTypes \X LiveTypes) /\ LiveTypes \X LiveTypes \subseteq Nat \X Nat
<1>1. Nodes = 1 .. Len(registry) /\ Len(registry) \in Nat /\ Live \subseteq Nodes /\ LiveTypes \subseteq Nat
  BY RegistryFacts
<1>2. IsFiniteSet(Nodes)
  BY <1>1, FS_Interval
<1>3. IsFiniteSet(Live)
  BY <1>1, <1>2, FS_Subset
<1> DEFINE f == [i \in Live |-> TypeOf(i)]
<1>4. f \in Surjection(Live, LiveTypes)
  BY DEF Surjection, LiveTypes
<1> HIDE DEF f
<1>5. IsFiniteSet(LiveTypes)
  BY <1>3, <1>4, FS_Surjection
<1> QED
  BY <1>1, <1>5, FS_Product

(* The conflicts that are oriented, as types: finitely many pairs of numbers. *)
LEMMA TypedPairsFinite ==
  ASSUME Registered, NEW P \in SUBSET ConflictPairs
  PROVE  TypedPairs(P) \in SUBSET (Nat \X Nat) /\ IsFiniteSet(TypedPairs(P))
<1>1. TypedPairs(P) \subseteq TypedPairs(ConflictPairs)
  BY DEF TypedPairs
<1>2. TypedPairs(ConflictPairs) \subseteq LiveTypes \X LiveTypes
  BY TypedConflicts DEF ConflictsBetween
<1>3. IsFiniteSet(LiveTypes \X LiveTypes) /\ LiveTypes \X LiveTypes \subseteq Nat \X Nat
  BY LiveTypesFinite
<1>4. TypedPairs(P) \in SUBSET (LiveTypes \X LiveTypes)
  BY <1>1, <1>2
<1>5. IsFiniteSet(TypedPairs(P))
  BY <1>3, <1>4, FS_Subset
<1> QED
  BY <1>3, <1>4, <1>5

(* One iteration of the loop over the conflicts is one step on types. *)
LEMMA PreferenceTyped ==
  ASSUME Registered, edges \subseteq Live \X Live, depth \in [Nodes -> Nat], IsDepth(edges, depth),
         NEW p \in ConflictPairs
  PROVE  /\ <<TypeOf(Oriented(p)[1]), TypeOf(Oriented(p)[2])>> = Towards(Typed(edges), TypedPair(p))
         /\ <<TypeOf(Reversed(Oriented(p))[1]), TypeOf(Reversed(Oriented(p))[2])>> = Away(Typed(edges), TypedPair(p))
         /\ Oriented(p) \in Live \X Live /\ Reversed(Oriented(p)) \in Live \X Live
<1> DEFINE T == Typed(edges)
           a == TypeOf(p[1])
           b == TypeOf(p[2])
           c == Cost(p[1], p[2])
           e == Cost(p[2], p[1])
<1>1. /\ p = <<p[1], p[2]>> /\ p[1] \in Live /\ p[2] \in Live /\ a \in Nat /\ b \in Nat
  BY ConflictFacts
<1>2. \A i \in Live : TypeDepth(T)[TypeOf(i)] = depth[i]
  BY DepthTyped
<1>3. TypeCost(T, a, b) = c /\ TypeCost(T, b, a) = e
  BY <1>1, <1>2 DEF TypeCost, Cost
<1>4. c \in Nat /\ e \in Nat
  <2>1. depth[p[1]] \in Nat /\ depth[p[2]] \in Nat
    BY <1>1, RegistryFacts
  <2> QED
    BY <2>1 DEF Cost
<1>5. RunsFirst(p[1], p[2]) <=> c < e \/ (c = e /\ a <= b)
  BY DEF RunsFirst
<1>6. /\ RunsFirst(p[1], p[2]) => Oriented(p) = <<p[1], p[2]>> /\ Reversed(Oriented(p)) = <<p[2], p[1]>>
      /\ ~RunsFirst(p[1], p[2]) => Oriented(p) = <<p[2], p[1]>> /\ Reversed(Oriented(p)) = <<p[1], p[2]>>
  BY <1>1 DEF Oriented, Reversed
<1>7. /\ RunsFirst(p[1], p[2]) => /\ <<TypeOf(Oriented(p)[1]), TypeOf(Oriented(p)[2])>> = <<a, b>>
                                  /\ <<TypeOf(Reversed(Oriented(p))[1]), TypeOf(Reversed(Oriented(p))[2])>> = <<b, a>>
      /\ ~RunsFirst(p[1], p[2]) => /\ <<TypeOf(Oriented(p)[1]), TypeOf(Oriented(p)[2])>> = <<b, a>>
                                   /\ <<TypeOf(Reversed(Oriented(p))[1]), TypeOf(Reversed(Oriented(p))[2])>> = <<a, b>>
  BY <1>6
<1>8. Oriented(p) \in Live \X Live /\ Reversed(Oriented(p)) \in Live \X Live
  BY <1>1, <1>6
<1>9. CASE a < b /\ TypedPair(p) = <<a, b>>
  <2>1. Forward(T, TypedPair(p)) <=> c <= e
    BY <1>3, <1>9 DEF Forward
  <2>2. RunsFirst(p[1], p[2]) <=> c <= e
    BY <1>1, <1>4, <1>5, <1>9
  <2>3. /\ Towards(T, TypedPair(p)) = IF c <= e THEN <<a, b>> ELSE <<b, a>>
        /\ Away(T, TypedPair(p)) = IF c <= e THEN <<b, a>> ELSE <<a, b>>
    BY <1>9, <2>1 DEF Towards, Away
  <2> HIDE DEF a, b, c, e, T
  <2>4. /\ <<TypeOf(Oriented(p)[1]), TypeOf(Oriented(p)[2])>> = Towards(T, TypedPair(p))
        /\ <<TypeOf(Reversed(Oriented(p))[1]), TypeOf(Reversed(Oriented(p))[2])>> = Away(T, TypedPair(p))
    BY <1>7, <2>2, <2>3
  <2> QED
    BY <1>8, <2>4 DEF T
<1>10. CASE b < a /\ TypedPair(p) = <<b, a>>
  <2>1. Forward(T, TypedPair(p)) <=> e <= c
    BY <1>3, <1>10 DEF Forward
  <2>2. RunsFirst(p[1], p[2]) <=> ~(e <= c)
    BY <1>1, <1>4, <1>5, <1>10
  <2>3. /\ Towards(T, TypedPair(p)) = IF e <= c THEN <<b, a>> ELSE <<a, b>>
        /\ Away(T, TypedPair(p)) = IF e <= c THEN <<a, b>> ELSE <<b, a>>
    BY <1>10, <2>1 DEF Towards, Away
  <2> HIDE DEF a, b, c, e, T
  <2>4. /\ <<TypeOf(Oriented(p)[1]), TypeOf(Oriented(p)[2])>> = Towards(T, TypedPair(p))
        /\ <<TypeOf(Reversed(Oriented(p))[1]), TypeOf(Reversed(Oriented(p))[2])>> = Away(T, TypedPair(p))
    BY <1>7, <2>2, <2>3
  <2> QED
    BY <1>8, <2>4 DEF T
<1>11. (a < b /\ TypedPair(p) = <<a, b>>) \/ (b < a /\ TypedPair(p) = <<b, a>>)
  BY TypedPairOrdered
<1> QED
  BY <1>9, <1>10, <1>11

LEMMA TypedAdds ==
  ASSUME NEW E, NEW e
  PROVE  Typed(E \cup {e}) = Typed(E) \cup {<<TypeOf(e[1]), TypeOf(e[2])>>}
  BY DEF Typed

LEMMA OrientationTyped ==
  ASSUME Registered, edges \subseteq Live \X Live, depth \in [Nodes -> Nat], IsDepth(edges, depth),
         NEW p \in ConflictPairs, OrientConflict(p), ~Refused
  PROVE  /\ Typed(edges') = OrientTypes(0, TypedPair(p), Typed(edges))
         /\ todo' = todo \ {p} /\ phase' = phase
<1> DEFINE T == Typed(edges)
           q == TypedPair(p)
           preferred == edges \cup {Oriented(p)}
           fallback == edges \cup {Reversed(Oriented(p))}
           joined == PathExists(edges, p[1], p[2]) \/ PathExists(edges, p[2], p[1])
<1>1. /\ Typed(preferred) = T \cup {Towards(T, q)}
      /\ Typed(fallback) = T \cup {Away(T, q)}
      /\ preferred \subseteq Live \X Live
  BY PreferenceTyped, TypedAdds
<1>2. joined <=> TypePath(T, q[1], q[2]) \/ TypePath(T, q[2], q[1])
  <2>1. p[1] \in Live /\ p[2] \in Live
    BY ConflictFacts
  <2>2. /\ PathExists(edges, p[1], p[2]) <=> TypePath(T, TypeOf(p[1]), TypeOf(p[2]))
        /\ PathExists(edges, p[2], p[1]) <=> TypePath(T, TypeOf(p[2]), TypeOf(p[1]))
    BY <2>1, PathTyped
  <2>3. \/ q = <<TypeOf(p[1]), TypeOf(p[2])>>
        \/ q = <<TypeOf(p[2]), TypeOf(p[1])>>
    BY TypedPairOrdered
  <2> HIDE DEF T, q
  <2>4. CASE q = <<TypeOf(p[1]), TypeOf(p[2])>>
    <3>1. q[1] = TypeOf(p[1]) /\ q[2] = TypeOf(p[2])
      BY <2>4
    <3> QED
      BY <2>2, <3>1
  <2>5. CASE q = <<TypeOf(p[2]), TypeOf(p[1])>>
    <3>1. q[1] = TypeOf(p[2]) /\ q[2] = TypeOf(p[1])
      BY <2>5
    <3> QED
      BY <2>2, <3>1
  <2> QED
    BY <2>3, <2>4, <2>5
<1>3. Acyclic(preferred) <=> TypesAcyclic(T \cup {Towards(T, q)})
  BY <1>1, AcyclicTyped
<1>4. \/ joined /\ Continue(edges, depth, p)
      \/ ~joined /\ Acyclic(preferred) /\ Continue(preferred, DepthOf(preferred), p)
      \/ ~joined /\ ~Acyclic(preferred) /\ Continue(fallback, DepthOf(fallback), p)
  BY DEF OrientConflict
<1> HIDE DEF T, q, joined, preferred, fallback
<1>5. \/ joined /\ edges' = edges
      \/ ~joined /\ Acyclic(preferred) /\ edges' = preferred
      \/ ~joined /\ ~Acyclic(preferred) /\ edges' = fallback
  BY <1>4 DEF Continue
<1>6. todo' = todo \ {p} /\ phase' = phase
  BY <1>4 DEF Continue
<1>7. Typed(edges') = OrientTypes(0, q, T)
  <2>1. CASE joined /\ edges' = edges
    BY <1>2, <2>1 DEF OrientTypes, T
  <2>2. CASE ~joined /\ Acyclic(preferred) /\ edges' = preferred
    BY <1>1, <1>2, <1>3, <2>2 DEF OrientTypes
  <2>3. CASE ~joined /\ ~Acyclic(preferred) /\ edges' = fallback
    BY <1>1, <1>2, <1>3, <2>3 DEF OrientTypes
  <2> QED
    BY <1>5, <2>1, <2>2, <2>3
<1> QED
  BY <1>6, <1>7 DEF q, T

(* Two ascending lists of the same numbers are one list. *)
Ascends(f, n) == f \in [1 .. n -> Nat] /\ \A i, j \in 1 .. n : i < j => f[i] < f[j]
OccursIn(f, m, g, n) == \A i \in 1 .. m : \E k \in 1 .. n : f[i] = g[k]

LEMMA AscendingAgree ==
  ASSUME NEW m \in Nat, NEW n \in Nat, NEW f, NEW g, Ascends(f, m), Ascends(g, n),
         OccursIn(f, m, g, n), OccursIn(g, n, f, m)
  PROVE  \A i \in 1 .. m : i \in 1 .. n /\ f[i] = g[i]
<1> DEFINE wrong == {i \in 1 .. m : ~(i \in 1 .. n /\ f[i] = g[i])}
<1>1. SUFFICES ASSUME wrong # {} PROVE FALSE
  OBVIOUS
<1>2. PICK i \in wrong : \A j \in wrong : i <= j
  <2>1. wrong \in SUBSET Nat
    OBVIOUS
  <2> HIDE DEF wrong
  <2> QED
    BY <1>1, <2>1, LeastNumber
<1>3. i \in 1 .. m /\ ~(i \in 1 .. n /\ f[i] = g[i])
  OBVIOUS
<1>4. ASSUME NEW j \in 1 .. m, j < i PROVE j \in 1 .. n /\ f[j] = g[j]
  <2> SUFFICES ASSUME j \in wrong PROVE FALSE
    OBVIOUS
  <2> HIDE DEF wrong
  <2>1. i <= j
    BY <1>2
  <2> QED
    BY <1>3, <1>4, <2>1
<1> HIDE DEF wrong
<1>5. PICK k \in 1 .. n : f[i] = g[k]
  BY <1>3 DEF OccursIn
<1>6. ~(k < i)
  <2> SUFFICES ASSUME k < i PROVE FALSE
    OBVIOUS
  <2>1. k \in 1 .. m
    BY <1>3
  <2>2. f[k] = g[k] /\ f[k] < f[i] /\ f[i] \in Nat
    BY <1>3, <1>4, <2>1 DEF Ascends
  <2> QED
    BY <1>5, <2>2
<1>7. i \in 1 .. n
  BY <1>3, <1>6
<1>8. PICK l \in 1 .. m : g[i] = f[l]
  BY <1>7 DEF OccursIn
<1>9. ~(l < i)
  <2> SUFFICES ASSUME l < i PROVE FALSE
    OBVIOUS
  <2>1. l \in 1 .. n /\ f[l] = g[l]
    BY <1>4
  <2>2. g[l] < g[i] /\ g[i] \in Nat
    BY <1>7, <2>1 DEF Ascends
  <2> QED
    BY <1>8, <2>1, <2>2
<1>10. g[i] <= g[k]
  <2>1. g[i] \in Nat /\ g[k] \in Nat /\ (i < k => g[i] < g[k])
    BY <1>7 DEF Ascends
  <2>2. i = k \/ i < k
    BY <1>3, <1>6
  <2> QED
    BY <2>1, <2>2
<1>11. f[i] <= f[l]
  <2>1. f[i] \in Nat /\ f[l] \in Nat /\ (i < l => f[i] < f[l])
    BY <1>3 DEF Ascends
  <2>2. i = l \/ i < l
    BY <1>3, <1>9
  <2> QED
    BY <2>1, <2>2
<1>12. f[i] \in Nat /\ g[i] \in Nat
  BY <1>3, <1>7 DEF Ascends
<1>13. g[i] <= f[i] /\ f[i] <= g[i]
  BY <1>5, <1>8, <1>10, <1>11
<1>14. f[i] = g[i]
  BY <1>12, <1>13
<1> QED
  BY <1>3, <1>7, <1>14

LEMMA OneAscendingList ==
  ASSUME NEW f \in Seq(Nat), NEW g \in Seq(Nat), Ascends(f, Len(f)), Ascends(g, Len(g)),
         OccursIn(f, Len(f), g, Len(g)), OccursIn(g, Len(g), f, Len(f))
  PROVE  f = g
<1> DEFINE m == Len(f)
           n == Len(g)
<1>1. m \in Nat /\ n \in Nat /\ DOMAIN f = 1 .. m /\ DOMAIN g = 1 .. n
  OBVIOUS
<1>3. Ascends(f, m) /\ Ascends(g, n) /\ OccursIn(f, m, g, n) /\ OccursIn(g, n, f, m)
  OBVIOUS
<1> HIDE DEF m, n
<1>2. \A i \in 1 .. m : i \in 1 .. n /\ f[i] = g[i]
  BY <1>1, <1>3, AscendingAgree
<1>5. \A i \in 1 .. n : i \in 1 .. m /\ g[i] = f[i]
  BY <1>1, <1>3, AscendingAgree
<1>6. m = n
  <2>1. m > 0 => m \in 1 .. m
    BY <1>1
  <2>2. n > 0 => n \in 1 .. n
    BY <1>1
  <2>3. (m > 0 => m <= n) /\ (n > 0 => n <= m)
    BY <1>1, <1>2, <1>5, <2>1, <2>2
  <2> QED
    BY <1>1, <2>3
<1> QED
  BY <1>1, <1>2, <1>6 DEF m, n

-----------------------------------------------------------------------------
(* What a layout is: the types of L, one depth to a stage, deeper and      *)
(* deeper, by ascending type within.  There is one such layout.            *)
LaidBy(lay, d, L) ==
  /\ lay \in Seq(Seq(Nat) \ {<<>>})
  /\ \A s \in DOMAIN lay : \A k \in DOMAIN lay[s] : lay[s][k] \in L /\ d[lay[s][k]] = d[lay[s][1]]
  /\ \A t \in L : \E s \in DOMAIN lay : \E k \in DOMAIN lay[s] : lay[s][k] = t
  /\ \A s, r \in DOMAIN lay : s < r => d[lay[s][1]] < d[lay[r][1]]
  /\ \A s \in DOMAIN lay : \A j, k \in DOMAIN lay[s] : j < k => lay[s][j] < lay[s][k]

StageDepths(lay, d) == [s \in 1 .. Len(lay) |-> d[lay[s][1]]]

LEMMA LaidFacts ==
  ASSUME NEW L \in SUBSET Types, NEW d \in [Types -> Nat], NEW lay, LaidBy(lay, d, L)
  PROVE  /\ Len(lay) \in Nat /\ DOMAIN lay = 1 .. Len(lay)
         /\ \A s \in 1 .. Len(lay) :
              /\ lay[s] \in Seq(Nat) /\ DOMAIN lay[s] = 1 .. Len(lay[s]) /\ Len(lay[s]) \in Nat
              /\ 1 \in DOMAIN lay[s] /\ lay[s][1] \in L /\ Ascends(lay[s], Len(lay[s]))
         /\ StageDepths(lay, d) \in Seq(Nat) /\ Len(StageDepths(lay, d)) = Len(lay)
         /\ Ascends(StageDepths(lay, d), Len(lay))
<1> DEFINE T == Seq(Nat) \ {<<>>}
<1>1. lay \in Seq(T)
  BY DEF LaidBy
<1>2. Len(lay) \in Nat /\ DOMAIN lay = 1 .. Len(lay) /\ \A s \in 1 .. Len(lay) : lay[s] \in T
  <2> HIDE DEF T
  <2> QED
    BY <1>1
<1>3. ASSUME NEW s \in 1 .. Len(lay)
      PROVE  /\ lay[s] \in Seq(Nat) /\ DOMAIN lay[s] = 1 .. Len(lay[s]) /\ Len(lay[s]) \in Nat
             /\ 1 \in DOMAIN lay[s] /\ lay[s][1] \in L /\ Ascends(lay[s], Len(lay[s]))
  <2>1. lay[s] \in Seq(Nat) /\ lay[s] # <<>>
    BY <1>2
  <2>2. DOMAIN lay[s] = 1 .. Len(lay[s]) /\ Len(lay[s]) \in Nat /\ 1 \in DOMAIN lay[s]
    BY <2>1
  <2>3. lay[s] \in [1 .. Len(lay[s]) -> Nat]
    BY <2>1
  <2>4. Ascends(lay[s], Len(lay[s]))
    BY <1>2, <2>2, <2>3 DEF LaidBy, Ascends
  <2>5. lay[s][1] \in L
    BY <1>2, <2>2 DEF LaidBy
  <2> QED
    BY <2>1, <2>2, <2>4, <2>5
<1> DEFINE f == StageDepths(lay, d)
<1>4. f \in [1 .. Len(lay) -> Nat]
  BY <1>3 DEF StageDepths
<1>5. f \in Seq(Nat) /\ Len(f) = Len(lay)
  <2> DEFINE n == Len(lay)
  <2>1. n \in Nat /\ f \in [1 .. n -> Nat]
    BY <1>2, <1>4
  <2> HIDE DEF f, n
  <2>2. f \in Seq(Nat) /\ Len(f) = n
    BY <2>1
  <2> QED
    BY <2>2 DEF n
<1>6. \A i, j \in 1 .. Len(lay) : i < j => f[i] < f[j]
  BY <1>2 DEF LaidBy, StageDepths
<1>7. Ascends(f, Len(lay))
  BY <1>4, <1>6 DEF Ascends
<1> QED
  BY <1>2, <1>3, <1>5, <1>7

LEMMA DepthsOccur ==
  ASSUME NEW L \in SUBSET Types, NEW d \in [Types -> Nat], NEW a, NEW b, LaidBy(a, d, L), LaidBy(b, d, L)
  PROVE  OccursIn(StageDepths(a, d), Len(a), StageDepths(b, d), Len(b))
<1> SUFFICES ASSUME NEW s \in 1 .. Len(a) PROVE \E r \in 1 .. Len(b) : StageDepths(a, d)[s] = StageDepths(b, d)[r]
  BY DEF OccursIn
<1>1. \A z \in 1 .. Len(a) : a[z][1] \in L
  BY LaidFacts
<1>2. DOMAIN b = 1 .. Len(b)
  BY LaidFacts
<1>0. \A t \in L : \E s1 \in DOMAIN b : \E k \in DOMAIN b[s1] : b[s1][k] = t
  BY DEF LaidBy
<1>6. \A s1 \in DOMAIN b : \A k \in DOMAIN b[s1] : d[b[s1][k]] = d[b[s1][1]]
  BY DEF LaidBy
<1>5. a[s][1] \in L
  BY <1>1
<1>3. PICK r \in DOMAIN b : \E k \in DOMAIN b[r] : b[r][k] = a[s][1]
  BY <1>0, <1>5
<1>4. d[a[s][1]] = d[b[r][1]]
  BY <1>3, <1>6
<1> QED
  BY <1>2, <1>3, <1>4 DEF StageDepths

LEMMA StageEntriesOccur ==
  ASSUME NEW L \in SUBSET Types, NEW d \in [Types -> Nat], NEW a, NEW b, LaidBy(a, d, L), LaidBy(b, d, L),
         Len(a) = Len(b), StageDepths(a, d) = StageDepths(b, d), NEW s \in 1 .. Len(a)
  PROVE  OccursIn(a[s], Len(a[s]), b[s], Len(b[s]))
<1> SUFFICES ASSUME NEW j \in 1 .. Len(a[s]) PROVE \E k \in 1 .. Len(b[s]) : a[s][j] = b[s][k]
  BY DEF OccursIn
<1>1. /\ DOMAIN a = 1 .. Len(a) /\ DOMAIN b = 1 .. Len(b) /\ Len(b) \in Nat
      /\ \A z \in 1 .. Len(a) : DOMAIN a[z] = 1 .. Len(a[z])
      /\ \A z \in 1 .. Len(b) : DOMAIN b[z] = 1 .. Len(b[z]) /\ b[z][1] \in L
  BY LaidFacts
<1>2. a[s][j] \in L /\ d[a[s][j]] = d[a[s][1]]
  BY <1>1 DEF LaidBy
<1>0. \A t \in L : \E s1 \in DOMAIN b : \E k \in DOMAIN b[s1] : b[s1][k] = t
  BY DEF LaidBy
<1>3. PICK r \in DOMAIN b : \E k \in DOMAIN b[r] : b[r][k] = a[s][j]
  BY <1>0, <1>2
<1>8. \A s1 \in DOMAIN b : \A k \in DOMAIN b[s1] : d[b[s1][k]] = d[b[s1][1]]
  BY DEF LaidBy
<1>4. d[a[s][j]] = d[b[r][1]]
  BY <1>3, <1>8
<1>5. d[a[s][1]] = d[b[s][1]]
  <2>1. StageDepths(a, d)[s] = StageDepths(b, d)[s]
    OBVIOUS
  <2> QED
    BY <2>1 DEF StageDepths
<1>6. d[b[r][1]] = d[b[s][1]] /\ s \in DOMAIN b /\ b[r][1] \in L /\ b[s][1] \in L
  BY <1>1, <1>2, <1>4, <1>5
<1>7. r = s
  <2>1. r < s => d[b[r][1]] < d[b[s][1]]
    BY <1>6 DEF LaidBy
  <2>2. s < r => d[b[s][1]] < d[b[r][1]]
    BY <1>6 DEF LaidBy
  <2>3. d[b[r][1]] \in Nat /\ d[b[s][1]] \in Nat /\ r \in Nat /\ s \in Nat
    BY <1>1, <1>6
  <2> QED
    BY <1>6, <2>1, <2>2, <2>3
<1> QED
  BY <1>1, <1>3, <1>7

LEMMA OneLayout ==
  ASSUME NEW L \in SUBSET Types, NEW d \in [Types -> Nat], NEW a, NEW b, LaidBy(a, d, L), LaidBy(b, d, L)
  PROVE  a = b
<1> DEFINE f == StageDepths(a, d)
           g == StageDepths(b, d)
<1>1. f \in Seq(Nat) /\ Len(f) = Len(a) /\ Ascends(f, Len(f))
  <2>1. f \in Seq(Nat) /\ Len(f) = Len(a) /\ Ascends(f, Len(a))
    BY LaidFacts
  <2> HIDE DEF f
  <2> QED
    BY <2>1
<1>2. g \in Seq(Nat) /\ Len(g) = Len(b) /\ Ascends(g, Len(g))
  <2>1. g \in Seq(Nat) /\ Len(g) = Len(b) /\ Ascends(g, Len(b))
    BY LaidFacts
  <2> HIDE DEF g
  <2> QED
    BY <2>1
<1>3. OccursIn(f, Len(a), g, Len(b)) /\ OccursIn(g, Len(b), f, Len(a))
  BY DepthsOccur
<1> HIDE DEF f, g
<1>4. OccursIn(f, Len(f), g, Len(g)) /\ OccursIn(g, Len(g), f, Len(f))
  BY <1>1, <1>2, <1>3
<1>5. f = g
  BY <1>1, <1>2, <1>4, OneAscendingList
<1>6. Len(a) = Len(b)
  BY <1>1, <1>2, <1>5
<1>7. ASSUME NEW s \in 1 .. Len(a) PROVE a[s] = b[s]
  <2>1. a[s] \in Seq(Nat) /\ Ascends(a[s], Len(a[s]))
    BY LaidFacts
  <2>2. b[s] \in Seq(Nat) /\ Ascends(b[s], Len(b[s]))
    BY <1>6, LaidFacts
  <2>3. OccursIn(a[s], Len(a[s]), b[s], Len(b[s]))
    BY <1>5, <1>6, StageEntriesOccur DEF f, g
  <2>4. OccursIn(b[s], Len(b[s]), a[s], Len(a[s]))
    BY <1>5, <1>6, StageEntriesOccur DEF f, g
  <2> QED
    BY <2>1, <2>2, <2>3, <2>4, OneAscendingList
<1>8. \A i \in DOMAIN a : a[i] = b[i]
  <2>1. DOMAIN a = 1 .. Len(a)
    BY LaidFacts
  <2> QED
    BY <1>7, <2>1
<1> DEFINE T == Seq(Nat) \ {<<>>}
<1>9. a \in Seq(T) /\ b \in Seq(T)
  BY DEF LaidBy
<1> HIDE DEF T
<1> QED
  BY <1>6, <1>8, <1>9

(* While rebuild runs its graph is that of the same algorithm on types,    *)
(* after the conflicts it has taken, which are those that come first.      *)
Taken == ConflictPairs \ todo

BuildInv ==
  phase # "idle" =>
    /\ todo \subseteq ConflictPairs
    /\ \A p \in Taken, r \in todo : PairBefore(TypedPair(p), TypedPair(r))
    /\ Typed(edges) = EdgesAfter(program, LiveTypes, TypedPairs(Taken))

Laid(lay, pr, L) ==
  LET E == FinalEdges(pr, L) IN TypesAcyclic(E) /\ LaidBy(lay, TypeDepth(E), L)

LayoutIInv ==
  /\ BuildInv
  /\ InForce => Laid(Layout, program, LiveTypes)
  /\ seen # NoLayout => Laid(seen, program, Types)

LEMMA RegisteredHolds ==
  ASSUME SchedulerIInv, OrderIInv
  PROVE  Registered
  BY DEF SchedulerIInv, SchedulerTypeOK, OrderIInv, Registered

LEMMA TypesFixed ==
  ASSUME UNCHANGED <<program, registry>>
  PROVE  /\ LiveTypes' = LiveTypes /\ ConflictPairs' = ConflictPairs
         /\ \A p : TypedPair(p)' = TypedPair(p)
         /\ \A P : TypedPairs(P)' = TypedPairs(P)
         /\ \A E : Typed(E)' = Typed(E)
<1>1. \A i : TypeOf(i)' = TypeOf(i)
  BY OrderFixed
<1>2. Live' = Live /\ ConflictPairs' = ConflictPairs
  BY RegistryFixed
<1>3. \A p : TypedPair(p)' = TypedPair(p)
  BY <1>1 DEF TypedPair, LowType, HighType
<1>4. \A P : TypedPairs(P)' = TypedPairs(P)
  BY <1>3 DEF TypedPairs
<1>5. \A E : Typed(E)' = Typed(E)
  BY <1>1 DEF Typed
<1>6. LiveTypes' = LiveTypes
  BY <1>1, <1>2 DEF LiveTypes
<1> QED
  BY <1>2, <1>3, <1>4, <1>5, <1>6

LEMMA LayoutInit == SchedulerInit => LayoutIInv
  BY DEF SchedulerInit, LayoutIInv, BuildInv, InForce

(* Changes of the registry, and a rebuild that ends without a schedule. *)
LEMMA NothingInForce ==
  ASSUME LayoutIInv, phase' = "idle", ~InForce', UNCHANGED <<program, seen>>
  PROVE  LayoutIInv'
<1>1. seen # NoLayout => Laid(seen, program, Types)
  BY DEF LayoutIInv
<1>2. (seen # NoLayout => Laid(seen, program, Types))'
  BY <1>1
<1> QED
  BY <1>2 DEF LayoutIInv, BuildInv

LEMMA WhileBuilding ==
  ASSUME LayoutIInv, BuildInv', ~InForce', UNCHANGED <<program, seen>>
  PROVE  LayoutIInv'
<1>1. seen # NoLayout => Laid(seen, program, Types)
  BY DEF LayoutIInv
<1>2. (seen # NoLayout => Laid(seen, program, Types))'
  BY <1>1
<1> QED
  BY <1>2 DEF LayoutIInv

LEMMA BeginRebuildLays ==
  ASSUME SchedulerIInv, OrderIInv, LayoutIInv, BeginRebuild
  PROVE  LayoutIInv'
<1>0. UNCHANGED <<program, registry, seen>> /\ dirty
  BY DEF BeginRebuild
<1>1. CASE Refused
  <2>1. phase' = "idle" /\ ~InForce'
    BY <1>1 DEF Refused, Returned, InForce
  <2> QED
    BY <1>0, <2>1, NothingInForce
<1>2. CASE edges' = DeclaredEdges /\ todo' = ConflictPairs /\ UNCHANGED dirty
  <2>1. Taken' = {}
    BY <1>0, <1>2, TypesFixed DEF Taken
  <2>2. TypedPairs({}) = {}
    BY DEF TypedPairs
  <2>3. Typed(DeclaredEdges) = DeclaredBetween(program, LiveTypes)
    BY RegisteredHolds, TypedDeclared
  <2>4. EdgesAfter(program, LiveTypes, {}) = DeclaredBetween(program, LiveTypes)
    BY OrientedNone
  <2>5. Typed(edges)' = EdgesAfter(program, LiveTypes, TypedPairs(Taken))'
    <3>1. Typed(edges)' = Typed(DeclaredEdges)
      BY <1>0, <1>2, TypesFixed DEF Typed
    <3>2. TypedPairs(Taken)' = {}
      BY <2>1 DEF TypedPairs
    <3>3. program' = program /\ LiveTypes' = LiveTypes
      BY <1>0, TypesFixed
    <3> QED
      BY <2>3, <2>4, <3>1, <3>2, <3>3
  <2>6. BuildInv'
    BY <1>0, <1>2, <2>1, <2>5, TypesFixed DEF BuildInv
  <2>7. ~InForce'
    BY <1>0, <1>2 DEF InForce
  <2> QED
    BY <1>0, <2>6, <2>7, WhileBuilding
<1> QED
  BY <1>1, <1>2 DEF BeginRebuild

LEMMA OrientConflictLays ==
  ASSUME SchedulerIInv, OrderIInv, LayoutIInv, NEW p \in todo, OrientConflict(p)
  PROVE  LayoutIInv'
<1>0. /\ UNCHANGED <<program, registry, seen>> /\ dirty /\ phase = "orient" /\ IsNextConflict(p)
      /\ edges \subseteq Live \X Live /\ depth \in [Nodes -> Nat] /\ IsDepth(edges, depth)
      /\ Registered /\ p \in ConflictPairs /\ todo \subseteq ConflictPairs
      /\ \A q \in Taken, r \in todo : PairBefore(TypedPair(q), TypedPair(r))
      /\ Typed(edges) = EdgesAfter(program, LiveTypes, TypedPairs(Taken))
  <2>1. UNCHANGED <<program, registry, seen>> /\ phase = "orient" /\ IsNextConflict(p)
    BY DEF OrientConflict
  <2>2. dirty /\ edges \subseteq Live \X Live /\ depth \in Depths /\ IsDepth(edges, depth)
    BY <2>1 DEF SchedulerIInv, SchedulerTypeOK, GraphInv
  <2>3. depth \in [Nodes -> Nat]
    BY <2>2 DEF Depths
  <2>4. /\ todo \subseteq ConflictPairs
        /\ \A q \in Taken, r \in todo : PairBefore(TypedPair(q), TypedPair(r))
        /\ Typed(edges) = EdgesAfter(program, LiveTypes, TypedPairs(Taken))
    BY <2>1 DEF LayoutIInv, BuildInv
  <2> QED
    BY <2>1, <2>2, <2>3, <2>4, RegisteredHolds
<1>1. CASE Refused
  <2>1. phase' = "idle" /\ ~InForce'
    BY <1>1 DEF Refused, Returned, InForce
  <2> QED
    BY <1>0, <2>1, NothingInForce
<1>2. CASE ~Refused
  <2>1. Typed(edges') = OrientTypes(0, TypedPair(p), Typed(edges)) /\ todo' = todo \ {p} /\ phase' = phase
    BY <1>0, <1>2, OrientationTyped
  <2>2. Taken' = Taken \cup {p}
    BY <1>0, <2>1, TypesFixed DEF Taken
  <2>3. p \notin Taken
    BY DEF Taken
  <2>4. TypedPair(p) \in Nat \X Nat
    BY <1>0, TypedPairOrdered
  <2>5. TypedPairs(Taken) \in SUBSET (Nat \X Nat) /\ IsFiniteSet(TypedPairs(Taken))
    BY <1>0, TypedPairsFinite DEF Taken
  <2>6. \A r \in TypedPairs(Taken) : PairBefore(r, TypedPair(p))
    BY <1>0 DEF TypedPairs
  <2>7. TypedPair(p) \notin TypedPairs(Taken)
    <3> SUFFICES ASSUME TypedPair(p) \in TypedPairs(Taken) PROVE FALSE
      OBVIOUS
    <3>1. PairBefore(TypedPair(p), TypedPair(p))
      BY <2>6
    <3> QED
      BY <2>4, <3>1, PairsOrdered
  <2>8. EdgesAfter(program, LiveTypes, TypedPairs(Taken) \cup {TypedPair(p)})
          = OrientTypes(0, TypedPair(p), EdgesAfter(program, LiveTypes, TypedPairs(Taken)))
    BY <2>4, <2>5, <2>6, <2>7, OrientedLast
  <2>9. TypedPairs(Taken \cup {p}) = TypedPairs(Taken) \cup {TypedPair(p)}
    BY DEF TypedPairs
  <2>10. Typed(edges)' = EdgesAfter(program, LiveTypes, TypedPairs(Taken))'
    <3>1. Typed(edges)' = Typed(edges')
      BY <1>0, OrderFixed DEF Typed
    <3>2. TypedPairs(Taken)' = TypedPairs(Taken \cup {p})
      BY <1>0, <2>2, OrderFixed DEF TypedPairs, TypedPair, LowType, HighType
    <3>3. program' = program /\ LiveTypes' = LiveTypes
      BY <1>0, TypesFixed
    <3> QED
      BY <1>0, <2>1, <2>8, <2>9, <3>1, <3>2, <3>3
  <2>11. \A q \in Taken', r \in todo' : PairBefore(TypedPair(q), TypedPair(r))
    <3> SUFFICES ASSUME NEW q \in Taken \cup {p}, NEW r \in todo, r # p
                 PROVE  PairBefore(TypedPair(q), TypedPair(r))
      BY <2>1, <2>2
    <3>1. CASE q \in Taken
      BY <1>0, <3>1
    <3>2. CASE q = p
      <4>1. r \in ConflictPairs /\ TypedPair(r) # TypedPair(p)
        BY <1>0, TypedPairInjective
      <4>2. TypedPair(r) \in Nat \X Nat
        BY <1>0, <4>1, TypedPairOrdered
      <4>3. LowType(p) < LowType(r) \/ (LowType(p) = LowType(r) /\ HighType(p) <= HighType(r))
        BY <1>0 DEF IsNextConflict
      <4>4. /\ TypedPair(p) = <<LowType(p), HighType(p)>> /\ TypedPair(r) = <<LowType(r), HighType(r)>>
            /\ LowType(p) \in Nat /\ HighType(p) \in Nat /\ LowType(r) \in Nat /\ HighType(r) \in Nat
        BY <2>4, <4>2 DEF TypedPair
      <4>5. LowType(p) = LowType(r) => HighType(p) < HighType(r)
        BY <4>1, <4>3, <4>4
      <4> QED
        BY <3>2, <4>3, <4>4, <4>5 DEF PairBefore
    <3> QED
      BY <3>1, <3>2
  <2>12. (\A q \in Taken, r \in todo : PairBefore(TypedPair(q), TypedPair(r)))'
    <3>1. \A q : TypedPair(q)' = TypedPair(q)
      BY <1>0, TypesFixed
    <3> QED
      BY <2>11, <3>1
  <2>13. todo' \subseteq ConflictPairs'
    BY <1>0, <2>1, TypesFixed
  <2>14. BuildInv'
    BY <2>10, <2>12, <2>13 DEF BuildInv
  <2>15. ~InForce'
    <3>1. dirty' = dirty
      BY <1>2 DEF OrientConflict, Continue
    <3> QED
      BY <1>0, <3>1 DEF InForce
  <2> QED
    BY <1>0, <2>14, <2>15, WhileBuilding
<1> QED
  BY <1>1, <1>2

LEMMA EmittingLays ==
  ASSUME SchedulerIInv, LayoutIInv, BeginEmit \/ \E v \in Nodes : EmitSystem(v)
  PROVE  LayoutIInv'
<1>0. /\ UNCHANGED <<program, registry, seen, dirty, edges, todo>> /\ dirty /\ phase # "idle"
  BY DEF BeginEmit, EmitSystem, SchedulerIInv, GraphInv
<1>1. BuildInv
  BY DEF LayoutIInv
<1>2. Taken' = Taken
  BY <1>0, TypesFixed DEF Taken
<1>3. BuildInv'
  <2>1. Typed(edges)' = Typed(edges)
    BY <1>0, OrderFixed DEF Typed
  <2>2. TypedPairs(Taken)' = TypedPairs(Taken)
    BY <1>0, <1>2, OrderFixed DEF TypedPairs, TypedPair, LowType, HighType
  <2>3. LiveTypes' = LiveTypes /\ ConflictPairs' = ConflictPairs /\ \A q : TypedPair(q)' = TypedPair(q)
    BY <1>0, TypesFixed
  <2>4. Typed(edges)' = EdgesAfter(program, LiveTypes, TypedPairs(Taken))'
    BY <1>0, <1>1, <2>1, <2>2, <2>3 DEF BuildInv
  <2>5. (\A p \in Taken, r \in todo : PairBefore(TypedPair(p), TypedPair(r)))'
    BY <1>0, <1>1, <1>2, <2>3 DEF BuildInv
  <2>6. (todo \subseteq ConflictPairs)'
    BY <1>0, <1>1, <2>3 DEF BuildInv
  <2> QED
    BY <2>4, <2>5, <2>6 DEF BuildInv
<1>4. ~InForce'
  BY <1>0 DEF InForce
<1> QED
  BY <1>0, <1>3, <1>4, WhileBuilding

(* What rebuild emitted is the layout of the live types. *)
LEMMA EmittedIsLaid ==
  ASSUME SchedulerIInv, OrderIInv, BuildInv, phase = "emit", Ready = {}
  PROVE  Laid(Layout, program, LiveTypes)
<1> DEFINE E == FinalEdges(program, LiveTypes)
           d == TypeDepth(E)
           T == Seq(Nat) \ {<<>>}
<1>0. /\ Registered /\ edges \subseteq Live \X Live /\ depth \in [Nodes -> Nat] /\ IsDepth(edges, depth)
      /\ todo = {} /\ stages \in Seq(T) /\ Ascending(stages)
      /\ \A s \in DOMAIN stages : StageInv(stages[s])
  <2>1. edges \subseteq Live \X Live /\ depth \in Depths /\ IsDepth(edges, depth) /\ stages \in Seq(T)
    BY DEF SchedulerIInv, SchedulerTypeOK, GraphInv
  <2>2. todo = {} /\ Ascending(stages) /\ \A s \in DOMAIN stages : StageInv(stages[s])
    BY DEF SchedulerIInv, EmittedInv, OrderIInv, InOrderInv
  <2>3. depth \in [Nodes -> Nat]
    BY <2>1 DEF Depths
  <2> QED
    BY <2>1, <2>2, <2>3, RegisteredHolds
<1>1. Typed(edges) = E
  <2>1. Taken = ConflictPairs
    BY <1>0 DEF Taken
  <2>2. TypedPairs(ConflictPairs) = ConflictsBetween(program, LiveTypes)
    BY <1>0, TypedConflicts
  <2>3. Typed(edges) = EdgesAfter(program, LiveTypes, TypedPairs(Taken))
    BY DEF BuildInv
  <2> QED
    BY <2>1, <2>2, <2>3 DEF FinalEdges
<1>2. TypesAcyclic(E) /\ \A i \in Live : d[TypeOf(i)] = depth[i]
  BY <1>0, <1>1, DepthTyped
<1>3. /\ Live \subseteq Nodes /\ Nodes \subseteq Nat /\ \A i \in Live : TypeOf(i) \in Nat /\ TypeOf(i) \in LiveTypes
  BY <1>0, RegistryFacts DEF LiveTypes
<1>4. /\ Len(stages) \in Nat /\ DOMAIN stages = 1 .. Len(stages)
      /\ \A s \in DOMAIN stages :
           /\ DOMAIN stages[s] = 1 .. Len(stages[s]) /\ Len(stages[s]) \in Nat /\ 1 \in DOMAIN stages[s]
           /\ \A k \in DOMAIN stages[s] : stages[s][k] \in Live
  <2>1. Len(stages) \in Nat /\ DOMAIN stages = 1 .. Len(stages) /\ \A s \in DOMAIN stages : stages[s] \in T
    <3> HIDE DEF T
    <3> QED
      BY <1>0
  <2>2. ASSUME NEW s \in DOMAIN stages
        PROVE  DOMAIN stages[s] = 1 .. Len(stages[s]) /\ Len(stages[s]) \in Nat /\ 1 \in DOMAIN stages[s]
    <3>1. stages[s] \in Seq(Nat) /\ stages[s] # <<>>
      BY <2>1
    <3> QED
      BY <3>1
  <2> QED
    BY <1>0, <2>1, <2>2 DEF StageInv
<1> HIDE DEF E, d
<1>5. /\ DOMAIN Layout = DOMAIN stages
      /\ \A s \in DOMAIN stages : DOMAIN Layout[s] = DOMAIN stages[s]
      /\ \A s \in DOMAIN stages : \A k \in DOMAIN stages[s] : Layout[s][k] = TypeOf(stages[s][k])
  BY DEF Layout
<1>6. Layout \in Seq(T)
  <2>1. ASSUME NEW s \in DOMAIN stages PROVE Layout[s] \in T
    <3> DEFINE stage == [k \in DOMAIN stages[s] |-> TypeOf(stages[s][k])]
               n == Len(stages[s])
    <3>1. Layout[s] = stage
      BY DEF Layout
    <3>2. n \in Nat /\ n # 0
      BY <1>4
    <3>3. stage \in [1 .. n -> Nat]
      BY <1>3, <1>4
    <3> HIDE DEF stage, n
    <3>4. stage \in Seq(Nat) /\ Len(stage) = n
      BY <3>2, <3>3
    <3>5. stage # <<>>
      BY <3>2, <3>4
    <3> QED
      BY <3>1, <3>4, <3>5
  <2> DEFINE m == Len(stages)
  <2> HIDE DEF T
  <2>2. Layout \in [1 .. m -> T] /\ m \in Nat
    BY <1>4, <2>1 DEF Layout
  <2> HIDE DEF m
  <2> QED
    BY <2>2
<1>7. \A s \in DOMAIN Layout : \A k \in DOMAIN Layout[s] :
        Layout[s][k] \in LiveTypes /\ d[Layout[s][k]] = d[Layout[s][1]]
  <2> SUFFICES ASSUME NEW s \in DOMAIN stages, NEW k \in DOMAIN stages[s]
               PROVE  Layout[s][k] \in LiveTypes /\ d[Layout[s][k]] = d[Layout[s][1]]
    BY <1>5
  <2>1. Layout[s][k] = TypeOf(stages[s][k]) /\ Layout[s][1] = TypeOf(stages[s][1])
    BY <1>4, <1>5
  <2>2. stages[s][k] \in Live /\ stages[s][1] \in Live /\ depth[stages[s][k]] = depth[stages[s][1]]
    BY <1>0, <1>4 DEF StageInv
  <2> QED
    BY <1>2, <1>3, <2>1, <2>2
<1>8. \A t \in LiveTypes : \E s \in DOMAIN Layout : \E k \in DOMAIN Layout[s] : Layout[s][k] = t
  <2> SUFFICES ASSUME NEW t \in LiveTypes
               PROVE  \E s \in DOMAIN stages : \E k \in DOMAIN stages[s] : Layout[s][k] = t
    BY <1>5
  <2>1. PICK i \in Live : t = TypeOf(i)
    BY DEF LiveTypes
  <2>2. i \in Emitted
    BY <2>1, NothingIsLeftOut
  <2>3. PICK s \in DOMAIN stages : \E k \in DOMAIN stages[s] : stages[s][k] = i
    BY <2>2 DEF Emitted
  <2> QED
    BY <1>5, <2>1, <2>3
<1>9. \A s, r \in DOMAIN Layout : s < r => d[Layout[s][1]] < d[Layout[r][1]]
  <2> SUFFICES ASSUME NEW s \in DOMAIN stages, NEW r \in DOMAIN stages, s < r
               PROVE  d[Layout[s][1]] < d[Layout[r][1]]
    BY <1>5
  <2>1. Layout[s][1] = TypeOf(stages[s][1]) /\ Layout[r][1] = TypeOf(stages[r][1])
    BY <1>4, <1>5
  <2>2. stages[s][1] \in Live /\ stages[r][1] \in Live
    BY <1>4
  <2>3. depth[stages[s][1]] < depth[stages[r][1]]
    BY <1>0, <1>4 DEF Ascending
  <2> QED
    BY <1>2, <2>1, <2>2, <2>3
<1>10. \A s \in DOMAIN Layout : \A j, k \in DOMAIN Layout[s] : j < k => Layout[s][j] < Layout[s][k]
  <2> SUFFICES ASSUME NEW s \in DOMAIN stages, NEW j \in DOMAIN stages[s], NEW k \in DOMAIN stages[s], j < k
               PROVE  Layout[s][j] < Layout[s][k]
    BY <1>5
  <2>1. TypeOf(stages[s][j]) < TypeOf(stages[s][k])
    BY <1>0 DEF Ascending
  <2> QED
    BY <1>5, <2>1
<1>11. LaidBy(Layout, d, LiveTypes)
  BY <1>6, <1>7, <1>8, <1>9, <1>10 DEF LaidBy
<1> QED
  BY <1>2, <1>11 DEF Laid, E, d

LEMMA FinishRebuildLays ==
  ASSUME SchedulerIInv, OrderIInv, LayoutIInv, FinishRebuild
  PROVE  LayoutIInv'
<1>0. /\ UNCHANGED <<program, registry, stages>> /\ phase = "emit" /\ Ready = {} /\ phase' = "idle"
      /\ seen' = IF seen = NoLayout /\ \A t \in Types : IsLiveType(t) THEN Layout ELSE seen
  BY DEF FinishRebuild, Returned
<1>1. Laid(Layout, program, LiveTypes)
  BY <1>0, EmittedIsLaid DEF LayoutIInv
<1>2. Layout' = Layout /\ LiveTypes' = LiveTypes
  <2>1. \A i : TypeOf(i)' = TypeOf(i)
    BY <1>0, OrderFixed
  <2> QED
    BY <1>0, <2>1, TypesFixed DEF Layout
<1>3. seen # NoLayout => Laid(seen, program, Types)
  BY DEF LayoutIInv
<1>4. (\A t \in Types : IsLiveType(t)) => LiveTypes = Types
  <2>1. LiveTypes \subseteq Types
    BY RegisteredHolds, RegistryFacts
  <2> QED
    BY <2>1 DEF IsLiveType, LiveTypes
<1>5. seen' # NoLayout => Laid(seen', program, Types)
  BY <1>0, <1>1, <1>3, <1>4
<1>6. (InForce => Laid(Layout, program, LiveTypes))'
  BY <1>0, <1>1, <1>2
<1>7. (seen # NoLayout => Laid(seen, program, Types))'
  BY <1>0, <1>5
<1>8. BuildInv'
  BY <1>0 DEF BuildInv
<1> QED
  BY <1>6, <1>7, <1>8 DEF LayoutIInv

LEMMA StutterLays ==
  ASSUME LayoutIInv, UNCHANGED schedulerVars
  PROVE  LayoutIInv'
<1>0. UNCHANGED <<program, registry>> /\ UNCHANGED <<dirty, built, phase, edges, todo, stages, seen>>
  BY DEF schedulerVars
<1>1. Taken' = Taken /\ Live' = Live /\ ConflictPairs' = ConflictPairs /\ \A i : TypeOf(i)' = TypeOf(i)
  BY <1>0, RegistryFixed, OrderFixed DEF Taken
<1>2. /\ LiveTypes' = LiveTypes /\ Layout' = Layout /\ Typed(edges)' = Typed(edges)
      /\ TypedPairs(Taken)' = TypedPairs(Taken) /\ \A p : TypedPair(p)' = TypedPair(p)
  BY <1>0, <1>1 DEF LiveTypes, Layout, Typed, TypedPairs, TypedPair, LowType, HighType
<1> QED
  BY <1>0, <1>1, <1>2 DEF LayoutIInv, BuildInv, InForce

(* The layout is inductive beside what is known of the graph and the order. *)
THEOREM LayoutInductive == SchedulerSpec => []LayoutIInv
<1>1. SchedulerInit => LayoutIInv
  BY LayoutInit
<1>2. SchedulerIInv /\ OrderIInv /\ LayoutIInv /\ [SchedulerNext]_schedulerVars => LayoutIInv'
  <2>1. SUFFICES ASSUME SchedulerIInv, OrderIInv, LayoutIInv, [SchedulerNext]_schedulerVars PROVE LayoutIInv'
    OBVIOUS
  <2>2. CASE \/ \E t \in Types : RegisterSystem(t)
             \/ \E i \in Nodes : UnregisterSystem(i)
             \/ ClearSystems
    <3>1. phase' = "idle" /\ ~InForce' /\ UNCHANGED <<program, seen>>
      BY <2>2 DEF RegisterSystem, UnregisterSystem, ClearSystems, InForce
    <3> QED
      BY <2>1, <3>1, NothingInForce
  <2>3. CASE BeginRebuild
    BY <2>1, <2>3, BeginRebuildLays
  <2>4. CASE \E p \in todo : OrientConflict(p)
    BY <2>1, <2>4, OrientConflictLays
  <2>5. CASE BeginEmit \/ \E v \in Nodes : EmitSystem(v)
    BY <2>1, <2>5, EmittingLays
  <2>6. CASE FinishRebuild
    BY <2>1, <2>6, FinishRebuildLays
  <2>7. CASE UNCHANGED schedulerVars
    BY <2>1, <2>7, StutterLays
  <2> QED
    BY <2>1, <2>2, <2>3, <2>4, <2>5, <2>6, <2>7 DEF SchedulerNext
<1> QED
  BY <1>1, <1>2, SchedulerInductive, OrderInductive, PTL DEF SchedulerSpec

(* Whatever the order of registrations, removals and rebuilds, two schedules *)
(* of the same live types are the same (SystemScheduler::rebuild, which      *)
(* compares types and never registry indices; schedule_hash).               *)
THEOREM SchedulesIgnoreRegistrationOrder == SchedulerSpec => []LayoutIgnoresRegistrationOrder
<1>1. SchedulerIInv /\ OrderIInv /\ LayoutIInv => LayoutIgnoresRegistrationOrder
  <2>1. SUFFICES ASSUME SchedulerIInv, OrderIInv, LayoutIInv, InForce, seen # NoLayout,
                        \A t \in Types : IsLiveType(t)
                 PROVE  Layout = seen
    BY DEF LayoutIgnoresRegistrationOrder
  <2> DEFINE E == FinalEdges(program, Types)
             d == TypeDepth(E)
  <2>2. LiveTypes = Types
    <3>1. LiveTypes \subseteq Types
      BY <2>1, RegisteredHolds, RegistryFacts
    <3> QED
      BY <2>1, <3>1 DEF IsLiveType, LiveTypes
  <2>3. Laid(Layout, program, Types) /\ Laid(seen, program, Types)
    BY <2>1, <2>2 DEF LayoutIInv
  <2>4. TypesAcyclic(E) /\ LaidBy(Layout, d, Types) /\ LaidBy(seen, d, Types)
    BY <2>3 DEF Laid
  <2>5. d \in [Types -> Nat]
    <3>1. IsTypeDepth(E, d)
      <4>1. TypesAcyclic(E)
        BY <2>4
      <4> HIDE DEF E
      <4> QED
        BY <4>1 DEF TypesAcyclic, TypeDepth
    <3> QED
      BY <3>1 DEF IsTypeDepth
  <2> HIDE DEF d, E
  <2> QED
    BY <2>4, <2>5, OneLayout
<1> QED
  BY <1>1, SchedulerInductive, OrderInductive, LayoutInductive, PTL

-----------------------------------------------------------------------------
(* The worker pool. *)

WorkerPcs == {"ready", "asleep", "running", "finishing", "exited"}
Waiting == {"notify", "check", "asleep"}
Calls == Waiting \cup {"none", "inline"}

(* The shapes of the variables. *)
PoolTypeOK ==
  /\ queue \in Seq(Job)
  /\ worker \in [Workers -> [pc : WorkerPcs, job : Job, nested : BOOLEAN]]
  /\ call \in [Threads -> [pc : Calls, size : Chunk, next : Chunk]]
  /\ count \in [Threads -> Int]
  /\ ran \in [Threads -> [Chunk -> Nat]]
  /\ pool \in {"up", "stopping", "joining", "down"}

(* A job is in the queue q, or with a worker of wk that runs it or has run *)
(* it and not yet counted it off.                                          *)
Holding(wk, w) == wk[w].pc \in {"running", "finishing"}

Outstanding(q, wk, t) ==
  {c \in Chunk : \/ \E i \in 1 .. Len(q) : q[i].owner = t /\ q[i].chunk = c
                 \/ \E w \in Workers : Holding(wk, w) /\ wk[w].job.owner = t /\ wk[w].job.chunk = c}

(* A job belongs to a dispatch that waits for it, and has not run before a *)
(* worker runs it.                                                         *)
Awaited(cl, rn, j, times) ==
  /\ cl[j.owner].pc \in Waiting /\ j.chunk <= cl[j.owner].size /\ rn[j.owner][j.chunk] = times

JobsSound(q, wk, cl, rn) ==
  /\ \A i \in 1 .. Len(q) : Awaited(cl, rn, q[i], 0)
  /\ \A w \in Workers : Holding(wk, w) =>
       Awaited(cl, rn, wk[w].job, IF wk[w].pc = "running" THEN 0 ELSE 1)

(* No job is in two places. *)
SameJob(j, k) == j.owner = k.owner /\ j.chunk = k.chunk

JobsOnce(q, wk) ==
  /\ \A i, j \in 1 .. Len(q) : SameJob(q[i], q[j]) => i = j
  /\ \A v, w \in Workers : Holding(wk, v) /\ Holding(wk, w) /\ SameJob(wk[v].job, wk[w].job) => v = w
  /\ \A i \in 1 .. Len(q), w \in Workers : Holding(wk, w) => ~SameJob(q[i], wk[w].job)

(* What a dispatch waits for is what is outstanding, and the rest has run. *)
CallsSound(q, wk, cl, cnt, rn) ==
  \A t \in Threads :
    /\ cl[t].pc \in Waiting =>
         /\ cnt[t] = Cardinality(Outstanding(q, wk, t))
         /\ \A c \in 1 .. cl[t].size : c \notin Outstanding(q, wk, t) => rn[t][c] = 1
    /\ cl[t].pc = "inline" =>
         /\ cl[t].next <= cl[t].size
         /\ \A c \in 1 .. cl[t].size : rn[t][c] = IF c < cl[t].next THEN 1 ELSE 0

(* A worker that waits in a nested dispatch is still in its job, and a pool *)
(* that stops has no caller left.                                          *)
WorkersSound(wk, cl, p) ==
  /\ \A w \in Workers : cl[w].pc # "none" => wk[w].pc = "running"
  /\ p # "up" => cl[Main].pc = "none"
  /\ p = "down" => \A w \in Workers : wk[w].pc = "exited"

PoolInv ==
  /\ PoolTypeOK
  /\ JobsSound(queue, worker, call, ran)
  /\ JobsOnce(queue, worker)
  /\ CallsSound(queue, worker, call, count, ran)
  /\ WorkersSound(worker, call, pool)

-----------------------------------------------------------------------------
(* Steps that leave every job where it is. *)

(* The workers hold what they held, and whoever waited waits. *)
Unmoved(q, wk, wk2, cl, cl2) ==
  /\ q \in Seq(Job)
  /\ \A w \in Workers :
       /\ Holding(wk2, w) <=> Holding(wk, w)
       /\ Holding(wk, w) => wk[w].job \in Job /\ wk2[w].job = wk[w].job /\ wk2[w].pc = wk[w].pc
  /\ \A t \in Threads :
       /\ cl2[t].size = cl[t].size /\ cl2[t].next = cl[t].next
       /\ cl2[t].pc = cl[t].pc \/ (cl[t].pc \in Waiting /\ cl2[t].pc \in Waiting)

LEMMA JobsUnmoved ==
  ASSUME NEW q, NEW wk, NEW wk2, NEW cl, NEW cl2, NEW cnt, NEW rn, Unmoved(q, wk, wk2, cl, cl2),
         JobsSound(q, wk, cl, rn), JobsOnce(q, wk), CallsSound(q, wk, cl, cnt, rn)
  PROVE  JobsSound(q, wk2, cl2, rn) /\ JobsOnce(q, wk2) /\ CallsSound(q, wk2, cl2, cnt, rn)
  <1>1. \A i \in 1 .. Len(q) : q[i].owner \in Threads
    <2>1. \A i \in 1 .. Len(q) : q[i] \in Job
      BY ElementOfSeq DEF Unmoved
    <2> QED
      BY <2>1 DEF Job
  <1>2. \A w \in Workers : Holding(wk, w) => wk[w].job.owner \in Threads
    BY DEF Unmoved, Job
  <1>3. "inline" \notin Waiting
    BY DEF Waiting
  <1>4. \A t \in Threads : cl2[t].pc \in Waiting <=> cl[t].pc \in Waiting
    BY Zenon DEF Unmoved
  <1>5. \A t \in Threads : cl2[t].pc = "inline" <=> cl[t].pc = "inline"
    BY <1>3, Zenon DEF Unmoved
  <1>6. ASSUME NEW t \in Threads PROVE Outstanding(q, wk2, t) = Outstanding(q, wk, t)
    BY Zenon DEF Outstanding, Unmoved
  <1>7. JobsSound(q, wk2, cl2, rn)
    <2>1. ASSUME NEW i \in 1 .. Len(q) PROVE Awaited(cl2, rn, q[i], 0)
      BY <1>1, <1>4, Zenon DEF JobsSound, Awaited, Unmoved
    <2>2. ASSUME NEW w \in Workers, Holding(wk2, w)
          PROVE  Awaited(cl2, rn, wk2[w].job, IF wk2[w].pc = "running" THEN 0 ELSE 1)
      <3>1. /\ Holding(wk, w) /\ wk2[w].job = wk[w].job /\ wk2[w].pc = wk[w].pc
            /\ wk[w].job.owner \in Threads
        BY <1>2, <2>2, Zenon DEF Unmoved
      <3>2. Awaited(cl, rn, wk[w].job, IF wk[w].pc = "running" THEN 0 ELSE 1)
        BY <3>1, Zenon DEF JobsSound
      <3>3. Awaited(cl2, rn, wk[w].job, IF wk[w].pc = "running" THEN 0 ELSE 1)
        BY <1>4, <3>1, <3>2, Zenon DEF Awaited, Unmoved
      <3> QED
        BY <3>1, <3>3, Zenon
    <2> QED
      BY <2>1, <2>2, Zenon DEF JobsSound
  <1>8. JobsOnce(q, wk2)
    BY Zenon DEF JobsOnce, Unmoved
  <1>9. CallsSound(q, wk2, cl2, cnt, rn)
    <2> SUFFICES ASSUME NEW t \in Threads
                 PROVE  /\ cl2[t].pc \in Waiting =>
                             /\ cnt[t] = Cardinality(Outstanding(q, wk2, t))
                             /\ \A c \in 1 .. cl2[t].size : c \notin Outstanding(q, wk2, t) => rn[t][c] = 1
                        /\ cl2[t].pc = "inline" =>
                             /\ cl2[t].next <= cl2[t].size
                             /\ \A c \in 1 .. cl2[t].size : rn[t][c] = IF c < cl2[t].next THEN 1 ELSE 0
      BY Zenon DEF CallsSound
    <2>1. /\ cl[t].pc \in Waiting =>
                /\ cnt[t] = Cardinality(Outstanding(q, wk, t))
                /\ \A c \in 1 .. cl[t].size : c \notin Outstanding(q, wk, t) => rn[t][c] = 1
          /\ cl[t].pc = "inline" =>
                /\ cl[t].next <= cl[t].size
                /\ \A c \in 1 .. cl[t].size : rn[t][c] = IF c < cl[t].next THEN 1 ELSE 0
      BY Zenon DEF CallsSound
    <2>2. cl2[t].size = cl[t].size /\ cl2[t].next = cl[t].next
      BY Zenon DEF Unmoved
    <2> QED
      BY <1>4, <1>5, <1>6, <2>1, <2>2, Zenon
  <1> QED
    BY <1>7, <1>8, <1>9

-----------------------------------------------------------------------------
(* Jobs and dispatches are about threads and chunks there are. *)
Named(q, wk, cl) ==
  /\ \A i \in 1 .. Len(q) : q[i].owner \in Threads /\ q[i].chunk \in Chunk
  /\ \A w \in Workers : wk[w].job.owner \in Threads /\ wk[w].job.chunk \in Chunk
  /\ \A u \in Threads : \A c \in 1 .. cl[u].size : c \in Chunk

LEMMA PoolNamed ==
  ASSUME PoolTypeOK
  PROVE  Named(queue, worker, call)
  <1>1. \A i \in 1 .. Len(queue) : queue[i] \in Job
    BY ElementOfSeq DEF PoolTypeOK
  <1>2. \A i \in 1 .. Len(queue) : queue[i].owner \in Threads /\ queue[i].chunk \in Chunk
    BY <1>1 DEF Job
  <1>3. \A w \in Workers : worker[w].job.owner \in Threads /\ worker[w].job.chunk \in Chunk
    BY DEF PoolTypeOK, Job
  <1>4. ASSUME NEW u \in Threads, NEW c \in 1 .. call[u].size PROVE c \in Chunk
    <2>1. call[u].size \in Chunk
      BY DEF PoolTypeOK
    <2> QED
      BY <2>1, PoolAssumption DEF Chunk
  <1> QED
    BY <1>2, <1>3, <1>4, Zenon DEF Named

(* Steps of a caller t that has no job anywhere. *)

NoJobsOf(q, wk, t) ==
  /\ \A i \in 1 .. Len(q) : q[i].owner # t
  /\ \A w \in Workers : Holding(wk, w) => wk[w].job.owner # t

CallerMoved(q, wk, wk2, cl, cl2, rn, rn2, t) ==
  /\ NoJobsOf(q, wk, t) /\ Named(q, wk, cl)
  /\ \A w \in Workers :
       /\ Holding(wk2, w) <=> Holding(wk, w)
       /\ Holding(wk, w) => wk2[w].job = wk[w].job /\ wk2[w].pc = wk[w].pc
  /\ \A u \in Threads : u # t => cl2[u] = cl[u] /\ rn2[u] = rn[u]
  /\ cl2[t].pc \in {"none", "inline"}
  /\ cl2[t].pc = "inline" =>
       /\ cl2[t].next <= cl2[t].size
       /\ \A c \in 1 .. cl2[t].size : rn2[t][c] = IF c < cl2[t].next THEN 1 ELSE 0

LEMMA CallerStepKeeps ==
  ASSUME NEW q, NEW wk, NEW wk2, NEW cl, NEW cl2, NEW cnt, NEW rn, NEW rn2, NEW t,
         CallerMoved(q, wk, wk2, cl, cl2, rn, rn2, t),
         JobsSound(q, wk, cl, rn), JobsOnce(q, wk), CallsSound(q, wk, cl, cnt, rn)
  PROVE  JobsSound(q, wk2, cl2, rn2) /\ JobsOnce(q, wk2) /\ CallsSound(q, wk2, cl2, cnt, rn2)
  <1>1. \A u : Outstanding(q, wk2, u) = Outstanding(q, wk, u)
    BY Zenon DEF Outstanding, CallerMoved
  <1>2. "none" \notin Waiting /\ "inline" \notin Waiting
    BY DEF Waiting
  <1>3. cl2[t].pc \notin Waiting
    BY <1>2, Zenon DEF CallerMoved
  <1>4. JobsSound(q, wk2, cl2, rn2)
    <2>1. ASSUME NEW i \in 1 .. Len(q) PROVE Awaited(cl2, rn2, q[i], 0)
      <3>1. q[i].owner \in Threads /\ q[i].owner # t /\ Awaited(cl, rn, q[i], 0)
        BY Zenon DEF CallerMoved, NoJobsOf, Named, JobsSound
      <3>2. cl2[q[i].owner] = cl[q[i].owner] /\ rn2[q[i].owner] = rn[q[i].owner]
        BY <3>1, Zenon DEF CallerMoved
      <3> QED
        BY <3>1, <3>2, Zenon DEF Awaited
    <2>2. ASSUME NEW w \in Workers, Holding(wk2, w)
          PROVE  Awaited(cl2, rn2, wk2[w].job, IF wk2[w].pc = "running" THEN 0 ELSE 1)
      <3>1. /\ Holding(wk, w) /\ wk2[w].job = wk[w].job /\ wk2[w].pc = wk[w].pc
            /\ wk[w].job.owner \in Threads /\ wk[w].job.owner # t
        BY <2>2, Zenon DEF CallerMoved, NoJobsOf, Named
      <3>2. cl2[wk[w].job.owner] = cl[wk[w].job.owner] /\ rn2[wk[w].job.owner] = rn[wk[w].job.owner]
        BY <3>1, Zenon DEF CallerMoved
      <3>3. Awaited(cl, rn, wk[w].job, IF wk[w].pc = "running" THEN 0 ELSE 1)
        BY <3>1, Zenon DEF JobsSound
      <3>4. Awaited(cl2, rn2, wk[w].job, IF wk[w].pc = "running" THEN 0 ELSE 1)
        BY <3>2, <3>3, Zenon DEF Awaited
      <3> QED
        BY <3>1, <3>4, Zenon
    <2> QED
      BY <2>1, <2>2, Zenon DEF JobsSound
  <1>5. JobsOnce(q, wk2)
    BY Zenon DEF JobsOnce, CallerMoved
  <1>6. CallsSound(q, wk2, cl2, cnt, rn2)
    <2> SUFFICES ASSUME NEW u \in Threads
                 PROVE  /\ cl2[u].pc \in Waiting =>
                             /\ cnt[u] = Cardinality(Outstanding(q, wk2, u))
                             /\ \A c \in 1 .. cl2[u].size : c \notin Outstanding(q, wk2, u) => rn2[u][c] = 1
                        /\ cl2[u].pc = "inline" =>
                             /\ cl2[u].next <= cl2[u].size
                             /\ \A c \in 1 .. cl2[u].size : rn2[u][c] = IF c < cl2[u].next THEN 1 ELSE 0
      BY Zenon DEF CallsSound
    <2>1. CASE u = t
      BY <1>3, <2>1, Zenon DEF CallerMoved
    <2>2. CASE u # t
      <3>1. cl2[u] = cl[u] /\ rn2[u] = rn[u]
        BY <2>2, Zenon DEF CallerMoved
      <3>2. /\ cl[u].pc \in Waiting =>
                 /\ cnt[u] = Cardinality(Outstanding(q, wk, u))
                 /\ \A c \in 1 .. cl[u].size : c \notin Outstanding(q, wk, u) => rn[u][c] = 1
            /\ cl[u].pc = "inline" =>
                 /\ cl[u].next <= cl[u].size
                 /\ \A c \in 1 .. cl[u].size : rn[u][c] = IF c < cl[u].next THEN 1 ELSE 0
        BY Zenon DEF CallsSound
      <3>3. Outstanding(q, wk2, u) = Outstanding(q, wk, u)
        BY <1>1, Zenon
      <3> QED
        BY <3>1, <3>2, <3>3, Zenon
    <2> QED
      BY <2>1, <2>2
  <1> QED
    BY <1>4, <1>5, <1>6

(* Only a dispatch that waits has jobs. *)
LEMMA IdleHasNoJobs ==
  ASSUME NEW q, NEW wk, NEW cl, NEW rn, NEW t, JobsSound(q, wk, cl, rn), cl[t].pc \notin Waiting
  PROVE  NoJobsOf(q, wk, t)
  BY Zenon DEF NoJobsOf, JobsSound, Awaited

-----------------------------------------------------------------------------
(* A worker takes the last job of the queue. *)
JobTaken(q, q2, wk, wk2, n, w) ==
  /\ Len(q) = n + 1 /\ Len(q2) = n /\ \A i \in 1 .. n : q2[i] = q[i]
  /\ w \in Workers /\ ~Holding(wk, w) /\ wk2[w].pc = "running" /\ wk2[w].job = q[n + 1]
  /\ \A v \in Workers : v # w => wk2[v] = wk[v]

LEMMA TakingKeeps ==
  ASSUME NEW q, NEW q2, NEW wk, NEW wk2, NEW cl, NEW cnt, NEW rn, NEW n \in Nat, NEW w,
         JobTaken(q, q2, wk, wk2, n, w),
         JobsSound(q, wk, cl, rn), JobsOnce(q, wk), CallsSound(q, wk, cl, cnt, rn)
  PROVE  JobsSound(q2, wk2, cl, rn) /\ JobsOnce(q2, wk2) /\ CallsSound(q2, wk2, cl, cnt, rn)
  <1>a. /\ \A i : i \in 1 .. n + 1 <=> i \in 1 .. n \/ i = n + 1
        /\ n + 1 \notin 1 .. n /\ n + 1 \in 1 .. n + 1
    OBVIOUS
  <1>b. /\ Len(q) = n + 1 /\ Len(q2) = n /\ w \in Workers
        /\ \A i \in 1 .. n : q2[i] = q[i] /\ i \in 1 .. n + 1 /\ i # n + 1
    BY <1>a, Zenon DEF JobTaken
  <1>1. Holding(wk2, w) /\ wk2[w].pc = "running" /\ wk2[w].job = q[n + 1] /\ ~Holding(wk, w)
    BY DEF JobTaken, Holding
  <1>2. \A v \in Workers : v # w => wk2[v] = wk[v] /\ (Holding(wk2, v) <=> Holding(wk, v))
    BY Zenon DEF JobTaken, Holding
  <1>3. ASSUME NEW t PROVE Outstanding(q2, wk2, t) = Outstanding(q, wk, t)
    <2>1. ASSUME NEW c
          PROVE  (\/ \E i \in 1 .. Len(q2) : q2[i].owner = t /\ q2[i].chunk = c
                  \/ \E v \in Workers : Holding(wk2, v) /\ wk2[v].job.owner = t /\ wk2[v].job.chunk = c)
             <=> (\/ \E i \in 1 .. Len(q) : q[i].owner = t /\ q[i].chunk = c
                  \/ \E v \in Workers : Holding(wk, v) /\ wk[v].job.owner = t /\ wk[v].job.chunk = c)
      <3>1. (\E i \in 1 .. Len(q) : q[i].owner = t /\ q[i].chunk = c) <=>
              \/ \E i \in 1 .. Len(q2) : q2[i].owner = t /\ q2[i].chunk = c
              \/ q[n + 1].owner = t /\ q[n + 1].chunk = c
        BY <1>a, <1>b, Zenon
      <3>2. (\E v \in Workers : Holding(wk2, v) /\ wk2[v].job.owner = t /\ wk2[v].job.chunk = c) <=>
              \/ \E v \in Workers : Holding(wk, v) /\ wk[v].job.owner = t /\ wk[v].job.chunk = c
              \/ q[n + 1].owner = t /\ q[n + 1].chunk = c
        BY <1>b, <1>1, <1>2, Zenon
      <3> QED
        BY <3>1, <3>2, Zenon
    <2> QED
      BY <2>1, Zenon DEF Outstanding
  <1>4. JobsSound(q2, wk2, cl, rn)
    <2>1. ASSUME NEW i \in 1 .. n PROVE Awaited(cl, rn, q2[i], 0)
      BY <1>b, Zenon DEF JobsSound
    <2>2. ASSUME NEW v \in Workers, Holding(wk2, v)
          PROVE  Awaited(cl, rn, wk2[v].job, IF wk2[v].pc = "running" THEN 0 ELSE 1)
      <3>1. CASE v = w
        <4>1. Awaited(cl, rn, q[n + 1], 0)
          BY <1>a, <1>b, Zenon DEF JobsSound
        <4> QED
          BY <1>1, <3>1, <4>1, Zenon
      <3>2. CASE v # w
        BY <1>2, <2>2, <3>2, Zenon DEF JobsSound
      <3> QED
        BY <3>1, <3>2
    <2> QED
      BY <1>b, <2>1, <2>2, Zenon DEF JobsSound
  <1>5. JobsOnce(q2, wk2)
    <2>1. ASSUME NEW i \in 1 .. n, NEW j \in 1 .. n, SameJob(q2[i], q2[j]) PROVE i = j
      BY <1>b, <2>1, Zenon DEF JobsOnce
    <2>2. ASSUME NEW u \in Workers, NEW v \in Workers, Holding(wk2, u), Holding(wk2, v),
                 SameJob(wk2[u].job, wk2[v].job)
          PROVE  u = v
      <3>1. ASSUME NEW x \in Workers, x # w, Holding(wk2, x)
            PROVE  ~SameJob(q[n + 1], wk2[x].job) /\ ~SameJob(wk2[x].job, q[n + 1])
        <4>1. ~SameJob(q[n + 1], wk2[x].job)
          BY <1>a, <1>b, <1>2, <3>1, Zenon DEF JobsOnce
        <4> QED
          BY <4>1, Zenon DEF SameJob
      <3>2. CASE u # w /\ v # w
        BY <1>2, <2>2, <3>2, Zenon DEF JobsOnce
      <3> QED
        BY <1>1, <2>2, <3>1, <3>2, Zenon
    <2>3. ASSUME NEW i \in 1 .. n, NEW v \in Workers, Holding(wk2, v) PROVE ~SameJob(q2[i], wk2[v].job)
      <3>1. CASE v = w
        <4>1. ~SameJob(q[i], q[n + 1])
          BY <1>a, <1>b, Zenon DEF JobsOnce
        <4> QED
          BY <1>1, <1>b, <3>1, <4>1, Zenon
      <3>2. CASE v # w
        BY <1>b, <1>2, <2>3, <3>2, Zenon DEF JobsOnce
      <3> QED
        BY <3>1, <3>2
    <2> QED
      BY <1>b, <2>1, <2>2, <2>3, Zenon DEF JobsOnce
  <1>6. CallsSound(q2, wk2, cl, cnt, rn)
    <2> SUFFICES ASSUME NEW u \in Threads
                 PROVE  /\ cl[u].pc \in Waiting =>
                             /\ cnt[u] = Cardinality(Outstanding(q2, wk2, u))
                             /\ \A c \in 1 .. cl[u].size : c \notin Outstanding(q2, wk2, u) => rn[u][c] = 1
                        /\ cl[u].pc = "inline" =>
                             /\ cl[u].next <= cl[u].size
                             /\ \A c \in 1 .. cl[u].size : rn[u][c] = IF c < cl[u].next THEN 1 ELSE 0
      BY Zenon DEF CallsSound
    <2>1. Outstanding(q2, wk2, u) = Outstanding(q, wk, u)
      BY <1>3, Zenon
    <2> QED
      BY <2>1, Zenon DEF CallsSound
  <1> QED
    BY <1>4, <1>5, <1>6

(* The body of a job runs. *)
BodyRan(q, wk, wk2, cl, rn, rn2, w) ==
  /\ Named(q, wk, cl)
  /\ w \in Workers /\ wk[w].pc = "running" /\ wk2[w].pc = "finishing" /\ wk2[w].job = wk[w].job
  /\ \A v \in Workers : v # w => wk2[v] = wk[v]
  /\ rn2[wk[w].job.owner][wk[w].job.chunk] = 1
  /\ \A u \in Threads, c \in Chunk : u # wk[w].job.owner \/ c # wk[w].job.chunk => rn2[u][c] = rn[u][c]

LEMMA RunningKeeps ==
  ASSUME NEW q, NEW wk, NEW wk2, NEW cl, NEW cnt, NEW rn, NEW rn2, NEW w,
         BodyRan(q, wk, wk2, cl, rn, rn2, w),
         JobsSound(q, wk, cl, rn), JobsOnce(q, wk), CallsSound(q, wk, cl, cnt, rn)
  PROVE  JobsSound(q, wk2, cl, rn2) /\ JobsOnce(q, wk2) /\ CallsSound(q, wk2, cl, cnt, rn2)
  <1> DEFINE o == wk[w].job.owner
             d == wk[w].job.chunk
  <1>1. Holding(wk, w) /\ Holding(wk2, w) /\ w \in Workers /\ wk2[w].job = wk[w].job
    BY DEF BodyRan, Holding
  <1>2. \A v \in Workers : v # w => wk2[v] = wk[v] /\ (Holding(wk2, v) <=> Holding(wk, v))
    BY Zenon DEF BodyRan, Holding
  <1>3. \A v \in Workers : wk2[v].job = wk[v].job /\ (Holding(wk2, v) <=> Holding(wk, v))
    BY <1>1, <1>2, Zenon
  <1>4. rn2[o][d] = 1 /\ \A u \in Threads, c \in Chunk : u # o \/ c # d => rn2[u][c] = rn[u][c]
    BY Zenon DEF BodyRan
  <1>n. /\ \A i \in 1 .. Len(q) : q[i].owner \in Threads /\ q[i].chunk \in Chunk
        /\ \A v \in Workers : wk[v].job.owner \in Threads /\ wk[v].job.chunk \in Chunk
        /\ \A u \in Threads : \A c \in 1 .. cl[u].size : c \in Chunk
    BY Zenon DEF BodyRan, Named
  <1>5. cl[o].pc \in Waiting
    BY <1>1, Zenon DEF JobsSound, Awaited
  <1>6. \A t : Outstanding(q, wk2, t) = Outstanding(q, wk, t)
    BY <1>3, Zenon DEF Outstanding
  <1>7. JobsOnce(q, wk2)
    BY <1>3, Zenon DEF JobsOnce
  <1>8. JobsSound(q, wk2, cl, rn2)
    <2>1. ASSUME NEW i \in 1 .. Len(q) PROVE Awaited(cl, rn2, q[i], 0)
      <3>1. Awaited(cl, rn, q[i], 0) /\ ~SameJob(q[i], wk[w].job)
        BY <1>1, Zenon DEF JobsSound, JobsOnce
      <3>2. rn2[q[i].owner][q[i].chunk] = rn[q[i].owner][q[i].chunk]
        BY <1>4, <1>n, <3>1, Zenon DEF SameJob
      <3> QED
        BY <3>1, <3>2, Zenon DEF Awaited
    <2>2. ASSUME NEW v \in Workers, Holding(wk2, v)
          PROVE  Awaited(cl, rn2, wk2[v].job, IF wk2[v].pc = "running" THEN 0 ELSE 1)
      <3>1. CASE v = w
        <4>1. "finishing" # "running" /\ wk2[v].pc = "finishing"
          BY <3>1 DEF BodyRan
        <4>2. Awaited(cl, rn2, wk2[v].job, 1)
          BY <1>1, <1>4, <3>1, Zenon DEF JobsSound, Awaited
        <4> QED
          BY <4>1, <4>2, Zenon
      <3>2. CASE v # w
        <4>1. ~SameJob(wk[v].job, wk[w].job) /\ Holding(wk, v) /\ wk2[v] = wk[v]
          BY <1>1, <1>2, <2>2, <3>2, Zenon DEF JobsOnce
        <4>2. rn2[wk[v].job.owner][wk[v].job.chunk] = rn[wk[v].job.owner][wk[v].job.chunk]
          BY <1>4, <1>n, <4>1, Zenon DEF SameJob
        <4>3. Awaited(cl, rn, wk[v].job, IF wk[v].pc = "running" THEN 0 ELSE 1)
          BY <4>1, Zenon DEF JobsSound
        <4>4. Awaited(cl, rn2, wk[v].job, IF wk[v].pc = "running" THEN 0 ELSE 1)
          BY <4>2, <4>3, Zenon DEF Awaited
        <4> QED
          BY <4>1, <4>4, Zenon
      <3> QED
        BY <3>1, <3>2
    <2> QED
      BY <2>1, <2>2, Zenon DEF JobsSound
  <1>9. CallsSound(q, wk2, cl, cnt, rn2)
    <2> SUFFICES ASSUME NEW u \in Threads
                 PROVE  /\ cl[u].pc \in Waiting =>
                             /\ cnt[u] = Cardinality(Outstanding(q, wk2, u))
                             /\ \A c \in 1 .. cl[u].size : c \notin Outstanding(q, wk2, u) => rn2[u][c] = 1
                        /\ cl[u].pc = "inline" =>
                             /\ cl[u].next <= cl[u].size
                             /\ \A c \in 1 .. cl[u].size : rn2[u][c] = IF c < cl[u].next THEN 1 ELSE 0
      BY Zenon DEF CallsSound
    <2>1. /\ cl[u].pc \in Waiting =>
                /\ cnt[u] = Cardinality(Outstanding(q, wk, u))
                /\ \A c \in 1 .. cl[u].size : c \notin Outstanding(q, wk, u) => rn[u][c] = 1
          /\ cl[u].pc = "inline" =>
                /\ cl[u].next <= cl[u].size
                /\ \A c \in 1 .. cl[u].size : rn[u][c] = IF c < cl[u].next THEN 1 ELSE 0
      BY Zenon DEF CallsSound
    <2>2. Outstanding(q, wk2, u) = Outstanding(q, wk, u)
      BY <1>6, Zenon
    <2>3. ASSUME NEW c \in 1 .. cl[u].size, rn[u][c] = 1 PROVE rn2[u][c] = 1
      BY <1>4, <1>n, <2>3, Zenon
    <2>4. cl[u].pc = "inline" => u # o
      BY <1>5, <2>1 DEF Waiting
    <2>5. cl[u].pc = "inline" => \A c \in 1 .. cl[u].size : rn2[u][c] = rn[u][c]
      BY <1>4, <1>n, <2>4, Zenon
    <2> QED
      BY <2>1, <2>2, <2>3, <2>5, Zenon
  <1> QED
    BY <1>7, <1>8, <1>9

(* A worker counts its job off. *)
JobFinished(wk, wk2, cnt, cnt2, w) ==
  /\ w \in Workers /\ wk[w].pc = "finishing" /\ wk2[w].pc = "ready" /\ wk[w].job \in Job
  /\ \A v \in Workers : v # w => wk2[v] = wk[v]
  /\ cnt[wk[w].job.owner] \in Int
  /\ cnt2[wk[w].job.owner] = cnt[wk[w].job.owner] - 1
  /\ \A u \in Threads : u # wk[w].job.owner => cnt2[u] = cnt[u]

LEMMA OutstandingFinite ==
  ASSUME NEW q, NEW wk, NEW t
  PROVE  IsFiniteSet(Outstanding(q, wk, t)) /\ Outstanding(q, wk, t) \subseteq Chunk
  <1>1. Outstanding(q, wk, t) \subseteq Chunk
    BY Zenon DEF Outstanding
  <1>2. MaxChunks \in Int
    BY PoolAssumption
  <1>3. IsFiniteSet(Chunk)
    BY <1>2, FS_Interval DEF Chunk
  <1> QED
    BY <1>1, <1>3, FS_Subset

LEMMA FinishingKeeps ==
  ASSUME NEW q, NEW wk, NEW wk2, NEW cl, NEW cnt, NEW cnt2, NEW rn, NEW w,
         JobFinished(wk, wk2, cnt, cnt2, w),
         JobsSound(q, wk, cl, rn), JobsOnce(q, wk), CallsSound(q, wk, cl, cnt, rn)
  PROVE  JobsSound(q, wk2, cl, rn) /\ JobsOnce(q, wk2) /\ CallsSound(q, wk2, cl, cnt2, rn)
  <1> DEFINE o == wk[w].job.owner
             d == wk[w].job.chunk
  <1>1. Holding(wk, w) /\ ~Holding(wk2, w) /\ w \in Workers /\ d \in Chunk /\ o \in Threads
    BY DEF JobFinished, Holding, Job
  <1>2. \A v \in Workers : v # w => wk2[v] = wk[v] /\ (Holding(wk2, v) <=> Holding(wk, v))
    BY Zenon DEF JobFinished, Holding
  <1>3. Awaited(cl, rn, wk[w].job, 1)
    <2>1. wk[w].pc # "running"
      BY DEF JobFinished
    <2> QED
      BY <1>1, <2>1, Zenon DEF JobsSound
  <1>4. JobsSound(q, wk2, cl, rn)
    BY <1>1, <1>2, Zenon DEF JobsSound
  <1>5. JobsOnce(q, wk2)
    BY <1>1, <1>2, Zenon DEF JobsOnce
  <1>6. ASSUME NEW u, u # o PROVE Outstanding(q, wk2, u) = Outstanding(q, wk, u)
    <2>1. ASSUME NEW c
          PROVE  (\E v \in Workers : Holding(wk2, v) /\ wk2[v].job.owner = u /\ wk2[v].job.chunk = c)
             <=> \E v \in Workers : Holding(wk, v) /\ wk[v].job.owner = u /\ wk[v].job.chunk = c
      BY <1>1, <1>2, <1>6, Zenon
    <2> QED
      BY <2>1, Zenon DEF Outstanding
  <1>7. Outstanding(q, wk2, o) = Outstanding(q, wk, o) \ {d} /\ d \in Outstanding(q, wk, o)
    <2>1. d \in Outstanding(q, wk, o)
      BY <1>1, Zenon DEF Outstanding
    <2>2. ASSUME NEW c, c # d
          PROVE  (\E v \in Workers : Holding(wk2, v) /\ wk2[v].job.owner = o /\ wk2[v].job.chunk = c)
             <=> \E v \in Workers : Holding(wk, v) /\ wk[v].job.owner = o /\ wk[v].job.chunk = c
      BY <1>1, <1>2, <2>2, Zenon
    <2>3. ~ \E i \in 1 .. Len(q) : q[i].owner = o /\ q[i].chunk = d
      BY <1>1, Zenon DEF JobsOnce, SameJob
    <2>4. ~ \E v \in Workers : Holding(wk2, v) /\ wk2[v].job.owner = o /\ wk2[v].job.chunk = d
      BY <1>1, <1>2, Zenon DEF JobsOnce, SameJob
    <2>5. d \notin Outstanding(q, wk2, o)
      BY <2>3, <2>4, Zenon DEF Outstanding
    <2>6. ASSUME NEW c, c # d PROVE c \in Outstanding(q, wk2, o) <=> c \in Outstanding(q, wk, o)
      BY <2>2, <2>6, Zenon DEF Outstanding
    <2> QED
      BY <2>1, <2>5, <2>6, Zenon
  <1>8. Cardinality(Outstanding(q, wk2, o)) = Cardinality(Outstanding(q, wk, o)) - 1
    <2> DEFINE S == Outstanding(q, wk, o)
    <2>1. IsFiniteSet(S)
      BY OutstandingFinite
    <2>2. d \in S /\ Outstanding(q, wk2, o) = S \ {d}
      BY <1>7
    <2> HIDE DEF S, o, d
    <2>3. Cardinality(S \ {d}) = Cardinality(S) - 1
      BY <2>1, <2>2, FS_RemoveElement
    <2> QED
      BY <2>2, <2>3 DEF S
  <1>9. CallsSound(q, wk2, cl, cnt2, rn)
    <2> SUFFICES ASSUME NEW u \in Threads
                 PROVE  /\ cl[u].pc \in Waiting =>
                             /\ cnt2[u] = Cardinality(Outstanding(q, wk2, u))
                             /\ \A c \in 1 .. cl[u].size : c \notin Outstanding(q, wk2, u) => rn[u][c] = 1
                        /\ cl[u].pc = "inline" =>
                             /\ cl[u].next <= cl[u].size
                             /\ \A c \in 1 .. cl[u].size : rn[u][c] = IF c < cl[u].next THEN 1 ELSE 0
      BY Zenon DEF CallsSound
    <2>1. /\ cl[u].pc \in Waiting =>
                /\ cnt[u] = Cardinality(Outstanding(q, wk, u))
                /\ \A c \in 1 .. cl[u].size : c \notin Outstanding(q, wk, u) => rn[u][c] = 1
          /\ cl[u].pc = "inline" =>
                /\ cl[u].next <= cl[u].size
                /\ \A c \in 1 .. cl[u].size : rn[u][c] = IF c < cl[u].next THEN 1 ELSE 0
      BY Zenon DEF CallsSound
    <2>2. CASE u # o
      <3>1. cnt2[u] = cnt[u]
        BY <2>2, Zenon DEF JobFinished
      <3>2. Outstanding(q, wk2, u) = Outstanding(q, wk, u)
        BY <1>6, <2>2, Zenon
      <3> QED
        BY <2>1, <3>1, <3>2, Zenon
    <2>3. CASE u = o
      <3>1. cl[u].pc \in Waiting /\ cl[u].pc # "inline" /\ rn[u][d] = 1
        BY <1>3, <2>3 DEF Awaited, Waiting
      <3>2. cnt2[u] = cnt[u] - 1
        BY <2>3, Zenon DEF JobFinished
      <3>3. cnt2[u] = Cardinality(Outstanding(q, wk2, u))
        BY <1>8, <2>1, <2>3, <3>1, <3>2, Zenon
      <3>4. ASSUME NEW c \in 1 .. cl[u].size, c \notin Outstanding(q, wk2, u) PROVE rn[u][c] = 1
        BY <1>7, <2>1, <2>3, <3>1, <3>4, Zenon
      <3> QED
        BY <3>1, <3>3, <3>4, Zenon
    <2> QED
      BY <2>2, <2>3
  <1> QED
    BY <1>4, <1>5, <1>9

-----------------------------------------------------------------------------
(* A caller without jobs pushes the n jobs of its dispatch on a queue of k. *)
JobsPushed(q, q2, wk, wk2, cl, cl2, cnt, cnt2, rn, rn2, t, n, k) ==
  /\ NoJobsOf(q, wk, t) /\ Named(q, wk, cl)
  /\ Len(q) = k /\ Len(q2) = k + n
  /\ \A i \in 1 .. k : q2[i] = q[i]
  /\ \A c \in 1 .. n : q2[k + c].owner = t /\ q2[k + c].chunk = c
  /\ \A w \in Workers :
       /\ Holding(wk2, w) <=> Holding(wk, w)
       /\ Holding(wk, w) => wk2[w].job = wk[w].job /\ wk2[w].pc = wk[w].pc
  /\ \A u \in Threads : u # t => cl2[u] = cl[u] /\ cnt2[u] = cnt[u] /\ rn2[u] = rn[u]
  /\ cl2[t].pc \in Waiting /\ cl2[t].size = n /\ cnt2[t] = n
  /\ \A c \in 1 .. n : rn2[t][c] = 0

LEMMA PushingKeeps ==
  ASSUME NEW q, NEW q2, NEW wk, NEW wk2, NEW cl, NEW cl2, NEW cnt, NEW cnt2, NEW rn, NEW rn2, NEW t,
         NEW n \in Chunk, NEW k \in Nat,
         JobsPushed(q, q2, wk, wk2, cl, cl2, cnt, cnt2, rn, rn2, t, n, k),
         JobsSound(q, wk, cl, rn), JobsOnce(q, wk), CallsSound(q, wk, cl, cnt, rn)
  PROVE  JobsSound(q2, wk2, cl2, rn2) /\ JobsOnce(q2, wk2) /\ CallsSound(q2, wk2, cl2, cnt2, rn2)
  <1>n. n \in Nat /\ n <= MaxChunks
    BY PoolAssumption DEF Chunk
  <1>a. /\ \A i : i \in 1 .. k + n <=> i \in 1 .. k \/ \E c \in 1 .. n : i = k + c
        /\ \A c \in 1 .. n : k + c \notin 1 .. k
        /\ \A c, e \in 1 .. n : k + c = k + e => c = e
        /\ \A c \in 1 .. n : c <= n
    BY <1>n
  <1>b. /\ \A i : i \in 1 .. Len(q2) <=> i \in 1 .. k \/ \E c \in 1 .. n : i = k + c
        /\ \A i \in 1 .. k : q2[i] = q[i] /\ i \in 1 .. Len(q) /\ q[i].owner # t
        /\ \A c \in 1 .. n : q2[k + c].owner = t /\ q2[k + c].chunk = c
        /\ Len(q) = k
    BY <1>a, Zenon DEF JobsPushed, NoJobsOf
  <1>f. \A i \in 1 .. Len(q2) :
          \/ i \in 1 .. k /\ i \in 1 .. Len(q) /\ q2[i] = q[i] /\ q[i].owner # t
          \/ \E c \in 1 .. n : i = k + c /\ q2[i].owner = t /\ q2[i].chunk = c
    <2> SUFFICES ASSUME NEW i \in 1 .. Len(q2)
                 PROVE  \/ i \in 1 .. k /\ i \in 1 .. Len(q) /\ q2[i] = q[i] /\ q[i].owner # t
                        \/ \E c \in 1 .. n : i = k + c /\ q2[i].owner = t /\ q2[i].chunk = c
      OBVIOUS
    <2>1. CASE i \in 1 .. k
      BY <1>b, <2>1, Zenon
    <2>2. CASE \E c \in 1 .. n : i = k + c
      <3>1. PICK c \in 1 .. n : i = k + c
        BY <2>2, Zenon
      <3>2. q2[k + c].owner = t /\ q2[k + c].chunk = c
        BY <1>b, Zenon
      <3> QED
        BY <3>1, <3>2, Zenon
    <2> QED
      BY <1>b, <2>1, <2>2, Zenon
  <1>g. \A i \in 1 .. Len(q) : i \in 1 .. Len(q2) /\ i \in 1 .. k /\ q2[i] = q[i] /\ q[i].owner # t
    <2>1. \A i \in 1 .. Len(q) : i \in 1 .. k
      BY <1>b, Zenon
    <2> QED
      BY <1>b, <2>1, Zenon
  <1>h. \A c \in 1 .. n : k + c \in 1 .. Len(q2) /\ q2[k + c].owner = t /\ q2[k + c].chunk = c
    BY <1>b, Zenon
  <1>c. \A w \in Workers :
          /\ Holding(wk2, w) <=> Holding(wk, w)
          /\ Holding(wk, w) => wk2[w].job = wk[w].job /\ wk2[w].pc = wk[w].pc /\ wk[w].job.owner # t
    BY Zenon DEF JobsPushed, NoJobsOf
  <1>n2. /\ \A i \in 1 .. Len(q) : q[i].owner \in Threads
         /\ \A w \in Workers : wk[w].job.owner \in Threads
    BY Zenon DEF JobsPushed, Named
  <1>d. \A u \in Threads : u # t => cl2[u] = cl[u] /\ cnt2[u] = cnt[u] /\ rn2[u] = rn[u]
    BY Zenon DEF JobsPushed
  <1>e. cl2[t].pc \in Waiting /\ cl2[t].size = n /\ cnt2[t] = n /\ \A c \in 1 .. n : rn2[t][c] = 0
    BY Zenon DEF JobsPushed
  <1>1. ASSUME NEW u, u # t PROVE Outstanding(q2, wk2, u) = Outstanding(q, wk, u)
    <2>1. ASSUME NEW c
          PROVE  (\E i \in 1 .. Len(q2) : q2[i].owner = u /\ q2[i].chunk = c)
             <=> \E i \in 1 .. Len(q) : q[i].owner = u /\ q[i].chunk = c
      BY <1>f, <1>g, <1>1, Zenon
    <2>2. ASSUME NEW c
          PROVE  (\E w \in Workers : Holding(wk2, w) /\ wk2[w].job.owner = u /\ wk2[w].job.chunk = c)
             <=> \E w \in Workers : Holding(wk, w) /\ wk[w].job.owner = u /\ wk[w].job.chunk = c
      BY <1>c, Zenon
    <2> QED
      BY <2>1, <2>2, Zenon DEF Outstanding
  <1>2. Outstanding(q2, wk2, t) = 1 .. n
    <2>1. ASSUME NEW c
          PROVE  (\E i \in 1 .. Len(q2) : q2[i].owner = t /\ q2[i].chunk = c) <=> c \in 1 .. n
      BY <1>f, <1>h, Zenon
    <2>2. ~ \E w \in Workers : Holding(wk2, w) /\ wk2[w].job.owner = t
      BY <1>c, Zenon
    <2>3. \A c \in 1 .. n : c \in Chunk
      BY <1>n, PoolAssumption DEF Chunk
    <2> QED
      BY <2>1, <2>2, <2>3, Zenon DEF Outstanding
  <1>3. Cardinality(1 .. n) = n
    BY <1>n, FS_Interval
  <1>4. JobsSound(q2, wk2, cl2, rn2)
    <2>1. ASSUME NEW i \in 1 .. Len(q2) PROVE Awaited(cl2, rn2, q2[i], 0)
      <3>1. CASE i \in 1 .. k
        <4>1. Awaited(cl, rn, q[i], 0) /\ q[i].owner # t /\ q2[i] = q[i]
          BY <1>b, <3>1, Zenon DEF JobsSound
        <4>2. cl2[q[i].owner] = cl[q[i].owner] /\ rn2[q[i].owner] = rn[q[i].owner]
          BY <1>b, <1>n2, <1>d, <3>1, <4>1, Zenon
        <4> QED
          BY <4>1, <4>2, Zenon DEF Awaited
      <3>2. CASE \E c \in 1 .. n : i = k + c
        <4>1. PICK c \in 1 .. n : q2[i].owner = t /\ q2[i].chunk = c
          BY <1>h, <3>2, Zenon
        <4>2. c <= n
          BY <1>a, Zenon
        <4> QED
          BY <1>e, <4>1, <4>2, Zenon DEF Awaited
      <3> QED
        BY <1>b, <3>1, <3>2, Zenon
    <2>2. ASSUME NEW w \in Workers, Holding(wk2, w)
          PROVE  Awaited(cl2, rn2, wk2[w].job, IF wk2[w].pc = "running" THEN 0 ELSE 1)
      <3>1. /\ Holding(wk, w) /\ wk2[w].job = wk[w].job /\ wk2[w].pc = wk[w].pc
            /\ wk[w].job.owner # t
        BY <1>c, <2>2, Zenon
      <3>2. cl2[wk[w].job.owner] = cl[wk[w].job.owner] /\ rn2[wk[w].job.owner] = rn[wk[w].job.owner]
        BY <1>n2, <1>d, <3>1, Zenon
      <3>3. Awaited(cl, rn, wk[w].job, IF wk[w].pc = "running" THEN 0 ELSE 1)
        BY <3>1, Zenon DEF JobsSound
      <3>4. Awaited(cl2, rn2, wk[w].job, IF wk[w].pc = "running" THEN 0 ELSE 1)
        BY <3>2, <3>3, Zenon DEF Awaited
      <3> QED
        BY <3>1, <3>4, Zenon
    <2> QED
      BY <2>1, <2>2, Zenon DEF JobsSound
  <1>5. JobsOnce(q2, wk2)
    <2>1. ASSUME NEW i \in 1 .. Len(q2), NEW j \in 1 .. Len(q2), SameJob(q2[i], q2[j]) PROVE i = j
      <3>1. CASE i \in 1 .. k /\ j \in 1 .. k
        BY <1>b, <2>1, <3>1, Zenon DEF JobsOnce
      <3>2. CASE (\E c \in 1 .. n : i = k + c) /\ (\E c \in 1 .. n : j = k + c)
        <4>1. PICK c \in 1 .. n : i = k + c
          BY <3>2, Zenon
        <4>2. PICK e \in 1 .. n : j = k + e
          BY <3>2, Zenon
        <4>3. q2[i].chunk = c /\ q2[j].chunk = e
          BY <1>h, <4>1, <4>2, Zenon
        <4>4. c = e
          BY <2>1, <4>3, Zenon DEF SameJob
        <4> QED
          BY <4>1, <4>2, <4>4, Zenon
      <3>3. CASE (i \in 1 .. k /\ \E c \in 1 .. n : j = k + c) \/ (j \in 1 .. k /\ \E c \in 1 .. n : i = k + c)
        BY <1>b, <2>1, <3>3, ZenonT(40) DEF SameJob
      <3> QED
        BY <1>b, <3>1, <3>2, <3>3, Zenon
    <2>2. ASSUME NEW v \in Workers, NEW w \in Workers, Holding(wk2, v), Holding(wk2, w),
                 SameJob(wk2[v].job, wk2[w].job)
          PROVE  v = w
      BY <1>c, <2>2, Zenon DEF JobsOnce
    <2>3. ASSUME NEW i \in 1 .. Len(q2), NEW w \in Workers, Holding(wk2, w)
          PROVE  ~SameJob(q2[i], wk2[w].job)
      <3>1. CASE i \in 1 .. k
        BY <1>b, <1>c, <2>3, <3>1, Zenon DEF JobsOnce
      <3>2. CASE \E c \in 1 .. n : i = k + c
        BY <1>b, <1>c, <2>3, <3>2, ZenonT(40) DEF SameJob
      <3> QED
        BY <1>b, <3>1, <3>2, Zenon
    <2> QED
      BY <2>1, <2>2, <2>3, Zenon DEF JobsOnce
  <1>6. CallsSound(q2, wk2, cl2, cnt2, rn2)
    <2> SUFFICES ASSUME NEW u \in Threads
                 PROVE  /\ cl2[u].pc \in Waiting =>
                             /\ cnt2[u] = Cardinality(Outstanding(q2, wk2, u))
                             /\ \A c \in 1 .. cl2[u].size : c \notin Outstanding(q2, wk2, u) => rn2[u][c] = 1
                        /\ cl2[u].pc = "inline" =>
                             /\ cl2[u].next <= cl2[u].size
                             /\ \A c \in 1 .. cl2[u].size : rn2[u][c] = IF c < cl2[u].next THEN 1 ELSE 0
      BY Zenon DEF CallsSound
    <2>1. CASE u = t
      <3>1. "inline" \notin Waiting
        BY DEF Waiting
      <3> QED
        BY <1>2, <1>3, <1>e, <2>1, <3>1, Zenon
    <2>2. CASE u # t
      <3>1. cl2[u] = cl[u] /\ cnt2[u] = cnt[u] /\ rn2[u] = rn[u]
        BY <1>d, <2>2, Zenon
      <3>2. /\ cl[u].pc \in Waiting =>
                 /\ cnt[u] = Cardinality(Outstanding(q, wk, u))
                 /\ \A c \in 1 .. cl[u].size : c \notin Outstanding(q, wk, u) => rn[u][c] = 1
            /\ cl[u].pc = "inline" =>
                 /\ cl[u].next <= cl[u].size
                 /\ \A c \in 1 .. cl[u].size : rn[u][c] = IF c < cl[u].next THEN 1 ELSE 0
        BY Zenon DEF CallsSound
      <3>3. Outstanding(q2, wk2, u) = Outstanding(q, wk, u)
        BY <1>1, <2>2, Zenon
      <3> QED
        BY <3>1, <3>2, <3>3, Zenon
    <2> QED
      BY <2>1, <2>2
  <1> QED
    BY <1>4, <1>5, <1>6

-----------------------------------------------------------------------------
(* Every action keeps the invariant. *)

JobsInv(q, wk, cl, cnt, rn) ==
  JobsSound(q, wk, cl, rn) /\ JobsOnce(q, wk) /\ CallsSound(q, wk, cl, cnt, rn)

LEMMA EnteredKeeps ==
  ASSUME PoolTypeOK, NEW t \in Threads, MayDispatch(t), worker' = Entered(t)
  PROVE  /\ worker' \in [Workers -> [pc : WorkerPcs, job : Job, nested : BOOLEAN]]
         /\ \A w \in Workers : worker'[w].job = worker[w].job /\ worker'[w].pc = worker[w].pc
         /\ \A w \in Workers : Holding(worker', w) <=> Holding(worker, w)
         /\ call[t].pc = "none"
         /\ t # Main => t \in Workers /\ worker[t].pc = "running"
         /\ t = Main => pool = "up"
  <1>1. CASE t = Main
    BY <1>1 DEF MayDispatch, Entered, PoolTypeOK, Holding
  <1>2. CASE t # Main
    BY <1>2 DEF MayDispatch, Entered, PoolTypeOK, Holding, Threads
  <1> QED
    BY <1>1, <1>2

LEMMA DispatchInlineKeeps ==
  ASSUME PoolInv, NEW t \in Threads, NEW n \in Chunk, DispatchInline(t, n)
  PROVE  PoolInv'
  <1> USE DEF PoolInv
  <1>n. n \in Nat /\ 1 <= n /\ n <= MaxChunks /\ 1 \in Chunk
    BY PoolAssumption DEF Chunk
  <1>1. /\ MayDispatch(t) /\ worker' = Entered(t)
        /\ call' = [call EXCEPT ![t] = [pc |-> "inline", size |-> n, next |-> 1]]
        /\ ran' = [ran EXCEPT ![t] = [c \in Chunk |-> 0]]
        /\ queue' = queue /\ count' = count /\ pool' = pool
    BY DEF DispatchInline
  <1>2. /\ worker' \in [Workers -> [pc : WorkerPcs, job : Job, nested : BOOLEAN]]
        /\ \A w \in Workers : worker'[w].job = worker[w].job /\ worker'[w].pc = worker[w].pc
        /\ \A w \in Workers : Holding(worker', w) <=> Holding(worker, w)
        /\ call[t].pc = "none"
        /\ t # Main => t \in Workers /\ worker[t].pc = "running"
        /\ t = Main => pool = "up"
    BY <1>1, EnteredKeeps
  <1>3. call' \in [Threads -> [pc : Calls, size : Chunk, next : Chunk]]
    BY <1>1, <1>n DEF PoolTypeOK, Calls
  <1>4. ran' \in [Threads -> [Chunk -> Nat]]
    BY <1>1 DEF PoolTypeOK
  <1>5. PoolTypeOK'
    BY <1>1, <1>2, <1>3, <1>4 DEF PoolTypeOK
  <1>6. call'[t] = [pc |-> "inline", size |-> n, next |-> 1] /\ ran'[t] = [c \in Chunk |-> 0]
    BY <1>1 DEF PoolTypeOK
  <1>7. \A u \in Threads : u # t => call'[u] = call[u] /\ ran'[u] = ran[u]
    BY <1>1 DEF PoolTypeOK
  <1>8. CallerMoved(queue, worker, worker', call, call', ran, ran', t)
    <2>1. NoJobsOf(queue, worker, t)
      <3>1. call[t].pc \notin Waiting
        BY <1>2 DEF Waiting
      <3> QED
        BY <3>1, IdleHasNoJobs
    <2>2. Named(queue, worker, call)
      BY PoolNamed
    <2>3. call'[t].pc = "inline" /\ call'[t].next <= call'[t].size
      BY <1>6, <1>n
    <2>4. ASSUME NEW c \in 1 .. call'[t].size
          PROVE  ran'[t][c] = IF c < call'[t].next THEN 1 ELSE 0
      <3>1. c \in Chunk /\ ~(c < 1)
        BY <1>6, <1>n, PoolAssumption DEF Chunk
      <3> QED
        BY <1>6, <3>1
    <2> QED
      BY <1>2, <1>7, <2>1, <2>2, <2>3, <2>4, Zenon DEF CallerMoved
  <1>9. JobsInv(queue, worker', call', count, ran')
    BY <1>8, CallerStepKeeps, Zenon DEF JobsInv
  <1>10. WorkersSound(worker', call', pool)
    <2>1. ASSUME NEW w \in Workers, call'[w].pc # "none" PROVE worker'[w].pc = "running"
      BY <1>2, <1>7, <2>1, PoolAssumption, ZenonT(40) DEF WorkersSound, Threads
    <2>2. pool # "up" => t # Main /\ call'[Main] = call[Main]
      BY <1>2, <1>7, Zenon DEF Threads
    <2>3. pool = "down" => pool # "up"
      OBVIOUS
    <2> QED
      BY <1>2, <2>1, <2>2, Zenon DEF WorkersSound
  <1> QED
    BY <1>1, <1>5, <1>9, <1>10, Zenon DEF JobsInv

LEMMA InlineBodyKeeps ==
  ASSUME PoolInv, NEW t \in Threads, InlineBody(t)
  PROVE  PoolInv'
  <1> USE DEF PoolInv
  <1> DEFINE c0 == call[t].next
             z == call[t].size
  <1>1. /\ call[t].pc = "inline"
        /\ ran' = RunOnce(t, c0)
        /\ call' = IF c0 = z THEN Goto(call, t, "none") ELSE [call EXCEPT ![t].next = @ + 1]
        /\ queue' = queue /\ count' = count /\ pool' = pool /\ worker' = worker
    BY DEF InlineBody
  <1>2. /\ c0 <= z /\ c0 \in Chunk /\ z \in Chunk
        /\ \A c \in 1 .. z : ran[t][c] = IF c < c0 THEN 1 ELSE 0
    BY <1>1 DEF CallsSound, PoolTypeOK
  <1>n. /\ c0 \in Nat /\ z \in Nat /\ 1 <= c0 /\ z <= MaxChunks /\ c0 \in 1 .. z
        /\ \A c \in 1 .. z : c \in Chunk
    BY <1>2, PoolAssumption DEF Chunk
  <1>3. /\ call' \in [Threads -> [pc : Calls, size : Chunk, next : Chunk]]
        /\ \A u \in Threads : u # t => call'[u] = call[u]
        /\ call'[t].size = z
        /\ c0 = z => call'[t].pc = "none"
        /\ c0 # z => call'[t].pc = "inline" /\ call'[t].next = c0 + 1
    <2>1. CASE c0 = z
      BY <1>1, <2>1 DEF PoolTypeOK, Goto, Calls
    <2>2. CASE c0 # z
      <3>1. c0 + 1 \in Chunk
        BY <1>2, <1>n, <2>2, PoolAssumption DEF Chunk
      <3> QED
        BY <1>1, <2>2, <3>1 DEF PoolTypeOK
    <2> QED
      BY <2>1, <2>2
  <1>4. /\ ran' \in [Threads -> [Chunk -> Nat]]
        /\ \A u \in Threads : u # t => ran'[u] = ran[u]
        /\ \A c \in Chunk : c # c0 => ran'[t][c] = ran[t][c]
        /\ ran'[t][c0] = 1
    <2>1. ran[t][c0] = 0
      BY <1>2, <1>n
    <2> HIDE DEF c0
    <2> QED
      BY <1>1, <1>2, <2>1 DEF RunOnce, PoolTypeOK
  <1>5. PoolTypeOK'
    BY <1>1, <1>3, <1>4 DEF PoolTypeOK
  <1>6. CallerMoved(queue, worker, worker, call, call', ran, ran', t)
    <2>1. NoJobsOf(queue, worker, t)
      <3>1. call[t].pc \notin Waiting
        BY <1>1 DEF Waiting
      <3> QED
        BY <3>1, IdleHasNoJobs
    <2>2. Named(queue, worker, call)
      BY PoolNamed
    <2>3. call'[t].pc \in {"none", "inline"}
      BY <1>3
    <2>4. ASSUME call'[t].pc = "inline"
          PROVE  /\ call'[t].next <= call'[t].size
                 /\ \A c \in 1 .. call'[t].size : ran'[t][c] = IF c < call'[t].next THEN 1 ELSE 0
      <3>1. c0 # z /\ call'[t].next = c0 + 1 /\ call'[t].size = z
        BY <1>3, <2>4
      <3>2. c0 + 1 <= z
        BY <1>2, <1>n, <3>1
      <3>3. ASSUME NEW c \in 1 .. z PROVE ran'[t][c] = IF c < c0 + 1 THEN 1 ELSE 0
        <4>1. CASE c = c0
          BY <1>4, <1>n, <4>1
        <4>2. CASE c # c0
          <5>1. ran'[t][c] = ran[t][c]
            BY <1>4, <1>n, <4>2
          <5>2. c < c0 + 1 <=> c < c0
            BY <1>n, <4>2
          <5> QED
            BY <1>2, <5>1, <5>2
        <4> QED
          BY <4>1, <4>2
      <3> QED
        BY <3>1, <3>2, <3>3
    <2> QED
      BY <1>3, <1>4, <2>1, <2>2, <2>3, <2>4, Zenon DEF CallerMoved
  <1>7. JobsInv(queue, worker, call', count, ran')
    BY <1>6, CallerStepKeeps, Zenon DEF JobsInv
  <1>8. WorkersSound(worker, call', pool)
    <2>1. call[t].pc # "none"
      BY <1>1
    <2> QED
      BY <1>3, <2>1, Zenon DEF WorkersSound, Threads
  <1> QED
    BY <1>1, <1>5, <1>7, <1>8, Zenon DEF JobsInv

(* Waking a caller, or workers, leaves everything else about them. *)
LEMMA WokenCall ==
  ASSUME PoolTypeOK, NEW S
  PROVE  /\ Woken(call, S, "check") \in [Threads -> [pc : Calls, size : Chunk, next : Chunk]]
         /\ \A u \in Threads :
              /\ Woken(call, S, "check")[u].size = call[u].size
              /\ Woken(call, S, "check")[u].next = call[u].next
              /\ \/ Woken(call, S, "check")[u].pc = call[u].pc
                 \/ call[u].pc \in Waiting /\ Woken(call, S, "check")[u].pc \in Waiting
  BY DEF Woken, PoolTypeOK, Calls, Waiting

LEMMA WokenWorkers ==
  ASSUME PoolTypeOK, NEW S
  PROVE  /\ Woken(worker, S, "ready") \in [Workers -> [pc : WorkerPcs, job : Job, nested : BOOLEAN]]
         /\ \A w \in Workers :
              /\ Woken(worker, S, "ready")[w].job = worker[w].job
              /\ \/ Woken(worker, S, "ready")[w].pc = worker[w].pc
                 \/ worker[w].pc = "asleep" /\ Woken(worker, S, "ready")[w].pc = "ready"
  BY DEF Woken, PoolTypeOK, WorkerPcs

(* Steps that take no job, run none and count none off. *)
WorkersUnmoved(wk, wk2) ==
  \A w \in Workers : wk2[w].job = wk[w].job /\ (wk2[w].pc = wk[w].pc \/ (~Holding(wk, w) /\ ~Holding(wk2, w)))

CallsUnmoved(cl, cl2) ==
  \A u \in Threads :
    /\ cl2[u].size = cl[u].size /\ cl2[u].next = cl[u].next
    /\ cl2[u].pc = cl[u].pc \/ (cl[u].pc \in Waiting /\ cl2[u].pc \in Waiting)

LEMMA QuietKeeps ==
  ASSUME PoolTypeOK, NEW wk2, NEW cl2, WorkersUnmoved(worker, wk2), CallsUnmoved(call, cl2),
         JobsInv(queue, worker, call, count, ran)
  PROVE  JobsInv(queue, wk2, cl2, count, ran)
  <1>1. \A w \in Workers : worker[w].job \in Job
    BY DEF PoolTypeOK
  <1>2. \A w \in Workers : Holding(wk2, w) <=> Holding(worker, w)
    BY Zenon DEF WorkersUnmoved, Holding
  <1>3. \A w \in Workers : Holding(worker, w) => wk2[w].pc = worker[w].pc
    BY Zenon DEF WorkersUnmoved
  <1>4. \A w \in Workers : wk2[w].job = worker[w].job
    BY Zenon DEF WorkersUnmoved
  <1>5. \A u \in Threads :
          /\ cl2[u].size = call[u].size /\ cl2[u].next = call[u].next
          /\ cl2[u].pc = call[u].pc \/ (call[u].pc \in Waiting /\ cl2[u].pc \in Waiting)
    BY Zenon DEF CallsUnmoved
  <1>6. queue \in Seq(Job)
    BY DEF PoolTypeOK
  <1>7. Unmoved(queue, worker, wk2, call, cl2)
    BY <1>1, <1>2, <1>3, <1>4, <1>5, <1>6, Zenon DEF Unmoved
  <1> QED
    BY <1>7, JobsUnmoved, Zenon DEF JobsInv

LEMMA SameWorkersUnmoved == WorkersUnmoved(worker, worker) /\ CallsUnmoved(call, call)
  BY DEF WorkersUnmoved, CallsUnmoved

LEMMA NotifyWorkersKeeps ==
  ASSUME PoolInv, NEW t \in Threads, NotifyWorkers(t)
  PROVE  PoolInv'
  <1> USE DEF PoolInv
  <1>1. /\ call[t].pc = "notify" /\ worker' = Woken(worker, Workers, "ready")
        /\ call' = Goto(call, t, "check")
        /\ queue' = queue /\ count' = count /\ pool' = pool /\ ran' = ran
    BY DEF NotifyWorkers
  <1>2. /\ call' \in [Threads -> [pc : Calls, size : Chunk, next : Chunk]]
        /\ CallsUnmoved(call, call')
        /\ \A u \in Threads : call'[u].pc # "none" <=> call[u].pc # "none"
    BY <1>1 DEF PoolTypeOK, Goto, Calls, Waiting, CallsUnmoved
  <1>3. /\ worker' \in [Workers -> [pc : WorkerPcs, job : Job, nested : BOOLEAN]]
        /\ WorkersUnmoved(worker, worker')
        /\ \A w \in Workers : worker[w].pc \in {"running", "exited"} => worker'[w].pc = worker[w].pc
    BY <1>1, WokenWorkers DEF WorkersUnmoved, Holding
  <1>4. PoolTypeOK'
    BY <1>1, <1>2, <1>3 DEF PoolTypeOK
  <1>5. JobsInv(queue, worker', call', count, ran)
    BY <1>2, <1>3, QuietKeeps, Zenon DEF JobsInv
  <1>6. WorkersSound(worker', call', pool)
    BY <1>2, <1>3 DEF WorkersSound, Threads
  <1> QED
    BY <1>1, <1>4, <1>5, <1>6, Zenon DEF JobsInv

(* A caller that sees the count at zero has no job left. *)
LEMMA ZeroIsDone ==
  ASSUME PoolInv, NEW t \in Threads, call[t].pc \in Waiting, count[t] = 0
  PROVE  /\ NoJobsOf(queue, worker, t)
         /\ \A c \in 1 .. call[t].size : ran[t][c] = 1
  <1>1. /\ Cardinality(Outstanding(queue, worker, t)) = 0
        /\ \A c \in 1 .. call[t].size : c \notin Outstanding(queue, worker, t) => ran[t][c] = 1
    BY Zenon DEF PoolInv, CallsSound
  <1>2. Outstanding(queue, worker, t) = {}
    BY <1>1, OutstandingFinite, FS_EmptySet
  <1>3. Named(queue, worker, call)
    BY PoolNamed DEF PoolInv
  <1>4. NoJobsOf(queue, worker, t)
    BY <1>2, <1>3, Zenon DEF NoJobsOf, Named, Outstanding
  <1> QED
    BY <1>1, <1>2, <1>4, Zenon

LEMMA CheckDoneKeeps ==
  ASSUME PoolInv, NEW t \in Threads, CheckDone(t)
  PROVE  PoolInv'
  <1> USE DEF PoolInv
  <1>1. /\ call[t].pc = "check" /\ call[t].pc \in Waiting
        /\ call' = Goto(call, t, IF count[t] = 0 THEN "none" ELSE "asleep")
        /\ queue' = queue /\ count' = count /\ pool' = pool /\ ran' = ran /\ worker' = worker
    BY DEF CheckDone, Waiting
  <1>2. /\ call' \in [Threads -> [pc : Calls, size : Chunk, next : Chunk]]
        /\ call'[t].pc = (IF count[t] = 0 THEN "none" ELSE "asleep")
        /\ call'[t].size = call[t].size /\ call'[t].next = call[t].next
        /\ \A u \in Threads : u # t => call'[u] = call[u]
    BY <1>1 DEF PoolTypeOK, Goto, Calls, Waiting
  <1>3. PoolTypeOK'
    BY <1>1, <1>2 DEF PoolTypeOK
  <1>4. JobsInv(queue, worker, call', count, ran)
    <2>1. CASE count[t] = 0
      <3>1. NoJobsOf(queue, worker, t)
        BY <1>1, <2>1, ZeroIsDone
      <3>2. Named(queue, worker, call)
        BY PoolNamed
      <3>3. call'[t].pc = "none" /\ "none" # "inline"
        BY <1>2, <2>1
      <3>4. CallerMoved(queue, worker, worker, call, call', ran, ran, t)
        BY <1>2, <3>1, <3>2, <3>3, Zenon DEF CallerMoved
      <3> QED
        BY <3>4, CallerStepKeeps, Zenon DEF JobsInv
    <2>2. CASE count[t] # 0
      <3>1. CallsUnmoved(call, call')
        BY <1>1, <1>2, <2>2 DEF CallsUnmoved, Waiting
      <3> QED
        BY <3>1, SameWorkersUnmoved, QuietKeeps, Zenon DEF JobsInv
    <2> QED
      BY <2>1, <2>2
  <1>5. WorkersSound(worker, call', pool)
    <2>1. \A u \in Threads : call'[u].pc # "none" => call[u].pc # "none"
      BY <1>1, <1>2
    <2> QED
      BY <2>1, Zenon DEF WorkersSound, Threads
  <1> QED
    BY <1>1, <1>3, <1>4, <1>5, Zenon DEF JobsInv

LEMMA DispatchJobsKeeps ==
  ASSUME PoolInv, NEW t \in Threads, NEW n \in Chunk, DispatchJobs(t, n)
  PROVE  PoolInv'
  <1> USE DEF PoolInv
  <1>n. /\ n \in Nat /\ n <= MaxChunks /\ 1 \in Chunk
        /\ \A c \in 1 .. n : c \in Chunk
    BY PoolAssumption DEF Chunk
  <1>1. /\ MayDispatch(t) /\ worker' = Entered(t)
        /\ queue' = queue \o JobsOf(t, n)
        /\ count' = [count EXCEPT ![t] = n]
        /\ call' = [call EXCEPT ![t] = [pc |-> "notify", size |-> n, next |-> 1]]
        /\ ran' = [ran EXCEPT ![t] = [c \in Chunk |-> 0]]
        /\ pool' = pool
    BY DEF DispatchJobs
  <1>2. /\ worker' \in [Workers -> [pc : WorkerPcs, job : Job, nested : BOOLEAN]]
        /\ \A w \in Workers : worker'[w].job = worker[w].job /\ worker'[w].pc = worker[w].pc
        /\ \A w \in Workers : Holding(worker', w) <=> Holding(worker, w)
        /\ call[t].pc = "none"
        /\ t # Main => t \in Workers /\ worker[t].pc = "running"
        /\ t = Main => pool = "up"
    BY <1>1, EnteredKeeps
  <1>3. call' \in [Threads -> [pc : Calls, size : Chunk, next : Chunk]]
    BY <1>1, <1>n DEF PoolTypeOK, Calls, Waiting
  <1>4. ran' \in [Threads -> [Chunk -> Nat]] /\ count' \in [Threads -> Int]
    BY <1>1, <1>n DEF PoolTypeOK
  <1>5. /\ JobsOf(t, n) \in Seq(Job) /\ Len(JobsOf(t, n)) = n
        /\ \A c \in 1 .. n : JobsOf(t, n)[c].owner = t /\ JobsOf(t, n)[c].chunk = c
    BY <1>n DEF JobsOf, Job
  <1>6. /\ queue' \in Seq(Job) /\ Len(queue) \in Nat /\ Len(queue') = Len(queue) + n
        /\ \A i \in 1 .. Len(queue) : queue'[i] = queue[i]
        /\ \A c \in 1 .. n : queue'[Len(queue) + c] = JobsOf(t, n)[c]
    <2> DEFINE J == JobsOf(t, n)
    <2>1. queue \in Seq(Job) /\ J \in Seq(Job) /\ Len(J) = n /\ queue' = queue \o J
      BY <1>1, <1>5 DEF PoolTypeOK
    <2> HIDE DEF J
    <2>2. /\ queue' \in Seq(Job) /\ Len(queue) \in Nat /\ Len(queue') = Len(queue) + n
          /\ \A i \in 1 .. Len(queue) : queue'[i] = queue[i]
          /\ \A c \in 1 .. n : queue'[Len(queue) + c] = J[c]
      <3>1. /\ queue \o J \in Seq(Job) /\ Len(queue \o J) = Len(queue) + Len(J)
            /\ \A i \in 1 .. Len(queue) + Len(J) : (queue \o J)[i] =
                   IF i <= Len(queue) THEN queue[i] ELSE J[i - Len(queue)]
        BY <2>1, ConcatProperties, Zenon
      <3>2. Len(queue) \in Nat
        BY <2>1
      <3>3. /\ \A i \in 1 .. Len(queue) : i \in 1 .. Len(queue) + n /\ i <= Len(queue)
            /\ \A c \in 1 .. n : /\ Len(queue) + c \in 1 .. Len(queue) + n
                                /\ ~(Len(queue) + c <= Len(queue)) /\ (Len(queue) + c) - Len(queue) = c
        BY <3>2, <1>n
      <3>4. ASSUME NEW c \in 1 .. n PROVE queue'[Len(queue) + c] = J[c]
        BY <2>1, <3>1, <3>3, Zenon
      <3>5. \A i \in 1 .. Len(queue) : queue'[i] = queue[i]
        BY <2>1, <3>1, <3>3, Zenon
      <3> QED
        BY <2>1, <3>1, <3>2, <3>4, <3>5, Zenon
    <2> QED
      BY <2>2 DEF J
  <1>7. PoolTypeOK'
    BY <1>1, <1>2, <1>3, <1>4, <1>6 DEF PoolTypeOK
  <1>8. /\ call'[t] = [pc |-> "notify", size |-> n, next |-> 1]
        /\ ran'[t] = [c \in Chunk |-> 0] /\ count'[t] = n
        /\ \A u \in Threads : u # t => call'[u] = call[u] /\ count'[u] = count[u] /\ ran'[u] = ran[u]
    BY <1>1 DEF PoolTypeOK
  <1>9. JobsPushed(queue, queue', worker, worker', call, call', count, count', ran, ran', t, n, Len(queue))
    <2>1. NoJobsOf(queue, worker, t)
      <3>1. call[t].pc \notin Waiting
        BY <1>2 DEF Waiting
      <3> QED
        BY <3>1, IdleHasNoJobs
    <2>2. Named(queue, worker, call)
      BY PoolNamed
    <2>3. call'[t].pc \in Waiting /\ call'[t].size = n /\ count'[t] = n
      BY <1>8 DEF Waiting
    <2>4. \A c \in 1 .. n : ran'[t][c] = 0
      BY <1>8, <1>n
    <2>5. \A c \in 1 .. n : queue'[Len(queue) + c].owner = t /\ queue'[Len(queue) + c].chunk = c
      BY <1>5, <1>6, Zenon
    <2> QED
      BY <1>2, <1>6, <1>8, <2>1, <2>2, <2>3, <2>4, <2>5, Zenon DEF JobsPushed
  <1>10. JobsInv(queue', worker', call', count', ran')
    BY <1>6, <1>9, PushingKeeps, Zenon DEF JobsInv
  <1>11. WorkersSound(worker', call', pool)
    <2>1. ASSUME NEW w \in Workers, call'[w].pc # "none" PROVE worker'[w].pc = "running"
      <3>1. CASE w = t
        BY <1>2, <3>1, PoolAssumption
      <3>2. CASE w # t
        <4>1. call'[w] = call[w]
          BY <1>8, <3>2, Zenon DEF Threads
        <4> QED
          BY <1>2, <2>1, <4>1, Zenon DEF WorkersSound
      <3> QED
        BY <3>1, <3>2
    <2>2. pool # "up" => t # Main /\ call'[Main] = call[Main]
      BY <1>2, <1>8, Zenon DEF Threads
    <2>3. pool = "down" => pool # "up"
      OBVIOUS
    <2> QED
      BY <1>2, <2>1, <2>2, Zenon DEF WorkersSound
  <1> QED
    BY <1>1, <1>7, <1>10, <1>11, Zenon DEF JobsInv

LEMMA TakeJobKeeps ==
  ASSUME PoolInv, NEW w \in Workers, TakeJob(w)
  PROVE  PoolInv'
  <1> USE DEF PoolInv
  <1>1. /\ worker[w].pc = "ready" /\ queue # <<>>
        /\ worker' = [worker EXCEPT ![w] = [pc |-> "running", job |-> Last(queue), nested |-> FALSE]]
        /\ queue' = Front(queue)
        /\ call' = call /\ count' = count /\ ran' = ran /\ pool' = pool
    BY DEF TakeJob
  <1>2. PICK n \in Nat : Len(queue) = n + 1
    <2>1. Len(queue) \in Nat /\ Len(queue) # 0
      BY <1>1 DEF PoolTypeOK
    <2> QED
      BY <2>1
  <1>3. /\ queue' \in Seq(Job) /\ Len(queue') = n
        /\ \A i \in 1 .. n : queue'[i] = queue[i]
        /\ Last(queue) = queue[n + 1] /\ queue[n + 1] \in Job
    <2>1. queue \in Seq(Job) /\ queue' = SubSeq(queue, 1, Len(queue) - 1)
      BY <1>1 DEF PoolTypeOK, Front
    <2>2. queue' = SubSeq(queue, 1, n)
      BY <1>2, <2>1
    <2>3. /\ queue' \in Seq(Job) /\ Len(queue') = n
          /\ \A i \in 1 .. n : queue'[i] = queue[i]
      BY <1>2, <2>1, <2>2
    <2>4. Last(queue) = queue[n + 1]
      BY <1>2 DEF Last
    <2>5. queue[n + 1] \in Job
      BY <1>2, <2>1
    <2> QED
      BY <2>3, <2>4, <2>5
  <1>4. /\ worker' \in [Workers -> [pc : WorkerPcs, job : Job, nested : BOOLEAN]]
        /\ worker'[w].pc = "running" /\ worker'[w].job = queue[n + 1]
        /\ \A v \in Workers : v # w => worker'[v] = worker[v]
    <2>1. [pc |-> "running", job |-> Last(queue), nested |-> FALSE]
            \in [pc : WorkerPcs, job : Job, nested : BOOLEAN]
      BY <1>3 DEF WorkerPcs
    <2> QED
      BY <1>1, <1>3, <2>1 DEF PoolTypeOK
  <1>5. PoolTypeOK'
    BY <1>1, <1>3, <1>4 DEF PoolTypeOK
  <1>6. ~Holding(worker, w)
    BY <1>1 DEF Holding
  <1>7. JobTaken(queue, queue', worker, worker', n, w)
    BY <1>2, <1>3, <1>4, <1>6, Zenon DEF JobTaken
  <1>8. JobsInv(queue', worker', call, count, ran)
    BY <1>7, TakingKeeps, Zenon DEF JobsInv
  <1>9. WorkersSound(worker', call, pool)
    <2>1. worker[w].pc # "exited"
      BY <1>1
    <2> QED
      BY <1>4, <2>1, Zenon DEF WorkersSound
  <1> QED
    BY <1>1, <1>5, <1>8, <1>9, Zenon DEF JobsInv

(* A worker without work goes to sleep, or leaves. *)
LEMMA IdlingKeeps ==
  ASSUME PoolInv, NEW w \in Workers, Sleep(w) \/ Exit(w)
  PROVE  PoolInv'
  <1> USE DEF PoolInv
  <1>1. PICK pc \in {"asleep", "exited"} :
          /\ worker[w].pc = "ready" /\ worker' = Goto(worker, w, pc)
          /\ queue' = queue /\ call' = call /\ count' = count /\ ran' = ran /\ pool' = pool
    BY DEF Sleep, Exit
  <1>2. /\ worker' \in [Workers -> [pc : WorkerPcs, job : Job, nested : BOOLEAN]]
        /\ worker'[w].pc = pc /\ worker'[w].job = worker[w].job
        /\ \A v \in Workers : v # w => worker'[v] = worker[v]
    BY <1>1 DEF PoolTypeOK, Goto, WorkerPcs
  <1>3. PoolTypeOK'
    BY <1>1, <1>2 DEF PoolTypeOK
  <1>4. WorkersUnmoved(worker, worker')
    BY <1>1, <1>2 DEF WorkersUnmoved, Holding
  <1>5. JobsInv(queue, worker', call, count, ran)
    BY <1>4, SameWorkersUnmoved, QuietKeeps, Zenon DEF JobsInv
  <1>6. WorkersSound(worker', call, pool)
    <2>1. worker[w].pc # "running" /\ worker[w].pc # "exited"
      BY <1>1
    <2> QED
      BY <1>2, <2>1, Zenon DEF WorkersSound
  <1> QED
    BY <1>1, <1>3, <1>5, <1>6, Zenon DEF JobsInv

LEMMA RunBodyKeeps ==
  ASSUME PoolInv, NEW w \in Workers, RunBody(w)
  PROVE  PoolInv'
  <1> USE DEF PoolInv
  <1> DEFINE o == worker[w].job.owner
             d == worker[w].job.chunk
  <1>1. /\ worker[w].pc = "running" /\ call[w].pc = "none"
        /\ ran' = RunOnce(o, d) /\ worker' = Goto(worker, w, "finishing")
        /\ queue' = queue /\ call' = call /\ count' = count /\ pool' = pool
    BY DEF RunBody
  <1>2. o \in Threads /\ d \in Chunk
    BY DEF PoolTypeOK, Job
  <1>3. ran[o][d] = 0
    <2>1. Holding(worker, w)
      BY <1>1 DEF Holding
    <2> QED
      BY <1>1, <2>1, Zenon DEF JobsSound, Awaited
  <1>4. /\ worker' \in [Workers -> [pc : WorkerPcs, job : Job, nested : BOOLEAN]]
        /\ worker'[w].pc = "finishing" /\ worker'[w].job = worker[w].job
        /\ \A v \in Workers : v # w => worker'[v] = worker[v]
    BY <1>1 DEF PoolTypeOK, Goto, WorkerPcs
  <1>5. /\ ran' \in [Threads -> [Chunk -> Nat]]
        /\ ran'[o][d] = 1
        /\ \A u \in Threads, c \in Chunk : u # o \/ c # d => ran'[u][c] = ran[u][c]
    <2> HIDE DEF o, d
    <2> QED
      BY <1>1, <1>2, <1>3 DEF RunOnce, PoolTypeOK
  <1>6. PoolTypeOK'
    BY <1>1, <1>4, <1>5 DEF PoolTypeOK
  <1>7. Named(queue, worker, call)
    BY PoolNamed
  <1>8. BodyRan(queue, worker, worker', call, ran, ran', w)
    BY <1>1, <1>4, <1>5, <1>7, Zenon DEF BodyRan
  <1>9. JobsInv(queue, worker', call, count, ran')
    BY <1>8, RunningKeeps, Zenon DEF JobsInv
  <1>10. WorkersSound(worker', call, pool)
    <2>1. worker[w].pc # "exited"
      BY <1>1
    <2> QED
      BY <1>1, <1>4, <2>1, Zenon DEF WorkersSound
  <1> QED
    BY <1>1, <1>6, <1>9, <1>10, Zenon DEF JobsInv

LEMMA FinishJobKeeps ==
  ASSUME PoolInv, NEW w \in Workers, FinishJob(w)
  PROVE  PoolInv'
  <1> USE DEF PoolInv
  <1> DEFINE o == worker[w].job.owner
  <1>1. /\ worker[w].pc = "finishing" /\ worker' = Goto(worker, w, "ready")
        /\ count' = [count EXCEPT ![o] = @ - 1]
        /\ call' = IF count[o] = 1 THEN Woken(call, {o}, "check") ELSE call
        /\ queue' = queue /\ ran' = ran /\ pool' = pool
    BY DEF FinishJob
  <1>2. o \in Threads /\ worker[w].job \in Job
    BY DEF PoolTypeOK, Job
  <1>3. /\ worker' \in [Workers -> [pc : WorkerPcs, job : Job, nested : BOOLEAN]]
        /\ worker'[w].pc = "ready" /\ worker'[w].job = worker[w].job
        /\ \A v \in Workers : v # w => worker'[v] = worker[v]
    BY <1>1 DEF PoolTypeOK, Goto, WorkerPcs
  <1>4. /\ count' \in [Threads -> Int] /\ count[o] \in Int
        /\ count'[o] = count[o] - 1
        /\ \A u \in Threads : u # o => count'[u] = count[u]
    <2> HIDE DEF o
    <2> QED
      BY <1>1, <1>2 DEF PoolTypeOK
  <1>5. /\ call' \in [Threads -> [pc : Calls, size : Chunk, next : Chunk]]
        /\ CallsUnmoved(call, call')
    <2>1. CASE count[o] = 1
      BY <1>1, <2>1, WokenCall DEF CallsUnmoved
    <2>2. CASE count[o] # 1
      BY <1>1, <2>2, SameWorkersUnmoved DEF PoolTypeOK
    <2> QED
      BY <2>1, <2>2
  <1>6. PoolTypeOK'
    BY <1>1, <1>3, <1>4, <1>5 DEF PoolTypeOK
  <1>7. JobFinished(worker, worker', count, count', w)
    BY <1>1, <1>2, <1>3, <1>4, Zenon DEF JobFinished
  <1>8. JobsInv(queue, worker', call, count', ran)
    BY <1>7, FinishingKeeps, Zenon DEF JobsInv
  <1>9. JobsInv(queue, worker', call', count', ran)
    <2>1. Unmoved(queue, worker', worker', call, call')
      <3>1. \A v \in Workers : worker'[v].job \in Job
        BY <1>3
      <3>2. queue \in Seq(Job)
        BY DEF PoolTypeOK
      <3> QED
        BY <1>5, <3>1, <3>2, Zenon DEF Unmoved, CallsUnmoved
    <2> QED
      BY <1>8, <2>1, JobsUnmoved, Zenon DEF JobsInv
  <1>10. WorkersSound(worker', call', pool)
    <2>1. worker[w].pc # "exited" /\ worker[w].pc # "running"
      BY <1>1
    <2>2. \A u \in Threads : call'[u].pc # "none" => call[u].pc # "none"
      BY <1>5 DEF CallsUnmoved, Waiting
    <2> QED
      BY <1>3, <2>1, <2>2, PoolAssumption, Zenon DEF WorkersSound, Threads
  <1> QED
    BY <1>1, <1>6, <1>9, <1>10, Zenon DEF JobsInv

LEMMA SpuriousWakeKeeps ==
  ASSUME PoolInv, NEW t \in Threads, SpuriousWake(t)
  PROVE  PoolInv'
  <1> USE DEF PoolInv
  <1>1. /\ \/ worker' = Woken(worker, {t}, "ready") /\ call' = call
           \/ call' = Woken(call, {t}, "check") /\ worker' = worker
        /\ queue' = queue /\ count' = count /\ ran' = ran /\ pool' = pool
    BY DEF SpuriousWake
  <1>2. /\ call' \in [Threads -> [pc : Calls, size : Chunk, next : Chunk]]
        /\ CallsUnmoved(call, call')
    <2>1. CASE call' = call
      BY <2>1, SameWorkersUnmoved DEF PoolTypeOK
    <2>2. CASE call' = Woken(call, {t}, "check")
      BY <2>2, WokenCall DEF CallsUnmoved
    <2> QED
      BY <1>1, <2>1, <2>2
  <1>3. /\ worker' \in [Workers -> [pc : WorkerPcs, job : Job, nested : BOOLEAN]]
        /\ WorkersUnmoved(worker, worker')
        /\ \A w \in Workers : worker[w].pc \in {"running", "exited"} => worker'[w].pc = worker[w].pc
    <2>1. CASE worker' = worker
      BY <2>1, SameWorkersUnmoved DEF PoolTypeOK
    <2>2. CASE worker' = Woken(worker, {t}, "ready")
      BY <2>2, WokenWorkers DEF WorkersUnmoved, Holding
    <2> QED
      BY <1>1, <2>1, <2>2
  <1>4. PoolTypeOK'
    BY <1>1, <1>2, <1>3 DEF PoolTypeOK
  <1>5. JobsInv(queue, worker', call', count, ran)
    BY <1>2, <1>3, QuietKeeps, Zenon DEF JobsInv
  <1>6. WorkersSound(worker', call', pool)
    <2>1. \A u \in Threads : call'[u].pc # "none" => call[u].pc # "none"
      BY <1>2 DEF CallsUnmoved, Waiting
    <2> QED
      BY <1>3, <2>1 DEF WorkersSound, Threads
  <1> QED
    BY <1>1, <1>4, <1>5, <1>6, Zenon DEF JobsInv

(* The owner stops the pool, joins its workers and builds the next one. *)
LEMMA OwnerKeeps ==
  ASSUME PoolInv, StopPool \/ OwnerStep
  PROVE  PoolInv'
  <1> USE DEF PoolInv
  <1>1. queue' = queue /\ call' = call /\ count' = count /\ ran' = ran
    BY DEF StopPool, OwnerStep, NotifyStop, JoinWorkers
  <1>2. /\ worker' \in [Workers -> [pc : WorkerPcs, job : Job, nested : BOOLEAN]]
        /\ WorkersUnmoved(worker, worker')
        /\ \A w \in Workers : worker[w].pc \in {"running", "exited"} => worker'[w].pc = worker[w].pc
    <2>1. CASE worker' = worker
      BY <2>1, SameWorkersUnmoved DEF PoolTypeOK
    <2>2. CASE worker' = Woken(worker, Workers, "ready")
      BY <2>2, WokenWorkers DEF WorkersUnmoved, Holding
    <2> QED
      BY <2>1, <2>2 DEF StopPool, OwnerStep, NotifyStop, JoinWorkers
  <1>3. /\ pool' \in {"up", "stopping", "joining", "down"}
        /\ pool' # "up" => call[Main].pc = "none"
        /\ pool' = "down" => \A w \in Workers : worker[w].pc = "exited"
    BY DEF StopPool, OwnerStep, NotifyStop, JoinWorkers, WorkersSound
  <1>4. PoolTypeOK'
    BY <1>1, <1>2, <1>3 DEF PoolTypeOK
  <1>5. JobsInv(queue, worker', call, count, ran)
    BY <1>2, SameWorkersUnmoved, QuietKeeps, Zenon DEF JobsInv
  <1>6. WorkersSound(worker', call, pool')
    BY <1>2, <1>3 DEF WorkersSound
  <1> QED
    BY <1>1, <1>4, <1>5, <1>6, Zenon DEF JobsInv

LEMMA FreshIsTyped ==
  /\ [w \in Workers |-> Fresh] \in [Workers -> [pc : WorkerPcs, job : Job, nested : BOOLEAN]]
  /\ <<>> \in Seq(Job)
  <1>1. NoJob \in Job
    BY PoolAssumption DEF NoJob, Job, Threads, Chunk
  <1>2. Fresh \in [pc : WorkerPcs, job : Job, nested : BOOLEAN]
    BY <1>1 DEF Fresh, WorkerPcs
  <1> QED
    BY <1>2

(* With nobody in a dispatch, an empty queue and fresh workers are sound. *)
LEMMA EmptyIsSound ==
  ASSUME NEW cl, NEW cnt, NEW rn, \A t \in Threads : cl[t].pc = "none"
  PROVE  JobsInv(<<>>, [w \in Workers |-> Fresh], cl, cnt, rn)
  <1> DEFINE wk == [w \in Workers |-> Fresh]
  <1>1. \A w \in Workers : ~Holding(wk, w)
    BY DEF Holding, Fresh
  <1>2. \A i : i \notin 1 .. Len(<<>>)
    BY EmptySeq
  <1>3. "none" \notin Waiting /\ "none" # "inline"
    BY DEF Waiting
  <1> HIDE DEF wk
  <1>4. JobsSound(<<>>, wk, cl, rn) /\ JobsOnce(<<>>, wk)
    BY <1>1, <1>2, Zenon DEF JobsSound, JobsOnce
  <1>5. CallsSound(<<>>, wk, cl, cnt, rn)
    BY <1>3, Zenon DEF CallsSound
  <1> QED
    BY <1>4, <1>5 DEF JobsInv, wk

LEMMA BuildPoolKeeps ==
  ASSUME PoolInv, BuildPool
  PROVE  PoolInv'
  <1> USE DEF PoolInv
  <1>1. /\ pool = "down" /\ pool' = "up" /\ queue' = <<>> /\ worker' = [w \in Workers |-> Fresh]
        /\ call' = call /\ count' = count /\ ran' = ran
    BY DEF BuildPool
  <1>2. \A t \in Threads : call[t].pc = "none"
    BY <1>1 DEF WorkersSound, Threads
  <1>3. PoolTypeOK'
    BY <1>1, FreshIsTyped DEF PoolTypeOK
  <1>4. JobsInv(queue', worker', call', count', ran')
    BY <1>1, <1>2, EmptyIsSound
  <1>5. WorkersSound(worker', call', pool')
    BY <1>1, <1>2 DEF WorkersSound, Threads
  <1> QED
    BY <1>3, <1>4, <1>5 DEF JobsInv

LEMMA PoolInitSound == PoolInit => PoolInv
  <1> SUFFICES ASSUME PoolInit PROVE PoolInv
    OBVIOUS
  <1>1. call \in [Threads -> [pc : Calls, size : Chunk, next : Chunk]]
    BY PoolAssumption DEF PoolInit, NotCalling, Calls, Chunk
  <1>2. \A t \in Threads : call[t].pc = "none"
    BY DEF PoolInit, NotCalling
  <1>3. PoolTypeOK
    BY <1>1, FreshIsTyped DEF PoolInit, PoolTypeOK
  <1>4. JobsInv(queue, worker, call, count, ran)
    BY <1>2, EmptyIsSound DEF PoolInit
  <1>5. WorkersSound(worker, call, pool)
    BY <1>2 DEF WorkersSound, Threads, PoolInit
  <1> QED
    BY <1>3, <1>4, <1>5 DEF PoolInv, JobsInv

LEMMA PoolStepKeeps == PoolInv /\ [PoolNext]_poolVars => PoolInv'
  <1> SUFFICES ASSUME PoolInv, [PoolNext]_poolVars PROVE PoolInv'
    OBVIOUS
  <1>1. CASE UNCHANGED poolVars
    <2>1. /\ queue' = queue /\ worker' = worker /\ call' = call /\ count' = count
          /\ ran' = ran /\ pool' = pool
      BY <1>1 DEF poolVars
    <2> QED
      BY <2>1 DEF PoolInv, PoolTypeOK
  <1>2. ASSUME NEW t \in Threads, CallerStep(t) PROVE PoolInv'
    BY <1>2, InlineBodyKeeps, NotifyWorkersKeeps, CheckDoneKeeps DEF CallerStep
  <1>3. ASSUME NEW w \in Workers, WorkerStep(w) PROVE PoolInv'
    BY <1>3, TakeJobKeeps, IdlingKeeps, RunBodyKeeps, FinishJobKeeps DEF WorkerStep
  <1> QED
    BY <1>1, <1>2, <1>3, DispatchInlineKeeps, DispatchJobsKeeps, SpuriousWakeKeeps, OwnerKeeps,
       BuildPoolKeeps DEF PoolNext

(* Where the jobs are, in every state of the pool: a job not yet counted   *)
(* off is in the queue or with one worker, a caller waits for exactly the  *)
(* jobs its count says, and a pool is destroyed only without callers       *)
(* (run_parallel_for_impl, run_concurrent, worker_loop, the destructor).   *)
THEOREM PoolInductive == PoolSpec => []PoolInv
  <1>1. PoolInit => PoolInv
    BY PoolInitSound
  <1>2. PoolInv /\ [PoolNext]_poolVars => PoolInv'
    BY PoolStepKeeps
  <1> QED
    BY <1>1, <1>2, PTL DEF PoolSpec

-----------------------------------------------------------------------------
(* The refinement of ForkJoin, action by action. *)
Active(cl) == {t \in Threads : cl[t].pc # "none"}

ChunksOf(cl, t) == IF cl[t].pc = "none" THEN {} ELSE 1 .. cl[t].size

Runs(cl, rn) == [t \in Threads |-> [c \in ChunksOf(cl, t) |-> rn[t][c]]]

(* A step that only changes how a dispatch is served is a stutter. *)
SameDispatches(cl, cl2, rn, rn2) ==
  \A t \in Threads :
    /\ cl2[t].pc = "none" <=> cl[t].pc = "none"
    /\ cl2[t].size = cl[t].size
    /\ \A c \in ChunksOf(cl, t) : rn2[t][c] = rn[t][c]

LEMMA SameIsStutter ==
  ASSUME NEW cl, NEW cl2, NEW rn, NEW rn2, SameDispatches(cl, cl2, rn, rn2)
  PROVE  Active(cl2) = Active(cl) /\ Runs(cl2, rn2) = Runs(cl, rn)
  <1>1. \A t \in Threads : cl2[t].pc = "none" <=> cl[t].pc = "none"
    BY Zenon DEF SameDispatches
  <1>2. \A t \in Threads : ChunksOf(cl2, t) = ChunksOf(cl, t)
    BY Zenon DEF SameDispatches, ChunksOf
  <1>3. \A t \in Threads : \A c \in ChunksOf(cl, t) : rn2[t][c] = rn[t][c]
    BY Zenon DEF SameDispatches
  <1> QED
    BY <1>1, <1>2, <1>3 DEF Active, Runs

(* The other threads are not concerned. *)
OthersKept(cl, cl2, rn, rn2, t) ==
  \A u \in Threads : u # t => cl2[u] = cl[u] /\ rn2[u] = rn[u]

LEMMA OthersRuns ==
  ASSUME NEW cl, NEW cl2, NEW rn, NEW rn2, NEW t \in Threads, OthersKept(cl, cl2, rn, rn2, t)
  PROVE  /\ Active(cl2) \ {t} = Active(cl) \ {t}
         /\ Runs(cl2, rn2) = [Runs(cl, rn) EXCEPT ![t] = [c \in ChunksOf(cl2, t) |-> rn2[t][c]]]
  <1>1. \A u \in Threads : u # t => cl2[u] = cl[u] /\ rn2[u] = rn[u]
    BY Zenon DEF OthersKept
  <1>2. ASSUME NEW u \in Threads, u # t
        PROVE  /\ ChunksOf(cl2, u) = ChunksOf(cl, u)
               /\ [c \in ChunksOf(cl2, u) |-> rn2[u][c]] = [c \in ChunksOf(cl, u) |-> rn[u][c]]
    BY <1>1, <1>2 DEF ChunksOf
  <1>3. Active(cl2) \ {t} = Active(cl) \ {t}
    BY <1>1 DEF Active
  <1> QED
    BY <1>2, <1>3 DEF Runs

Forked(cl, cl2, rn, rn2, t, n) ==
  /\ OthersKept(cl, cl2, rn, rn2, t)
  /\ cl[t].pc = "none" /\ cl2[t].pc # "none" /\ cl2[t].size = n
  /\ \A c \in 1 .. n : rn2[t][c] = 0

Joined(cl, cl2, rn, rn2, t) ==
  /\ OthersKept(cl, cl2, rn, rn2, t)
  /\ cl[t].pc # "none" /\ cl2[t].pc = "none"

LEMMA ForkStep ==
  ASSUME NEW t \in Threads, NEW n \in Chunk, Forked(call, call', ran, ran', t, n)
  PROVE  FJ!Fork(t, n)
  <1>1. Runs(call', ran') = [Runs(call, ran) EXCEPT ![t] = [c \in 1 .. n |-> 0]]
    <2>1. Runs(call', ran') = [Runs(call, ran) EXCEPT ![t] = [c \in ChunksOf(call', t) |-> ran'[t][c]]]
      BY OthersRuns DEF Forked
    <2>2. ChunksOf(call', t) = 1 .. n /\ \A c \in 1 .. n : ran'[t][c] = 0
      BY DEF Forked, ChunksOf
    <2>3. [c \in ChunksOf(call', t) |-> ran'[t][c]] = [c \in 1 .. n |-> 0]
      BY <2>2
    <2> QED
      BY <2>1, <2>3
  <1>2. t \notin Active(call) /\ Active(call') = Active(call) \cup {t}
    <2>1. Active(call') \ {t} = Active(call) \ {t}
      BY OthersRuns DEF Forked
    <2>2. t \notin Active(call) /\ t \in Active(call')
      BY DEF Active, Forked
    <2> QED
      BY <2>1, <2>2
  <1> QED
    BY <1>1, <1>2 DEF FJ!Fork, Active, Runs, ChunksOf

LEMMA JoinStep ==
  ASSUME NEW t \in Threads, Joined(call, call', ran, ran', t)
  PROVE  /\ (\A c \in 1 .. call[t].size : ran[t][c] = 1) => FJ!Join(t)
         /\ \A c \in 1 .. call[t].size :
              ran[t][c] = 0 /\ (\A e \in 1 .. call[t].size : e # c => ran[t][e] = 1) => FJ!RunLastAndJoin(t)
  <1>1. Runs(call', ran') = [Runs(call, ran) EXCEPT ![t] = FJ!NoChunks]
    <2>1. Runs(call', ran') = [Runs(call, ran) EXCEPT ![t] = [c \in ChunksOf(call', t) |-> ran'[t][c]]]
      BY OthersRuns DEF Joined
    <2>2. ChunksOf(call', t) = {}
      BY DEF Joined, ChunksOf
    <2>3. [c \in ChunksOf(call', t) |-> ran'[t][c]] = FJ!NoChunks
      BY <2>2 DEF FJ!NoChunks
    <2> QED
      BY <2>1, <2>3
  <1>2. t \in Active(call) /\ Active(call') = Active(call) \ {t}
    <2>1. Active(call') \ {t} = Active(call) \ {t}
      BY OthersRuns DEF Joined
    <2>2. t \in Active(call) /\ t \notin Active(call')
      BY DEF Active, Joined
    <2> QED
      BY <2>1, <2>2
  <1>3. /\ Runs(call, ran)[t] = [c \in 1 .. call[t].size |-> ran[t][c]]
    BY DEF Runs, ChunksOf, Joined
  <1>4. ASSUME \A c \in 1 .. call[t].size : ran[t][c] = 1 PROVE FJ!Join(t)
    <2>1. FJ!AllRan(Runs(call, ran)[t])
      BY <1>3, <1>4 DEF FJ!AllRan
    <2> QED
      BY <1>1, <1>2, <2>1 DEF FJ!Join, Active, Runs, ChunksOf
  <1>5. ASSUME NEW c \in 1 .. call[t].size, ran[t][c] = 0,
               \A e \in 1 .. call[t].size : e # c => ran[t][e] = 1
        PROVE  FJ!RunLastAndJoin(t)
    <2> DEFINE R == Runs(call, ran)[t]
    <2>1. c \in DOMAIN R /\ R[c] = 0
      BY <1>3, <1>5
    <2>2. FJ!AllRan([R EXCEPT ![c] = 1])
      BY <1>3, <1>5 DEF FJ!AllRan
    <2> QED
      BY <1>1, <1>2, <2>1, <2>2 DEF FJ!RunLastAndJoin, Active, Runs, ChunksOf
  <1> QED
    BY <1>4, <1>5

(* A step of the abstract fork and join, or a stutter. *)
FJStep == FJ!FJNext \/ (Active(call') = Active(call) /\ Runs(call', ran') = Runs(call, ran))

(* One chunk of a dispatch runs. *)
ChunkRan(cl, cl2, rn, rn2, t, d) ==
  /\ \A u \in Threads : u # t => cl2[u] = cl[u] /\ rn2[u] = rn[u]
  /\ cl[t].pc # "none" /\ cl2[t].pc # "none" /\ cl2[t].size = cl[t].size
  /\ d \in 1 .. cl[t].size /\ rn[t][d] = 0 /\ rn2[t][d] = 1
  /\ \A c \in 1 .. cl[t].size : c # d => rn2[t][c] = rn[t][c]

LEMMA RunChunkStep ==
  ASSUME NEW t \in Threads, NEW d \in Chunk, ChunkRan(call, call', ran, ran', t, d)
  PROVE  FJStep
  <1>1. OthersKept(call, call', ran, ran', t)
    BY Zenon DEF ChunkRan, OthersKept
  <1>2. Runs(call', ran') = [Runs(call, ran) EXCEPT ![t] = [c \in ChunksOf(call', t) |-> ran'[t][c]]]
    BY <1>1, OthersRuns
  <1>3. ChunksOf(call', t) = 1 .. call[t].size /\ ChunksOf(call, t) = 1 .. call[t].size
    BY DEF ChunksOf, ChunkRan
  <1>4. Runs(call, ran)[t] = [c \in 1 .. call[t].size |-> ran[t][c]]
    BY <1>3 DEF Runs
  <1>5. [c \in ChunksOf(call', t) |-> ran'[t][c]] = [Runs(call, ran)[t] EXCEPT ![d] = 1]
    <2> DEFINE f == [c \in 1 .. call[t].size |-> ran[t][c]]
    <2>1. /\ d \in 1 .. call[t].size /\ ran'[t][d] = 1
          /\ \A c \in 1 .. call[t].size : c # d => ran'[t][c] = ran[t][c]
      BY DEF ChunkRan
    <2>2. [c \in 1 .. call[t].size |-> ran'[t][c]] = [f EXCEPT ![d] = 1]
      BY <2>1
    <2> QED
      BY <1>3, <1>4, <2>2, Zenon
  <1>6. Runs(call', ran') = [Runs(call, ran) EXCEPT ![t][d] = 1]
    BY <1>2, <1>5 DEF Runs
  <1>7. d \in DOMAIN Runs(call, ran)[t] /\ Runs(call, ran)[t][d] = 0
    BY <1>4 DEF ChunkRan
  <1>8. Active(call') = Active(call)
    <2>1. Active(call') \ {t} = Active(call) \ {t}
      BY <1>1, OthersRuns
    <2>2. t \in Active(call) /\ t \in Active(call')
      BY DEF Active, ChunkRan
    <2> QED
      BY <2>1, <2>2
  <1> QED
    <2>1. FJ!RunChunk(t, d)
      BY <1>6, <1>7, <1>8 DEF FJ!RunChunk, Active, Runs, ChunksOf
    <2>2. d \in 1 .. MaxChunks
      BY DEF Chunk
    <2> QED
      BY <2>1, <2>2, Zenon DEF FJStep, FJ!FJNext

LEMMA DispatchRefines ==
  ASSUME PoolInv, NEW t \in Threads, NEW n \in Chunk, DispatchInline(t, n) \/ DispatchJobs(t, n)
  PROVE  FJStep
  <1>1. PICK pc \in {"inline", "notify"} :
          /\ call[t].pc = "none"
          /\ call' = [call EXCEPT ![t] = [pc |-> pc, size |-> n, next |-> 1]]
          /\ ran' = [ran EXCEPT ![t] = [c \in Chunk |-> 0]]
    BY DEF DispatchInline, DispatchJobs, MayDispatch
  <1>2. /\ call'[t] = [pc |-> pc, size |-> n, next |-> 1] /\ ran'[t] = [c \in Chunk |-> 0]
        /\ \A u \in Threads : u # t => call'[u] = call[u] /\ ran'[u] = ran[u]
    BY <1>1 DEF PoolInv, PoolTypeOK
  <1>3. ASSUME NEW c \in 1 .. n PROVE ran'[t][c] = 0
    <2>1. c \in Chunk
      BY PoolAssumption DEF Chunk
    <2> QED
      BY <1>2, <2>1
  <1>4. Forked(call, call', ran, ran', t, n)
    BY <1>1, <1>2, <1>3 DEF Forked, OthersKept
  <1>5. FJ!Fork(t, n)
    BY <1>4, ForkStep
  <1>6. n \in 0 .. MaxChunks
    BY PoolAssumption DEF Chunk
  <1> QED
    BY <1>5, <1>6, Zenon DEF FJStep, FJ!FJNext

LEMMA InlineBodyRefines ==
  ASSUME PoolInv, NEW t \in Threads, InlineBody(t)
  PROVE  FJStep
  <1> DEFINE c0 == call[t].next
             z == call[t].size
  <1>1. /\ call[t].pc = "inline" /\ ran' = RunOnce(t, c0)
        /\ call' = IF c0 = z THEN Goto(call, t, "none") ELSE [call EXCEPT ![t].next = @ + 1]
    BY DEF InlineBody
  <1>2. /\ c0 <= z /\ c0 \in Chunk /\ z \in Chunk
        /\ \A c \in 1 .. z : ran[t][c] = IF c < c0 THEN 1 ELSE 0
    BY <1>1 DEF PoolInv, CallsSound, PoolTypeOK
  <1>n. /\ c0 \in Nat /\ z \in Nat /\ c0 \in 1 .. z /\ c0 \in 1 .. MaxChunks
        /\ \A c \in 1 .. z : c \in Chunk
    BY <1>2, PoolAssumption DEF Chunk
  <1>3. ran[t][c0] = 0
    BY <1>2, <1>n
  <1>4. /\ \A u \in Threads : u # t => ran'[u] = ran[u]
        /\ \A c \in Chunk : c # c0 => ran'[t][c] = ran[t][c]
        /\ ran'[t][c0] = 1
    <2> HIDE DEF c0
    <2> QED
      BY <1>1, <1>2, <1>3 DEF RunOnce, PoolInv, PoolTypeOK
  <1>5. CASE c0 = z
    <2>1. call'[t].pc = "none" /\ \A u \in Threads : u # t => call'[u] = call[u]
      BY <1>1, <1>5 DEF PoolInv, PoolTypeOK, Goto
    <2>2. Joined(call, call', ran, ran', t)
      BY <1>1, <1>4, <2>1 DEF Joined, OthersKept
    <2>3. \A e \in 1 .. z : e # c0 => ran[t][e] = 1
      BY <1>2, <1>n, <1>5
    <2>4. FJ!RunLastAndJoin(t)
      BY <1>n, <1>3, <2>2, <2>3, JoinStep, Zenon
    <2> QED
      BY <2>4, Zenon DEF FJStep, FJ!FJNext
  <1>6. CASE c0 # z
    <2>1. /\ call'[t].pc = "inline" /\ call'[t].size = z
          /\ \A u \in Threads : u # t => call'[u] = call[u]
      BY <1>1, <1>6 DEF PoolInv, PoolTypeOK
    <2>2. call[t].pc # "none" /\ call'[t].pc # "none"
      BY <1>1, <2>1
    <2>3. \A c \in 1 .. z : c # c0 => ran'[t][c] = ran[t][c]
      BY <1>n, <1>4, Zenon
    <2>4. ChunkRan(call, call', ran, ran', t, c0)
      <3> HIDE DEF c0
      <3> QED
        BY <1>n, <1>3, <1>4, <2>1, <2>2, <2>3 DEF ChunkRan
    <2> QED
      BY <1>2, <2>4, RunChunkStep
  <1> QED
    BY <1>5, <1>6

LEMMA RunBodyRefines ==
  ASSUME PoolInv, NEW w \in Workers, RunBody(w)
  PROVE  FJStep
  <1> DEFINE o == worker[w].job.owner
             d == worker[w].job.chunk
  <1>1. /\ worker[w].pc = "running" /\ ran' = RunOnce(o, d) /\ call' = call
    BY DEF RunBody
  <1>2. o \in Threads /\ d \in Chunk /\ call[o].size \in Chunk
    BY DEF PoolInv, PoolTypeOK, Job
  <1>3. /\ ran[o][d] = 0 /\ call[o].pc \in Waiting /\ d <= call[o].size
    <2>1. Holding(worker, w)
      BY <1>1 DEF Holding
    <2> QED
      BY <1>1, <2>1, Zenon DEF PoolInv, JobsSound, Awaited
  <1>4. /\ \A u \in Threads : u # o => ran'[u] = ran[u]
        /\ \A c \in Chunk : c # d => ran'[o][c] = ran[o][c]
        /\ ran'[o][d] = 1
    <2> HIDE DEF o, d
    <2> QED
      BY <1>1, <1>2, <1>3 DEF RunOnce, PoolInv, PoolTypeOK
  <1>5. /\ d \in 1 .. call[o].size /\ d \in 1 .. MaxChunks
        /\ \A c \in 1 .. call[o].size : c \in Chunk
    BY <1>2, <1>3, PoolAssumption DEF Chunk
  <1>6. call[o].pc # "none"
    BY <1>3 DEF Waiting
  <1>7. ChunkRan(call, call', ran, ran', o, d)
    <2> HIDE DEF o, d
    <2>1. /\ \A u \in Threads : u # o => call'[u] = call[u] /\ ran'[u] = ran[u]
          /\ call'[o].pc # "none" /\ call'[o].size = call[o].size
          /\ \A c \in 1 .. call[o].size : c # d => ran'[o][c] = ran[o][c]
      BY <1>1, <1>4, <1>5, <1>6
    <2> QED
      BY <1>3, <1>4, <1>5, <1>6, <2>1 DEF ChunkRan
  <1> QED
    BY <1>2, <1>7, RunChunkStep

LEMMA CheckDoneRefines ==
  ASSUME PoolInv, NEW t \in Threads, CheckDone(t)
  PROVE  FJStep
  <1>1. /\ call[t].pc = "check" /\ call[t].pc \in Waiting
        /\ call' = Goto(call, t, IF count[t] = 0 THEN "none" ELSE "asleep")
        /\ ran' = ran
    BY DEF CheckDone, Waiting
  <1>2. /\ call'[t].pc = (IF count[t] = 0 THEN "none" ELSE "asleep")
        /\ call'[t].size = call[t].size
        /\ \A u \in Threads : u # t => call'[u] = call[u]
    BY <1>1 DEF PoolInv, PoolTypeOK, Goto
  <1>3. CASE count[t] = 0
    <2>1. \A c \in 1 .. call[t].size : ran[t][c] = 1
      BY <1>1, <1>3, ZeroIsDone
    <2>2. Joined(call, call', ran, ran', t)
      BY <1>1, <1>2, <1>3 DEF Joined, OthersKept
    <2>3. FJ!Join(t)
      BY <2>1, <2>2, JoinStep, Zenon
    <2> QED
      BY <2>3, Zenon DEF FJStep, FJ!FJNext
  <1>4. CASE count[t] # 0
    <2>1. SameDispatches(call, call', ran, ran')
      BY <1>1, <1>2, <1>4 DEF SameDispatches
    <2> QED
      BY <2>1, SameIsStutter DEF FJStep
  <1> QED
    BY <1>3, <1>4

(* Steps that wake a caller, or concern only the workers. *)
LEMMA QuietRefines ==
  ASSUME CallsUnmoved(call, call'), ran' = ran
  PROVE  FJStep
  <1>1. "none" \notin Waiting
    BY DEF Waiting
  <1>2. SameDispatches(call, call', ran, ran')
    BY <1>1, Zenon DEF SameDispatches, CallsUnmoved
  <1> QED
    BY <1>2, SameIsStutter DEF FJStep

LEMMA PoolStepRefines ==
  ASSUME PoolInv, [PoolNext]_poolVars
  PROVE  FJStep
  <1>1. ASSUME NEW t \in Threads, CallerStep(t) PROVE FJStep
    <2>1. ASSUME NotifyWorkers(t) PROVE FJStep
      <3>1. CallsUnmoved(call, call') /\ ran' = ran
        BY <2>1 DEF NotifyWorkers, PoolInv, PoolTypeOK, Goto, Waiting, CallsUnmoved
      <3> QED
        BY <3>1, QuietRefines
    <2> QED
      BY <1>1, <2>1, InlineBodyRefines, CheckDoneRefines DEF CallerStep
  <1>2. ASSUME NEW w \in Workers, WorkerStep(w) PROVE FJStep
    <2>1. ASSUME FinishJob(w) PROVE FJStep
      <3>1. CallsUnmoved(call, call') /\ ran' = ran
        BY <2>1, WokenCall, SameWorkersUnmoved DEF FinishJob, PoolInv, CallsUnmoved
      <3> QED
        BY <3>1, QuietRefines
    <2>2. ASSUME TakeJob(w) \/ Sleep(w) \/ Exit(w) PROVE FJStep
      <3>1. call' = call /\ ran' = ran
        BY <2>2 DEF TakeJob, Sleep, Exit
      <3> QED
        BY <3>1, SameWorkersUnmoved, QuietRefines DEF CallsUnmoved
    <2> QED
      BY <1>2, <2>1, <2>2, RunBodyRefines DEF WorkerStep
  <1>3. ASSUME NEW t \in Threads, SpuriousWake(t) PROVE FJStep
    <2>1. CallsUnmoved(call, call') /\ ran' = ran
      BY <1>3, WokenCall, SameWorkersUnmoved DEF SpuriousWake, PoolInv, CallsUnmoved
    <2> QED
      BY <2>1, QuietRefines
  <1>4. ASSUME StopPool \/ OwnerStep \/ BuildPool \/ UNCHANGED poolVars PROVE FJStep
    <2>1. call' = call /\ ran' = ran
      BY <1>4 DEF StopPool, OwnerStep, NotifyStop, JoinWorkers, BuildPool, poolVars
    <2> QED
      BY <2>1, SameWorkersUnmoved, QuietRefines DEF CallsUnmoved
  <1> QED
    BY <1>1, <1>2, <1>3, <1>4, DispatchRefines DEF PoolNext

(* run_parallel_for_impl and run_concurrent run the body exactly once for  *)
(* each chunk and return after the last one, whatever the workers, the     *)
(* nested dispatches, the wake-ups and the rebuilding of the pool do.      *)
THEOREM PoolIsForkJoin == PoolSpec => ForkJoinRefined
  <1>1. PoolInit => FJ!FJInit
    <2>1. ASSUME PoolInit PROVE FJ!FJInit
      <3>1. \A t \in Threads : call[t].pc = "none"
        BY <2>1 DEF PoolInit, NotCalling
      <3> QED
        BY <3>1 DEF FJ!FJInit, FJ!NoChunks
    <2> QED
      BY <2>1
  <1>2. PoolInv /\ [PoolNext]_poolVars => [FJ!FJNext]_(FJ!fjVars)
    <2>1. ASSUME PoolInv, [PoolNext]_poolVars PROVE [FJ!FJNext]_(FJ!fjVars)
      <3>1. FJStep
        BY <2>1, PoolStepRefines
      <3> QED
        BY <3>1 DEF FJStep, FJ!fjVars, Active, Runs, ChunksOf
    <2> QED
      BY <2>1
  <1> QED
    BY <1>1, <1>2, PoolInductive, PTL DEF PoolSpec, ForkJoinRefined, FJ!FJSpec
==============================================================================

-------------------------- MODULE MCSystemScheduler --------------------------
(* The data of a World's schedules.  Some are built: three system types     *)
(* over two components, with every assignment of different access patterns  *)
(* of those below, and no declared edge, one, a chain, or a cycle.  And     *)
(* some are run: two stages with their command buffers, three systems, two  *)
(* chunks at most, and bodies of one or two commands; the stages share a    *)
(* system.                                                                  *)
EXTENDS SystemScheduler, StageRun

CONSTANTS A, B, s1, s2, s3

Sys(r, w, x, er, ew) ==
  [reads |-> r, writes |-> w, exclude |-> x, extra_reads |-> er, extra_writes |-> ew]

(* Writers of A on the rows without B and on those with B; the latter with  *)
(* A also in an extra list; and a writer of B that reaches every A.         *)
Patterns ==
  { Sys({}, {A}, {B}, {}, {}),
    Sys({B}, {A}, {}, {}, {}),
    Sys({B}, {A}, {}, {A}, {}),
    Sys({}, {B}, {}, {}, {A}) }

EdgeSets == {{}, {<<1, 2>>}, {<<3, 1>>}, {<<1, 2>>, <<2, 3>>}, {<<1, 2>>, <<2, 1>>}}

(* An edge is declared by its later end when the ids ascend, else by its earlier. *)
Declared(pattern, E) ==
  [t \in Types |->
     [reads |-> pattern[t].reads, writes |-> pattern[t].writes, exclude |-> pattern[t].exclude,
      extra_reads |-> pattern[t].extra_reads, extra_writes |-> pattern[t].extra_writes,
      run_after |-> {u \in Types : u <= t /\ <<u, t>> \in E},
      run_before |-> {u \in Types : u < t /\ <<t, u>> \in E}]]

MCPrograms ==
  {Declared(pattern, E) : pattern \in Injection(Types, Patterns), E \in EdgeSets}

-----------------------------------------------------------------------------
Command(kind, own, n, many, with, imm) ==
  [kind |-> kind, own |-> own, n |-> n, count |-> many, with |-> with, immutable |-> imm]

NewEntity(with, imm) == Command("create", FALSE, 0, 1, with, imm)
NewEntities(many, with, imm) == Command("bulk", FALSE, 0, many, with, imm)
DestroyOld(n) == Command("destroy", FALSE, n, 0, {}, FALSE)
AddToOld(n, c) == Command("add", FALSE, n, 0, {c}, FALSE)
RemoveFromOld(n, c) == Command("remove", FALSE, n, 0, {c}, FALSE)
DestroyNew(n) == Command("destroy", TRUE, n, 0, {}, FALSE)
AddToNew(n, c) == Command("add", TRUE, n, 0, {c}, FALSE)
Toggle == Command("toggle", FALSE, 0, 0, {}, FALSE)

(* Entities 0 and 1 live, slot 2 free. *)
MCStart ==
  LET t == Create(Create(Create(EmptyTable, FALSE), FALSE), FALSE)
  IN  World(Destroy(t, [index |-> 2, generation |-> 1]),
            [i \in Index |-> IF i = 0 THEN {A, B} ELSE IF i = 1 THEN {A} ELSE {}])

Bodies ==
  { <<NewEntity({A}, FALSE), AddToNew(1, B)>>,
    <<DestroyOld(0), NewEntity({B}, TRUE)>>,
    <<NewEntities(2, {A}, FALSE), DestroyNew(2)>>,
    <<AddToOld(0, B), RemoveFromOld(1, A)>>,
    <<NewEntities(1, {A}, TRUE), AddToNew(1, B)>> }

Entry(s, threaded, gated, bodies) ==
  [system |-> s, threaded |-> threaded, gated |-> gated, bodies |-> bodies]

(* One plain system creates entities in a stage, at most.  The gated system *)
(* of the first stage reads what the plain system of that stage toggles.    *)
MCScenarios ==
  { << <<Entry(s1, TRUE, FALSE, <<x, y>>), Entry(s2, FALSE, FALSE, <<Append(z, Toggle)>>),
         Entry(s3, TRUE, TRUE, <<y>>)>>,
       <<Entry(s1, TRUE, TRUE, <<z>>)>> >> : x \in Bodies, y \in Bodies, z \in Bodies }

-----------------------------------------------------------------------------
(* How each starts when another is looked at. *)
OneScenario == serial = TRUE /\ open = TRUE /\ scenario = CHOOSE x \in Scenarios : TRUE
OneProgram == program = CHOOSE x \in Programs : TRUE

(* States that differ only in a schedule the next rebuild will discard are *)
(* alike.                                                                  *)
ScheduleView ==
  <<program, registry, dirty, phase, edges, depth, todo, seen,
    IF dirty /\ phase # "emit" THEN <<>> ELSE <<built, stages>>>>
=============================================================================

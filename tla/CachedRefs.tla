----------------------------- MODULE CachedRefs -----------------------------
(***************************************************************************)
(* Soft component pointers that re-resolve on a version mismatch           *)
(* (ecs/CachedRef.hpp), over the archetype storage.                        *)
(***************************************************************************)
EXTENDS WorldStorage

CONSTANT RefComponent     \* the component a CachedRef<C> points at

VARIABLE ref              \* [entity, version, pointer]: one reference

refVars == <<storageVars, ref>>

NoRef == [entity |-> [index |-> 0, generation |-> 0], version |-> 0, pointer |-> NoAddress]

(* refresh, and the slow path of get *)
Resolved(id) ==
  LET pointer == get_component(table, store, id, RefComponent)
  IN  [entity |-> id, pointer |-> pointer,
       version |-> IF pointer = NoAddress THEN 0
                   ELSE component_version_in(table, store, id, RefComponent)]

(* CachedRef::from *)
RefFrom(id) ==
  /\ ~ended
  /\ Holds(table, id)
  /\ ref' = Resolved(id)
  /\ UNCHANGED storageVars

(* CachedRef::get: the pointer is looked up again when the version differs. *)
RefGet ==
  /\ ~ended
  /\ ref # NoRef
  /\ LET live == component_version_in(table, store, ref.entity, RefComponent)
     IN  ref' = IF live = 0 THEN [ref EXCEPT !.version = 0, !.pointer = NoAddress]
                ELSE IF live # ref.version \/ ref.pointer = NoAddress THEN Resolved(ref.entity)
                ELSE ref
  /\ UNCHANGED storageVars

RefInit == StorageInit /\ ref = NoRef

RefNext ==
  \/ StorageNext /\ UNCHANGED ref
  \/ \E id \in EntityID : RefFrom(id)
  \/ RefGet

RefSpec == RefInit /\ [][RefNext]_refVars

(* "a stable version implies cached pointers into the column are still     *)
(* valid" (ecs/World.hpp, component_version_in): while the version of the  *)
(* entity's column is the cached one, the cached pointer, which get then   *)
(* returns as it is, points at the entity's component.                     *)
StableVersionIsValid ==
  /\ ~ended
  /\ ref.pointer # NoAddress
  /\ component_version_in(table, store, ref.entity, RefComponent) = ref.version
  => ref.pointer = get_component(table, store, ref.entity, RefComponent)
=============================================================================

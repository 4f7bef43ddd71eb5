---------------------------- MODULE EntityStore ----------------------------
(***************************************************************************)
(* What the ECS storage promises its callers: a map from live entities to  *)
(* their components, in which every call touches the entity it names and   *)
(* no other.  Archetypes, chunks, rows and slots do not exist here.        *)
(***************************************************************************)
CONSTANTS EntityID, Component, Value

VARIABLES
  entities,     \* the live entities: id -> (component -> value)
  frozen        \* the live entities whose component set may not change

vars == <<entities, frozen>>

Components == UNION {[C -> Value] : C \in (SUBSET Component) \ {{}}}

Init == entities = [id \in {} |-> {}] /\ frozen = {}

(* One or several entities appear, all with the same component set. *)
Appear(before, after) ==
  LET ids == DOMAIN after \ DOMAIN before
  IN  /\ ids # {}
      /\ DOMAIN before \subseteq DOMAIN after
      /\ \A id \in DOMAIN before : after[id] = before[id]
      /\ \A id, jd \in ids : DOMAIN after[id] = DOMAIN after[jd]
      /\ \A id \in ids : after[id] \in Components
      /\ frozen' \in {frozen, frozen \cup ids}

Disappear(before, after) ==
  \E id \in DOMAIN before : /\ after = [jd \in DOMAIN before \ {id} |-> before[jd]]
                            /\ frozen' = frozen \ {id}

(* A component is replaced, or gained by an entity that is not frozen. *)
SetComponent(before, after) ==
  \E id \in DOMAIN before, c \in Component :
    /\ id \in frozen => c \in DOMAIN before[id]
    /\ id \in DOMAIN after /\ c \in DOMAIN after[id] /\ after[id][c] \in Value
    /\ after = [before EXCEPT ![id] = [d \in DOMAIN before[id] \cup {c} |->
                                          IF d = c THEN after[id][c] ELSE before[id][d]]]
    /\ UNCHANGED frozen

DropComponent(before, after) ==
  \E id \in DOMAIN before \ frozen : \E c \in DOMAIN before[id] :
    /\ DOMAIN before[id] # {c}
    /\ after = [before EXCEPT ![id] = [d \in DOMAIN before[id] \ {c} |-> before[id][d]]]
    /\ UNCHANGED frozen

(* The World is destroyed with everything in it. *)
Teardown(after) == DOMAIN after = {} /\ frozen' = {}

Step(before, after) ==
  \/ before = after /\ UNCHANGED frozen
  \/ Appear(before, after)
  \/ Disappear(before, after)
  \/ SetComponent(before, after)
  \/ DropComponent(before, after)
  \/ Teardown(after)

Next == Step(entities, entities')

Spec == Init /\ [][Next]_vars
=============================================================================

----------------------------- MODULE Diplomacy -----------------------------
(***************************************************************************)
(* What countries are to each other: the twelve tables of the              *)
(* CountryRelationManager (diplomacy/CountryRelation.hpp, .cpp), the       *)
(* setters of CountryInstance (country/CountryInstance.cpp) that keep the  *)
(* enemies and the owner of a sphere beside them, and the diplomatic       *)
(* actions (diplomacy/DiplomaticAction.cpp), which write the tables        *)
(* directly.  Nothing in the repository commits an action; the caller is   *)
(* taken to commit what create_diplomatic_action_tick allows.              *)
(*                                                                         *)
(* A country is a number, its address.                                     *)
(***************************************************************************)
EXTENDS Integers, FiniteSets, FiniteSetsExt

CONSTANTS
  Nation,       \* the countries
  Topics,       \* sets of tables: a behaviour writes the tables of one of them
  MaxMoves      \* bound on the calls of a behaviour

ASSUME DiplomacyAssumption == Nation \subseteq Nat /\ MaxMoves \in Nat

VARIABLES
  topic,
  tables,         \* of every table its entries: two countries in order, and a value
  war_enemies,    \* of every country
  sphere_owner,   \* of every country: a country, or 0
  committed,      \* whether a diplomatic action was committed
  moves

diplomacyVars == <<topic, tables, war_enemies, sphere_owner, committed, moves>>

-----------------------------------------------------------------------------
(* Keys: three tables know two countries whatever their order.             *)

Unordered == {"relations", "alliances", "at_war"}
Flags == {"military_access", "war_subsidies", "command_units", "vision"}
Numbers == {"opinions", "influence", "influence_priority"}
Dates == {"discredits", "embassy_bans"}

(* hash_combine of two addresses tells the orders apart. *)
Seed(c, r) == 8 * c + r

(* Mutant: the hash of an unordered pair follows its order. *)
OrderedHash(c, r) == Seed(c, r)

UnorderedHash(c, r) == Min({Seed(c, r), Seed(r, c)})

SameUnordered(e, c, r) ==
  /\ UnorderedHash(e.first, e.second) = UnorderedHash(c, r)
  /\ <<e.first, e.second>> \in {<<c, r>>, <<r, c>>}

Find(t, c, r) ==
  {e \in tables[t] : IF t \in Unordered THEN SameUnordered(e, c, r) ELSE e.first = c /\ e.second = r}

(* An absent entry reads as false, zero (neutral), or no date. *)
Default(t) ==
  IF t \in Flags \cup {"alliances", "at_war"} THEN FALSE ELSE IF t \in Dates THEN "no date" ELSE 0

Get(t, c, r) ==
  IF Find(t, c, r) = {} THEN Default(t) ELSE (CHOOSE e \in Find(t, c, r) : TRUE).value

(* What a table holds after a value is set: an entry keeps the key it was  *)
(* first inserted with.                                                    *)
Put(t, c, r, v) ==
  IF Find(t, c, r) = {} THEN tables[t] \cup {[first |-> c, second |-> r, value |-> v]}
  ELSE LET e == CHOOSE e \in Find(t, c, r) : TRUE
       IN  (tables[t] \ {e}) \cup {[e EXCEPT !.value = v]}

Set(t, c, r, v) == [tables EXCEPT ![t] = Put(t, c, r, v)]

Hostile == -2
Sphere == 3
Warmer(opinion) == Min({opinion + 1, Sphere})
Cooler(opinion) == Max({opinion - 1, Hostile})

-----------------------------------------------------------------------------
(* The setters of CountryInstance.                                         *)

ValuesOf(t) ==
  CASE t \in Flags \cup {"alliances"} -> BOOLEAN
    [] t = "relations" -> {-200, 200}
    [] t \in {"influence", "influence_priority"} -> {0, 100}
    [] t \in Dates -> {1, 2}
    [] OTHER -> {}

(* set_relations_with, set_alliance_with, ..., set_embassy_banned_from *)
set_with(t, c, r) ==
  /\ \E v \in ValuesOf(t) : tables' = Set(t, c, r, v)
  /\ UNCHANGED <<war_enemies, sphere_owner, committed>>

Enemies(c, r, at_war) ==
  [n \in Nation |->
    IF n \notin {c, r} THEN war_enemies[n]
    ELSE IF at_war THEN war_enemies[n] \cup ({c, r} \ {n}) ELSE war_enemies[n] \ {c, r}]

set_at_war_with(c, r, at_war) ==
  /\ tables' = Set("at_war", c, r, at_war)
  /\ war_enemies' = Enemies(c, r, at_war)
  /\ UNCHANGED <<sphere_owner, committed>>

(* A country in a sphere that is added to another changes its owner, with  *)
(* a warning.                                                              *)
OwnerAfter(c, r, opinion) ==
  IF opinion = Sphere THEN c ELSE IF sphere_owner[r] = c THEN 0 ELSE sphere_owner[r]

set_opinion_of(c, r, opinion) ==
  /\ tables' = Set("opinions", c, r, opinion)
  /\ sphere_owner' = [sphere_owner EXCEPT ![r] = OwnerAfter(c, r, opinion)]
  /\ UNCHANGED <<war_enemies, committed>>

increase_opinion_of(c, r) == set_opinion_of(c, r, Warmer(Get("opinions", c, r)))
decrease_opinion_of(c, r) == set_opinion_of(c, r, Cooler(Get("opinions", c, r)))

is_at_war_with(c, r) == r \in war_enemies[c]
can_army_units_enter(c, r) == c = r \/ is_at_war_with(c, r) \/ Get("military_access", c, r)
can_navy_units_enter(c, r) == c = r \/ Get("military_access", c, r)

-----------------------------------------------------------------------------
(* The diplomatic actions.  Those that do nothing (call_ally, offer_peace, *)
(* expel_advisors, justify_war) are left out; increase_relations and       *)
(* decrease_relations are never allowed.                                   *)

(* The actions that set a value: which value of which table. *)
Setting ==
  [form_alliance |-> <<"alliances", TRUE>>, end_alliance |-> <<"alliances", FALSE>>,
   request_military_access |-> <<"military_access", TRUE>>,
   give_military_access |-> <<"military_access", TRUE>>,
   war_subsidies |-> <<"war_subsidies", TRUE>>, end_war_subsidies |-> <<"war_subsidies", FALSE>>,
   declare_war |-> <<"at_war", TRUE>>, command_units |-> <<"command_units", TRUE>>,
   discredit |-> <<"discredits", 180>>, ban_embassy |-> <<"embassy_bans", 365>>,
   add_to_sphere |-> <<"opinions", Sphere>>,
   give_vision |-> <<"vision", TRUE>>, remove_vision |-> <<"vision", FALSE>>]

(* The actions that move an opinion of a country: the sender's, or that of *)
(* the country given with the action.                                      *)
Moving == {"increase_opinion", "decrease_opinion", "remove_from_foreign_sphere", "remove_from_own_sphere"}

(* The constructor takes over everything of the initializer but its cost:  *)
(* no influence is asked for or spent.                                     *)
InfluenceCost(type) == 0

allowed_to_commit(type) == type \notin {"increase_relations", "decrease_relations", "call_ally"}

(* create_diplomatic_action_tick: whether the action may be committed. *)
Permitted(type, c, r) ==
  /\ InfluenceCost(type) # 0 => Get("influence", c, r) >= InfluenceCost(type)
  /\ allowed_to_commit(type)

CommitSetting(type, c, r) ==
  /\ Setting[type][1] \in topic /\ Permitted(type, c, r)
  /\ tables' = Set(Setting[type][1], c, r, Setting[type][2])
  /\ committed' = TRUE /\ UNCHANGED <<war_enemies, sphere_owner>>

CommitMoving(type, c, r, other) ==
  LET whose == IF type \in {"decrease_opinion", "remove_from_foreign_sphere"} THEN other ELSE c
      opinion == Get("opinions", whose, r)
  IN  /\ "opinions" \in topic /\ Permitted(type, c, r)
      /\ tables' = [tables EXCEPT
           !["opinions"] = Put("opinions", whose, r, IF type = "increase_opinion" THEN Warmer(opinion) ELSE Cooler(opinion)),
           !["relations"] = IF type \in {"remove_from_foreign_sphere", "remove_from_own_sphere"}
                            THEN Put("relations", c, r, Get("relations", c, r) - 10) ELSE @]
      /\ committed' = TRUE /\ UNCHANGED <<war_enemies, sphere_owner>>

-----------------------------------------------------------------------------
DiplomacyInit ==
  /\ topic \in Topics
  /\ tables = [t \in Unordered \cup Flags \cup Numbers \cup Dates |-> {}]
  /\ war_enemies = [c \in Nation |-> {}] /\ sphere_owner = [c \in Nation |-> 0]
  /\ committed = FALSE /\ moves = 0

DiplomacyNext ==
  /\ moves < MaxMoves /\ moves' = moves + 1 /\ UNCHANGED topic
  /\ \E c \in Nation : \E r \in Nation \ {c} :
       \/ \E t \in topic : set_with(t, c, r)
       \/ "at_war" \in topic /\ \E at_war \in BOOLEAN : set_at_war_with(c, r, at_war)
       \/ "opinions" \in topic /\ \E opinion \in Hostile .. Sphere : set_opinion_of(c, r, opinion)
       \/ "opinions" \in topic /\ (increase_opinion_of(c, r) \/ decrease_opinion_of(c, r))
       \/ \E type \in DOMAIN Setting : CommitSetting(type, c, r)
       \/ \E type \in Moving, other \in Nation \ {r} : CommitMoving(type, c, r, other)

DiplomacySpec == DiplomacyInit /\ [][DiplomacyNext]_diplomacyVars

-----------------------------------------------------------------------------
(* Whatever was called, in either order of the two countries: they have    *)
(* one relation, alliance and war, which both read alike; enemies are      *)
(* enemies of each other and at war in the table, so that the borders a    *)
(* war opens to armies are open both ways, and ships need access.  Until   *)
(* an action writes the tables directly, a war is never in the table       *)
(* alone, and the owner of a sphere has the opinion that makes it one.     *)
DiplomacyAgrees ==
  /\ \A t \in Unordered, c, r \in Nation :
       /\ Cardinality({e \in tables[t] : {e.first, e.second} = {c, r}}) <= 1
       /\ Get(t, c, r) = Get(t, r, c)
  /\ \A c, r \in Nation :
       /\ is_at_war_with(c, r) => is_at_war_with(r, c) /\ Get("at_war", c, r)
       /\ can_army_units_enter(c, r) =>
            can_navy_units_enter(c, r) \/ (Get("at_war", r, c) /\ can_army_units_enter(r, c))
       /\ ~committed /\ Get("at_war", c, r) => is_at_war_with(c, r)
  /\ ~committed => \A c \in Nation : sphere_owner[c] # 0 => Get("opinions", sphere_owner[c], c) = Sphere
=============================================================================

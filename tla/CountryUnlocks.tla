--------------------------- MODULE CountryUnlocks ---------------------------
(***************************************************************************)
(* What a country has unlocked (country/CountryInstance.cpp).  Technology  *)
(* and inventions have levels, set by history and raised by research; a    *)
(* change of one is passed on to all it activates: unit types, buildings,  *)
(* crimes, gas warfare, unit variants.  Levels are counts of reasons, and  *)
(* what is derived from them is kept up to date as they change.            *)
(*                                                                         *)
(* Levels stay far below the limit of their type, an int8, in the model.   *)
(***************************************************************************)
EXTENDS Integers, SequencesExt, FiniteSetsExt

CONSTANTS
  Technology, Invention,
  Feature,               \* unit types, buildings, crimes, gas attack and defence
  Activates,             \* the features a technology or an invention unlocks
  UnitVariant,           \* the unit variant of every technology, or 0
  StartsUnlocked,        \* is_enabled_by_default, is_default_active, starts_unlocked
  AllowedCultures,       \* of every regiment type: 0, all of them, to 2, the primary one
  OutputGood,            \* of every building with a production type
  Before,                \* the technologies before one in its area: one, or none
  Levels,                \* the levels history gives technologies
  NoTechnology

NO_CULTURES == 3
Regiment == DOMAIN AllowedCultures
Building == DOMAIN OutputGood

ASSUME UnlocksAssumption ==
  /\ IsFiniteSet(Technology) /\ IsFiniteSet(Invention) /\ Technology \cap Invention = {}
  /\ Regiment \subseteq Feature /\ Building \subseteq Feature /\ StartsUnlocked \subseteq Feature
  /\ Activates \in [Technology \cup Invention -> SUBSET Feature]
  /\ UnitVariant \in [Technology -> Nat]
  /\ AllowedCultures \in [Regiment -> 0 .. 2]
  /\ Before \in [Technology -> SUBSET Technology]
  /\ Levels \subseteq Nat /\ NoTechnology \notin Technology

VARIABLES
  source_level,       \* technology_unlock_levels and invention_unlock_levels
  level,              \* the unlock level of every feature
  variants,           \* unit_variant_unlock_levels, without a tail of zeros
  inventions_count,
  allowed,            \* allowed_regiment_cultures
  enabled,            \* the goods that are available
  current_research,
  rejected            \* whether a change was ever refused

unlocksVars == <<source_level, level, variants, inventions_count, allowed, enabled,
                 current_research, rejected>>

Unlocked(l) == {f \in Feature : l[f] > 0}

(* allowed_cultures_get_most_permissive over a set of regiment types. *)
MostPermissive(regiments) == Min({NO_CULTURES} \cup {AllowedCultures[r] : r \in regiments})

(* Mutant of AllowedAfter: the cultures of a locked regiment type stay. *)
AllowedBeforeToo(now) == Min({allowed, MostPermissive(Unlocked(now) \cap Regiment)})

(* allowed_regiment_cultures: recalculated when a regiment type is locked, *)
(* widened by those that are unlocked.                                     *)
AllowedAfter(now) ==
  LET was == Unlocked(level) \cap Regiment
      is == Unlocked(now) \cap Regiment
  IN  IF was \ is # {} THEN MostPermissive(is)
      ELSE Min({allowed, MostPermissive(is \ was)})

(* The variant levels, without the zeros at the end. *)
Trimmed(seq) ==
  SubSeq(seq, 1, Max({0} \cup {v \in DOMAIN seq : seq[v] > 0}))

VariantLevel(v) == IF v <= Len(variants) THEN variants[v] ELSE 0

(* modify_unit_variant_unlock *)
VariantsAfter(v, change) ==
  Trimmed([k \in 1 .. Max({v, Len(variants)}) |->
             IF k = v /\ VariantLevel(k) + change >= 0 THEN VariantLevel(k) + change ELSE VariantLevel(k)])

VariantRefused(v, change) ==
  v > 0 /\ VariantLevel(v) + change < 0

(* modify_unit_type_unlock, modify_building_type_unlock, modify_crime_unlock, *)
(* modify_gas_attack_unlock and modify_gas_defence_unlock.                   *)
RefusedFeatures(source, change) == {f \in Activates[source] : level[f] + change < 0}
LevelsAfter(source, change) ==
  [f \in Feature |-> IF f \in Activates[source] \ RefusedFeatures(source, change) THEN level[f] + change ELSE level[f]]

(* modify_technology_unlock and modify_invention_unlock: the level of the  *)
(* source, then that of everything it activates; a change that would take  *)
(* a level below zero is refused, the others are made all the same.        *)
Modify(source, change) ==
  IF source_level[source] + change < 0
  THEN rejected' = TRUE /\ UNCHANGED <<source_level, level, variants, inventions_count, allowed, enabled>>
  ELSE LET now == LevelsAfter(source, change)
           variant == IF source \in Technology THEN UnitVariant[source] ELSE 0
       IN  /\ source_level' = [source_level EXCEPT ![source] = @ + change]
           /\ level' = now
           /\ variants' = VariantsAfter(variant, change)
           /\ inventions_count' =
                IF source \notin Invention THEN inventions_count
                ELSE IF source_level[source] > 0
                THEN (IF source_level[source] + change > 0 THEN inventions_count ELSE inventions_count - 1)
                ELSE (IF source_level[source] + change > 0 THEN inventions_count + 1 ELSE inventions_count)
           /\ allowed' = AllowedAfter(now)
           /\ enabled' = enabled \cup
                {OutputGood[b] : b \in (Activates[source] \ RefusedFeatures(source, change)) \cap Building}
           /\ rejected' = (rejected \/ RefusedFeatures(source, change) # {} \/ VariantRefused(variant, change))

(* set_technology_unlock_level and set_invention_unlock_level, from the    *)
(* entries of the country's history.                                       *)
SetLevel(source, new) ==
  /\ new # source_level[source]
  /\ Modify(source, new - source_level[source])
  /\ UNCHANGED current_research

(* start_research; civilisation and the year of the technology are left to *)
(* the choice of the step.                                                 *)
can_research_tech(t) ==
  /\ source_level[t] = 0
  /\ t # current_research
  /\ \A p \in Before[t] : source_level[p] > 0

start_research(t) ==
  /\ can_research_tech(t)
  /\ current_research' = t
  /\ UNCHANGED <<source_level, level, variants, inventions_count, allowed, enabled, rejected>>

(* country_tick_after_map, on the day the invested points reach the cost:  *)
(* unlock_technology.                                                      *)
CompleteResearch ==
  /\ current_research # NoTechnology
  /\ Modify(current_research, 1)
  /\ current_research' = NoTechnology

UnlocksInit ==
  /\ source_level = [s \in Technology \cup Invention |-> 0]
  /\ level = [f \in Feature |-> IF f \in StartsUnlocked THEN 1 ELSE 0]
  /\ variants = <<>>
  /\ inventions_count = 0
  /\ allowed = MostPermissive(StartsUnlocked \cap Regiment)
  /\ enabled = {OutputGood[b] : b \in StartsUnlocked \cap Building}
  /\ current_research = NoTechnology
  /\ rejected = FALSE

UnlocksNext ==
  \/ \E t \in Technology, l \in Levels :
       current_research = NoTechnology /\ SetLevel(t, l)   \* history is applied before the game runs
  \/ \E i \in Invention, l \in 0 .. 1 : current_research = NoTechnology /\ SetLevel(i, l)
  \/ \E t \in Technology : start_research(t)
  \/ CompleteResearch

UnlocksSpec == UnlocksInit /\ [][UnlocksNext]_unlocksVars

-----------------------------------------------------------------------------
Reasons(f) ==
  MapThenSumSet(LAMBDA s : source_level[s], {s \in DOMAIN Activates : f \in Activates[s]})
  + (IF f \in StartsUnlocked THEN 1 ELSE 0)

VariantReasons(v) ==
  MapThenSumSet(LAMBDA t : source_level[t], {t \in Technology : UnitVariant[t] = v})

(* What is kept incrementally is what a count from scratch gives, however  *)
(* levels went up and down: every feature has as many levels as unlocked   *)
(* sources give it, though sources share features; the variant vector ends *)
(* at the best variant; regiments may be raised from the cultures that the *)
(* most permissive unlocked type allows; a good some unlocked building     *)
(* makes is available; and no change is ever refused.                      *)
UnlocksAgree ==
  /\ \A f \in Feature : level[f] = Reasons(f)
  /\ \A v \in DOMAIN variants : variants[v] = VariantReasons(v)
  /\ \A t \in Technology : source_level[t] > 0 => UnitVariant[t] <= Len(variants)
  /\ variants # <<>> => Last(variants) > 0
  /\ inventions_count = Cardinality({i \in Invention : source_level[i] > 0})
  /\ allowed = MostPermissive(Unlocked(level) \cap Regiment)
  /\ {OutputGood[b] : b \in Unlocked(level) \cap Building} \subseteq enabled
  /\ ~rejected
=============================================================================

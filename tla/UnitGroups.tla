----------------------------- MODULE UnitGroups -----------------------------
(***************************************************************************)
(* Armies, navies and their leaders (military/UnitInstanceGroup.cpp), with *)
(* the lists that countries and provinces keep of them.                    *)
(*                                                                         *)
(* Each fact is kept twice: a group knows its country, its location and    *)
(* its leader; the country and the province have lists of groups, and the  *)
(* leader knows the group it leads.  A list is a function that counts how  *)
(* often a group is in it.                                                 *)
(***************************************************************************)
EXTENDS Integers

CONSTANTS
  Group,
  Leader,
  Power,          \* the countries
  Place,          \* the provinces
  Branch,         \* of every group and every leader
  NoOne           \* stands for the null pointers

ASSUME UnitAssumption == Group \cap Leader = {} /\ NoOne \notin Group \cup Leader \cup Power \cup Place

VARIABLES
  country,        \* of every group, and of every leader; NoOne before it is made
  location,       \* of every group
  leader,         \* of every group
  leads,          \* the group of every leader
  groups_of,      \* the lists of the countries: how often each group is in each
  stationed,      \* the lists of the provinces
  moved           \* history: the groups that have changed their location

unitVars == <<country, location, leader, leads, groups_of, stationed, moved>>

Listed(list, at, g) == [list EXCEPT ![at][g] = @ + 1]

(* remove_unit_instance_group: nothing happens but an error when the group *)
(* is not in the list.                                                     *)
Unlisted(list, at, g) == [list EXCEPT ![at][g] = IF @ = 0 THEN 0 ELSE @ - 1]

-----------------------------------------------------------------------------
(* generate_leader *)
generate_leader(l, c) ==
  /\ country[l] = NoOne
  /\ country' = [country EXCEPT ![l] = c]
  /\ UNCHANGED <<location, leader, leads, groups_of, stationed, moved>>

(* Mutant of Led: the group that loses its leader is not told. *)
LedUnasked(g, l) == [leader EXCEPT ![g] = l]

(* What set_leader makes of the groups' leaders: the one that had the new  *)
(* leader loses it.                                                        *)
Led(g, l) ==
  [h \in Group |-> IF h = g THEN l
                   ELSE IF l # NoOne /\ h = leads[l] THEN NoOne ELSE leader[h]]

(* What it makes of the leaders' groups. *)
Leads(g, l) ==
  [m \in Leader |-> IF m = l THEN g
                    ELSE IF m = leader[g] /\ leads[m] = g THEN NoOne ELSE leads[m]]

MayLead(g, l) == Branch[l] = Branch[g] /\ country[l] = country[g]

(* set_leader.  A leader that does not fit is refused after the old one    *)
(* has gone.                                                               *)
set_leader(g, l) ==
  /\ country[g] # NoOne /\ (l # NoOne => country[l] # NoOne)
  /\ leader[g] # l
  /\ LET new == IF l # NoOne /\ MayLead(g, l) THEN l ELSE NoOne
     IN  leader' = Led(g, new) /\ leads' = Leads(g, new)
  /\ UNCHANGED <<country, location, groups_of, stationed, moved>>

(* generate_unit_instance_group: the constructor enters the group in the   *)
(* list of its country, but not of its province.  The leader, if any, is   *)
(* one of the country's.                                                   *)
generate_unit_instance_group(g, c, p, l) ==
  /\ country[g] = NoOne
  /\ l # NoOne => country[l] = c /\ Branch[l] = Branch[g]
  /\ country' = [country EXCEPT ![g] = c]
  /\ location' = [location EXCEPT ![g] = p]
  /\ groups_of' = Listed(groups_of, c, g)
  /\ leader' = Led(g, l) /\ leads' = Leads(g, l)
  /\ UNCHANGED <<stationed, moved>>

set_location(g, p) ==
  /\ country[g] # NoOne /\ location[g] # p
  /\ stationed' = Listed(Unlisted(stationed, location[g], g), p, g)
  /\ location' = [location EXCEPT ![g] = p]
  /\ moved' = moved \cup {g}
  /\ UNCHANGED <<country, leader, leads, groups_of>>

(* The leader stays, although it is the old country's. *)
set_country(g, c) ==
  /\ country[g] # NoOne /\ country[g] # c
  /\ groups_of' = Listed(Unlisted(groups_of, country[g], g), c, g)
  /\ country' = [country EXCEPT ![g] = c]
  /\ UNCHANGED <<location, leader, leads, stationed, moved>>

-----------------------------------------------------------------------------
UnitsInit ==
  /\ country = [x \in Group \cup Leader |-> NoOne]
  /\ location = [g \in Group |-> NoOne]
  /\ leader = [g \in Group |-> NoOne]
  /\ leads = [l \in Leader |-> NoOne]
  /\ groups_of = [c \in Power |-> [g \in Group |-> 0]]
  /\ stationed = [p \in Place |-> [g \in Group |-> 0]]
  /\ moved = {}

UnitsNext ==
  \/ \E l \in Leader, c \in Power : generate_leader(l, c)
  \/ \E g \in Group, c \in Power, p \in Place, l \in Leader \cup {NoOne} :
       generate_unit_instance_group(g, c, p, l)
  \/ \E g \in Group, l \in Leader \cup {NoOne} : set_leader(g, l)
  \/ \E g \in Group, p \in Place : set_location(g, p)
  \/ \E g \in Group, c \in Power : set_country(g, c)

UnitsSpec == UnitsInit /\ [][UnitsNext]_unitVars

-----------------------------------------------------------------------------
UnitsTypeOK ==
  /\ country \in [Group \cup Leader -> Power \cup {NoOne}]
  /\ location \in [Group -> Place \cup {NoOne}]
  /\ leader \in [Group -> Leader \cup {NoOne}]
  /\ leads \in [Leader -> Group \cup {NoOne}]
  /\ groups_of \in [Power -> [Group -> Nat]]
  /\ stationed \in [Place -> [Group -> Nat]]
  /\ moved \subseteq Group

(* A group that is not there yet has nothing. *)
Unmade ==
  /\ \A g \in Group : country[g] = NoOne <=> location[g] = NoOne
  /\ \A g \in Group : country[g] = NoOne => leader[g] = NoOne /\ g \notin moved

(* A leader leads the group that has it for its leader, and no other. *)
LeadersAgree ==
  \A g \in Group, l \in Leader : leader[g] = l <=> leads[l] = g

(* A group is once in the list of its country and in no other. *)
CountriesAgree ==
  \A g \in Group, c \in Power : groups_of[c][g] = IF country[g] = c THEN 1 ELSE 0

(* Once it has moved, it is once in the list of its province; until then   *)
(* it is in none.                                                          *)
PlacesAgree ==
  \A g \in Group, p \in Place :
    stationed[p][g] = IF g \in moved /\ location[g] = p THEN 1 ELSE 0

(* The books of groups, leaders, countries and provinces agree whoever     *)
(* takes a leader from whom, and whichever assignments are refused half    *)
(* way.                                                                    *)
UnitBooksAgree == LeadersAgree /\ CountriesAgree /\ PlacesAgree
=============================================================================

------------------------- MODULE ProvinceOwnership -------------------------
(***************************************************************************)
(* Who owns, controls and has cores on what: every fact is kept twice, by  *)
(* the province (map/ProvinceInstance.cpp) and by the country              *)
(* (country/CountryInstance.cpp), and a state (map/State.cpp) belongs to   *)
(* the country its capital belonged to when it was last updated.           *)
(*                                                                         *)
(* A state is named by its capital, the first province of its region with  *)
(* its owner and colonial status; provinces are numbered in region order.  *)
(***************************************************************************)
EXTENDS Integers

CONSTANTS
  Province,
  Country,
  Nobody,          \* the null pointer
  RegionOf, ColonyOf,
  Rules            \* country_to_report_economy_t, one of which the game is played with

ASSUME OwnershipAssumption ==
  /\ Province \subseteq Nat
  /\ Nobody \notin Country
  /\ Rules \subseteq {"Owner", "Controller", "NeitherWhenOccupied"}

VARIABLES
  rule,
  owner, controller, cores,   \* of every province
  report,                     \* country_to_report_economy of every province
  owned, controlled, core_provinces,   \* of every country
  capitals,                   \* the states that were generated
  previous,                   \* previous_country_ptr of every state
  states,                     \* of every country
  refused                     \* whether an add or a remove found nothing to do

provinceBooks == <<owner, controller, cores, report>>
stateBooks == <<capitals, previous, states>>
ownershipVars == <<rule, provinceBooks, owned, controlled, core_provinces, stateBooks, refused>>

Owners == Country \cup {Nobody}

(* remove_* from the books of one country and add_* to those of another. *)
Moved(book, from, to, item) ==
  [c \in Country |-> IF c = to THEN book[c] \cup {item}
                     ELSE IF c = from THEN book[c] \ {item} ELSE book[c]]

MoveRefused(book, from, to, item) ==
  \/ from \in Country /\ item \notin book[from]
  \/ to \in Country /\ item \in book[to]

(* country_to_report_economy when the owner of p becomes o. *)
ReportOfOwner(p, o) ==
  CASE rule = "Owner" -> o
    [] rule = "NeitherWhenOccupied" -> IF o # controller[p] THEN Nobody ELSE o
    [] OTHER -> report[p]

(* And when its controller becomes k. *)
ReportOfController(p, k) ==
  CASE rule = "Controller" -> k
    [] rule = "NeitherWhenOccupied" -> IF owner[p] # k THEN Nobody ELSE owner[p]
    [] OTHER -> report[p]

set_owner(p, o) ==
  /\ owner[p] # o
  /\ owned' = Moved(owned, owner[p], o, p)
  /\ refused' = (refused \/ MoveRefused(owned, owner[p], o, p))
  /\ report' = [report EXCEPT ![p] = ReportOfOwner(p, o)]
  /\ owner' = [owner EXCEPT ![p] = o]
  /\ UNCHANGED <<rule, controller, cores, controlled, core_provinces, stateBooks>>

(* Nobody stands for the owner. *)
set_controller(p, new_controller) ==
  LET k == IF new_controller = Nobody THEN owner[p] ELSE new_controller
  IN  /\ controller[p] # k
      /\ controlled' = Moved(controlled, controller[p], k, p)
      /\ refused' = (refused \/ MoveRefused(controlled, controller[p], k, p))
      /\ controller' = [controller EXCEPT ![p] = k]
      /\ report' = [report EXCEPT ![p] = ReportOfController(p, k)]
      /\ UNCHANGED <<rule, owner, cores, owned, core_provinces, stateBooks>>

add_core(p, c) ==
  /\ c \notin cores[p]
  /\ cores' = [cores EXCEPT ![p] = @ \cup {c}]
  /\ refused' = (refused \/ p \in core_provinces[c])
  /\ core_provinces' = [core_provinces EXCEPT ![c] = @ \cup {p}]
  /\ UNCHANGED <<rule, owner, controller, report, owned, controlled, stateBooks>>

remove_core(p, c) ==
  /\ c \in cores[p]
  /\ cores' = [cores EXCEPT ![p] = @ \ {c}]
  /\ refused' = (refused \/ p \notin core_provinces[c])
  /\ core_provinces' = [core_provinces EXCEPT ![c] = @ \ {p}]
  /\ UNCHANGED <<rule, owner, controller, report, owned, controlled, stateBooks>>

(* provinces_belong_in_same_state *)
Together(p, q) ==
  RegionOf[p] = RegionOf[q] /\ owner[p] = owner[q] /\ ColonyOf[p] = ColonyOf[q]

(* generate_states, once, when the bookmark is loaded: the constructor of  *)
(* a state enters it with its country.                                     *)
generate_states ==
  /\ capitals = {}
  /\ capitals' = {p \in Province : \A q \in Province : Together(p, q) => p <= q}
  /\ previous' = [p \in Province |-> IF p \in capitals' THEN owner[p] ELSE Nobody]
  /\ states' = [c \in Country |-> states[c] \cup {s \in capitals' : owner[s] = c}]
  /\ refused' = (refused \/ \E c \in Country : \E s \in capitals' : owner[s] = c /\ s \in states[c])
  /\ UNCHANGED <<rule, provinceBooks, owned, controlled, core_provinces>>

(* Mutant of Left: a state leaves only the country it goes away from for nobody. *)
LeftForNobody(c) == {s \in capitals : previous[s] = c /\ owner[s] = Nobody}

(* The states a country loses in an update. *)
Left(c) == {s \in capitals : previous[s] = c /\ owner[s] # c}

(* State::update_gamestate of every state. *)
UpdateStates ==
  /\ states' = [c \in Country |-> (states[c] \ Left(c)) \cup {s \in capitals : owner[s] = c /\ previous[s] # c}]
  /\ previous' = [s \in Province |-> IF s \in capitals THEN owner[s] ELSE previous[s]]
  /\ refused' = (refused \/ \E c \in Country :
       \/ ~ Left(c) \subseteq states[c]
       \/ \E s \in capitals : owner[s] = c /\ previous[s] # c /\ s \in states[c])
  /\ UNCHANGED <<rule, provinceBooks, owned, controlled, core_provinces, capitals>>

OwnershipInit ==
  /\ rule \in Rules
  /\ owner = [p \in Province |-> Nobody]
  /\ controller = [p \in Province |-> Nobody]
  /\ cores = [p \in Province |-> {}]
  /\ report = [p \in Province |-> Nobody]
  /\ owned = [c \in Country |-> {}]
  /\ controlled = [c \in Country |-> {}]
  /\ core_provinces = [c \in Country |-> {}]
  /\ capitals = {}
  /\ previous = [p \in Province |-> Nobody]
  /\ states = [c \in Country |-> {}]
  /\ refused = FALSE

OwnershipNext ==
  \/ \E p \in Province, o \in Owners : set_owner(p, o) \/ set_controller(p, o)
  \/ \E p \in Province, c \in Country : add_core(p, c) \/ remove_core(p, c)
  \/ generate_states
  \/ UpdateStates

OwnershipSpec == OwnershipInit /\ [][OwnershipNext]_ownershipVars

-----------------------------------------------------------------------------
(* The country the rule names for a province: the economy of an occupied   *)
(* province is reported to nobody, to its owner or to its occupant.        *)
Reported(o, k) ==
  CASE rule = "Owner" -> o
    [] rule = "Controller" -> k
    [] rule = "NeitherWhenOccupied" -> IF o = k THEN o ELSE Nobody

(* Both sides of every fact agree whatever the order of transfers,         *)
(* occupations and updates: a province is in the books of its owner, its   *)
(* controller and the countries with a core, and in no other; its economy  *)
(* is reported to the country the rule names; a state is in the books of   *)
(* one country at most, the one it remembers; and no book is ever asked    *)
(* to add what it has or to remove what it lacks.                          *)
MapBooksAgree ==
  /\ \A p \in Province, c \in Country :
       /\ p \in owned[c] <=> owner[p] = c
       /\ p \in controlled[c] <=> controller[p] = c
       /\ p \in core_provinces[c] <=> c \in cores[p]
  /\ \A p \in Province : report[p] = Reported(owner[p], controller[p])
  /\ \A s \in Province, c \in Country : s \in states[c] <=> s \in capitals /\ previous[s] = c
  /\ ~refused
=============================================================================

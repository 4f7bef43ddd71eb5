------------------------------- MODULE MCBooks -------------------------------
(* The books a country, its provinces and its armies keep, the ways they   *)
(* search, and the schedules a World builds and runs, each in an instance  *)
(* of its own: part says which of them this behaviour is about, and the    *)
(* others keep still.                                                      *)
EXTENDS ProvinceOwnership, CountryUnlocks, GreatPowers, UnitGroups, Pathfinding, Diplomacy, MapDefinition,
        MCSystemScheduler

VARIABLE part

(* Ownership: two provinces of one region, two countries, every rule. *)
TwoProvinces == {1, 2}
TwoCountries == {"FRA", "PRU"}
OneRegion == [p \in TwoProvinces |-> "Alsace"]
AllStates == [p \in TwoProvinces |-> "STATE"]
AllRules == {"Owner", "Controller", "NeitherWhenOccupied"}

(* Unlocks: an area of three technologies and two inventions that share    *)
(* features.                                                               *)
Technologies == {"post_napoleonic", "breech_loaded", "machine_guns"}
Inventions == {"gas_attack_invention", "guards_doctrine"}
Features == {"irregular", "infantry", "guard", "arms_factory", "gas_attack"}
Activated == [s \in Technologies \cup Inventions |->
  CASE s = "post_napoleonic" -> {"infantry"}
    [] s = "breech_loaded" -> {"infantry", "arms_factory"}
    [] s = "machine_guns" -> {"guard", "arms_factory"}
    [] s = "guards_doctrine" -> {"guard"}
    [] s = "gas_attack_invention" -> {"gas_attack", "guard"}]
Variants == [t \in Technologies |->
  CASE t = "post_napoleonic" -> 1 [] t = "machine_guns" -> 3 [] OTHER -> 0]
AtFirst == {"irregular"}
Cultures == [r \in {"irregular", "infantry", "guard"} |->
  CASE r = "irregular" -> 2 [] r = "infantry" -> 1 [] OTHER -> 0]
Factories == [b \in {"arms_factory"} |-> "small_arms"]
AreaOrder == [t \in Technologies |->
  CASE t = "post_napoleonic" -> {} [] t = "breech_loaded" -> {"post_napoleonic"} [] OTHER -> {"breech_loaded"}]
HistoryLevels == 0 .. 2

(* Powers: four countries of which any two or more exist, two great ranks   *)
(* and one secondary.                                                      *)
FourCountries == {"ENG", "FRA", "PRU", "SIA"}
(* Nothing tells the four apart but their statuses, so that it matters how *)
(* many are civilised at first and not which.                              *)
Civilised(countries) == country_status = [c \in Contender |-> IF c \in countries THEN "civilised" ELSE "uncivilised"]
NoneOneThreeOrAll ==
  Civilised({}) \/ Civilised({"ENG"}) \/ Civilised({"ENG", "FRA", "PRU"}) \/ Civilised(FourCountries)

(* Two armies, a general and an admiral of two countries. *)
Branches == [x \in {"army", "corps", "general", "admiral"} |->
  IF x = "admiral" THEN "naval" ELSE "land"]

(* Diplomacy: three countries; wars, spheres, or a table of the others.     *)
ThreeNations == 1 .. 3
TopicSets ==
  {{"at_war", "military_access"}, {"opinions"}, {"relations"}, {"alliances"}, {"war_subsidies"},
   {"command_units"}, {"vision"}, {"influence"}, {"influence_priority"}, {"discredits"}, {"embassy_bans"}}

(* The map: three provinces on a strip of three pixels, some of none, or a *)
(* square of four, of which the first is of the first province.            *)
ThreeTiles == 1 .. 3
Strip == {<<x, 0>> : x \in 0 .. 2}
NoProvinces == [pixel \in Strip |-> 0]
Squares == {square \in [(0 .. 1) \X (0 .. 1) -> ThreeTiles] : square[<<0, 0>>] = 1}
SmallMaps == [Strip -> 0 .. 3] \cup Squares
UpToTwo == {<<>>} \cup {<<p>> : p \in ThreeTiles} \cup (ThreeTiles \X ThreeTiles)

(* A street of three points and a fourth beside the middle one. *)
FourPoints == 1 .. 4
Street == [a \in FourPoints |-> [b \in FourPoints |->
  IF a = b THEN 0 ELSE IF 2 \in {a, b} THEN 1 ELSE 2]]

(* A search over any undirected graph of the four in which the ends of the *)
(* street are not neighbors, all of one weight or                          *)
(* one end of the street heavy, where a detour may be cheaper; and calls   *)
(* that change a map of three, with room for none or one more and too      *)
(* little room for its searches.                                           *)
Edges == {<<1, 2>>, <<1, 4>>, <<2, 3>>, <<2, 4>>, <<3, 4>>}
AnyGraph ==
  \E streets \in SUBSET Edges, heavy \in {0, 4} :
    LET links == streets \cup {<<e[2], e[1]>> : e \in streets}
    IN  /\ segments = links
        /\ points = [i \in FourPoints |-> [NewPoint(i, IF i = heavy THEN 3 ELSE 1)
                                             EXCEPT !.neighbors = {b \in FourPoints : <<i, b>> \in links}]]
        /\ capacity = 4 /\ search = [s \in Searcher |-> NewSearch(4)]
        /\ solve = Nothing /\ calls = MaxCalls - 1
ThreePoints ==
  /\ points = [i \in 1 .. 3 |-> NewPoint(i, 1)] /\ segments = {}
  /\ capacity \in {3, 4} /\ search = [s \in Searcher |-> NewSearch(2)]
  /\ solve = Nothing /\ calls = 0

-----------------------------------------------------------------------------
(* The choices a part starts from are made for that part only. *)
BooksInit ==
  /\ part \in {"ownership", "unlocks", "powers", "units", "paths", "diplomacy", "map", "build", "run"}
  /\ (part = "ownership" \/ rule = "Owner") /\ OwnershipInit
  /\ UnlocksInit /\ UnitsInit
  /\ (part = "diplomacy" \/ topic = {"opinions"}) /\ DiplomacyInit
  /\ (part = "map" \/ image = NoProvinces) /\ MapInit
  /\ IF part = "powers" THEN PowersInit /\ NoneOneThreeOrAll
     ELSE /\ existing = {} /\ country_status = [c \in Contender |-> "civilised"] /\ total_rank = [c \in Contender |-> 0]
          /\ grace = [c \in Contender |-> -1] /\ great_powers = <<>> /\ secondary_powers = <<>>
  /\ IF part = "paths" THEN AnyGraph \/ ThreePoints ELSE PathInit
  /\ (part = "build" \/ OneProgram) /\ SchedulerInit
  /\ (part = "run" \/ OneScenario) /\ StageInit

OthersStill ==
  /\ part # "ownership" => UNCHANGED ownershipVars
  /\ part # "unlocks" => UNCHANGED unlocksVars
  /\ part # "powers" => UNCHANGED powersVars
  /\ part # "units" => UNCHANGED unitVars
  /\ part # "paths" => UNCHANGED pathVars
  /\ part # "diplomacy" => UNCHANGED diplomacyVars
  /\ part # "map" => UNCHANGED mapVars
  /\ part # "build" => UNCHANGED schedulerVars
  /\ part # "run" => UNCHANGED stageVars

BooksNext ==
  /\ UNCHANGED part
  /\ \/ part = "ownership" /\ OwnershipNext /\ OthersStill
     \/ part = "unlocks" /\ UnlocksNext /\ OthersStill
     \/ part = "powers" /\ PowersNext /\ OthersStill
     \/ part = "units" /\ UnitsNext /\ OthersStill
     \/ part = "paths" /\ PathNext /\ OthersStill
     \/ part = "diplomacy" /\ DiplomacyNext /\ OthersStill
     \/ part = "map" /\ MapNext /\ OthersStill
     \/ part = "build" /\ SchedulerNext /\ OthersStill
     \/ part = "run" /\ StageNext /\ OthersStill

booksVars ==
  <<part, ownershipVars, unlocksVars, powersVars, unitVars, pathVars, diplomacyVars, mapVars, schedulerVars,
    stageVars>>

BooksSpec == BooksInit /\ [][BooksNext]_booksVars

(* The state of the part that moves. *)
BooksView ==
  <<part, CASE part = "ownership" -> ownershipVars [] part = "unlocks" -> unlocksVars
            [] part = "powers" -> powersVars [] part = "units" -> unitVars [] part = "paths" -> pathVars
            [] part = "diplomacy" -> diplomacyVars [] part = "map" -> mapVars
            [] part = "build" -> ScheduleView [] part = "run" -> stageVars>>
=============================================================================

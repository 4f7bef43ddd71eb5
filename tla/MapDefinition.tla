--------------------------- MODULE MapDefinition ---------------------------
(***************************************************************************)
(* How the map is put together when it is loaded (map/MapDefinition.cpp):  *)
(* water provinces, regions, the adjacencies between provinces whose       *)
(* pixels touch, and the special adjacencies of a file, with the two maps  *)
(* that paths are searched in.  Reading the images and files is left out:  *)
(* an image is a function from pixels to province numbers, 0 for none.     *)
(***************************************************************************)
EXTENDS Integers, Sequences, FiniteSets, SequencesExt

CONSTANTS
  Tile,          \* the numbers of the provinces
  Images,        \* of every pixel <<x, y>> of a map its province
  RegionName,
  RegionLists,   \* the provinces a region may be given
  RegionImage,   \* bound: regions are added on this image only
  CanalData,     \* the data of a line; 0 is the default
  MaxLines       \* bound on the lines of the adjacencies file and on the regions

ASSUME MapAssumption == Tile \subseteq Nat \ {0} /\ MaxLines \in Nat

VARIABLES
  image,
  stage,           \* "water", "regions", "adjacencies" or "loaded"
  water,           \* the water provinces
  geography,       \* what generating and adding adjacencies change (see Blank)
  regions,         \* of every region added its provinces, and whether it is meta
  region_of,       \* of every province: its region, or "none"
  added            \* the lines or regions added so far

mapVars == <<image, stage, water, geography, regions, region_of, added>>

(* adjacent: the list of every province; coastal: the land provinces at    *)
(* the sea; sea_points: the points of path_map_sea (path_map_land has all  *)
(* provinces); links: the connected pairs of either map; disabled: the     *)
(* points of the land map an army may not enter.                           *)
Blank ==
  [adjacent |-> [p \in Tile |-> <<>>], coastal |-> {}, sea_points |-> {},
   land_links |-> {}, sea_links |-> {}, disabled |-> {}]

-----------------------------------------------------------------------------
(* Water and regions.                                                      *)

set_water_province_list ==
  /\ stage = "water"
  /\ \E list \in SUBSET Tile :
       water' = list /\ geography' = [geography EXCEPT !.sea_points = list]
  /\ stage' = IF image = RegionImage THEN "regions" ELSE "adjacencies"
  /\ UNCHANGED <<image, regions, region_of, added>>

(* The provinces a region takes: the first region wins. *)
Members(list) == {p \in ToSet(list) : region_of[p] = "none"}

(* A region of nothing or with water is meta: its provinces are not told,  *)
(* and may be in others.                                                   *)
IsMeta(list) == list = <<>> \/ \E i \in DOMAIN list : list[i] \in water

add_region ==
  /\ stage = "regions" /\ added < MaxLines /\ added' = added + 1
  /\ \E name \in RegionName \ {r.name : r \in regions}, list \in RegionLists :
       /\ regions' = regions \cup {[name |-> name, provinces |-> Members(list), is_meta |-> IsMeta(list)]}
       /\ region_of' = IF IsMeta(list) THEN region_of
                       ELSE [p \in Tile |-> IF p \in Members(list) THEN name ELSE region_of[p]]
  /\ UNCHANGED <<image, stage, water, geography>>

-----------------------------------------------------------------------------
(* Adjacencies.                                                            *)

Adjacency(to, type, through, data) == [to |-> to, type |-> type, through |-> through, data |-> data]

EntryOf(m, a, b) == SelectInSeq(m.adjacent[a], LAMBDA adj : adj.to = b)

is_adjacent_to(m, a, b) == EntryOf(m, a, b) # 0

(* connect_points: nothing but an error when a point is missing. *)
Connect(links, points, a, b) ==
  IF a # b /\ {a, b} \subseteq points THEN links \cup {<<a, b>>, <<b, a>>} ELSE links

ConnectLand(m, a, b) == [m EXCEPT !.land_links = Connect(@, Tile, a, b)]
ConnectSea(m, a, b) == [m EXCEPT !.sea_links = Connect(@, m.sea_points, a, b)]

(* Sea points are closed to armies: the first of the two that is water. *)
Close(m, a, b) == [m EXCEPT !.disabled = @ \cup {IF a \in water THEN a ELSE b}]

(* A coast: the land province is marked, and gets a point in the sea map. *)
Shore(m, land) == [m EXCEPT !.coastal = @ \cup {land}, !.sea_points = @ \cup {land}]

TypeBetween(a, b) ==
  IF (a \in water) # (b \in water) THEN "COASTAL" ELSE IF a \in water THEN "WATER" ELSE "LAND"

Joined(m, a, b) ==
  CASE TypeBetween(a, b) = "COASTAL" ->
         Close(ConnectLand(ConnectSea(Shore(m, IF a \in water THEN b ELSE a), a, b), a, b), a, b)
    [] TypeBetween(a, b) = "WATER" -> Close(ConnectLand(ConnectSea(m, a, b), a, b), a, b)
    [] OTHER -> ConnectLand(m, a, b)

(* Mutant of add_standard_adjacency: told to one of the two. *)
add_one_way(m, a, b) ==
  IF a = b \/ is_adjacent_to(m, a, b) THEN m
  ELSE [Joined(m, a, b) EXCEPT !.adjacent[a] = Append(@, Adjacency(b, TypeBetween(a, b), 0, 0))]

(* Called for all pairs of pixels that touch. *)
add_standard_adjacency(m, a, b) ==
  IF a = b \/ is_adjacent_to(m, a, b) \/ is_adjacent_to(m, b, a) THEN m
  ELSE [Joined(m, a, b) EXCEPT !.adjacent[a] = Append(@, Adjacency(b, TypeBetween(a, b), 0, 0)),
                               !.adjacent[b] = Append(@, Adjacency(a, TypeBetween(a, b), 0, 0))]

Width == Cardinality({pixel[1] : pixel \in DOMAIN image})
Height == Cardinality({pixel[2] : pixel \in DOMAIN image})

At(x, y) == IF <<x, y>> \in DOMAIN image THEN image[<<x, y>>] ELSE 0

(* The pairs of provinces in the order their pixels are compared: row by   *)
(* row, each with the one to its right, around the map, and the one below. *)
PixelPairs ==
  LET pair(i) == LET x == (i \div 2) % Width
                     y == (i \div 2) \div Width
                 IN  IF i % 2 = 0 THEN <<At(x, y), At((x + 1) % Width, y)>> ELSE <<At(x, y), At(x, y + 1)>>
  IN  SelectSeq([i \in 1 .. 2 * Width * Height |-> pair(i - 1)], LAMBDA p : 0 \notin {p[1], p[2]})

_generate_standard_province_adjacencies ==
  /\ stage \in {"regions", "adjacencies"} /\ stage' = "loaded"
  /\ geography' = FoldLeft(LAMBDA m, p : add_standard_adjacency(m, p[1], p[2]), geography, PixelPairs)
  /\ UNCHANGED <<image, water, regions, region_of, added>>

-----------------------------------------------------------------------------
(* Special adjacencies: the types a line of the file may have.             *)

LineTypes == {"LAND", "STRAIT", "IMPASSABLE", "CANAL"}

EndpointsFit(a, b, type) ==
  CASE type \in {"LAND", "STRAIT"} -> {a, b} \cap water = {}
    [] type = "CANAL" -> {a, b} \subseteq water
    [] OTHER -> TRUE

(* A strait goes through water, a canal through land; 0 is no province. *)
ThroughFits(type, through) ==
  CASE type = "STRAIT" -> through \in water
    [] type = "CANAL" -> through \in Tile \ water
    [] OTHER -> TRUE

(* What both branches connect once the entry is there. *)
Opened(m, a, b) ==
  LET joined == IF {a, b} \subseteq water THEN ConnectSea(m, a, b) ELSE ConnectLand(m, a, b)
  IN  IF {a, b} \cap water # {} THEN Close(ConnectLand(joined, a, b), a, b) ELSE joined

(* Whether an entry of one type may become one of another. *)
Converts(old, type) ==
  \/ type = "IMPASSABLE"
  \/ type = "STRAIT" /\ old \in {"STRAIT", "LAND"}
  \/ type = "CANAL" /\ old \in {"CANAL", "WATER"}

(* One direction of a special adjacency. *)
AddOneWay(m, a, adjacency) ==
  LET b == adjacency.to
      i == EntryOf(m, a, b)
      old == m.adjacent[a][i].type
  IN  IF i = 0
      THEN IF adjacency.type = "IMPASSABLE" THEN m
           ELSE Opened([m EXCEPT !.adjacent[a] = Append(@, adjacency)], a, b)
      ELSE IF ~Converts(old, adjacency.type) \/ (old = adjacency.type /\ old = "IMPASSABLE") THEN m
      ELSE IF adjacency.type = "IMPASSABLE" /\ old \in {"WATER", "COASTAL"}
      THEN [m EXCEPT !.adjacent[a] = RemoveAt(@, i)]
      ELSE Opened([m EXCEPT !.adjacent[a][i] = adjacency], a, b)

add_special_adjacency(a, b, type, through, data) ==
  LET to(p) == Adjacency(p, type, IF type \in {"STRAIT", "CANAL"} THEN through ELSE 0, IF type = "CANAL" THEN data ELSE 0)
  IN  IF a # b /\ EndpointsFit(a, b, type) /\ ThroughFits(type, through)
      THEN AddOneWay(AddOneWay(geography, a, to(b)), b, to(a))
      ELSE geography

AddLine ==
  /\ stage = "loaded" /\ added < MaxLines /\ added' = added + 1
  /\ \E a, b \in Tile, type \in LineTypes, through \in Tile \cup {0}, data \in CanalData :
       geography' = add_special_adjacency(a, b, type, through, data)
  /\ UNCHANGED <<image, stage, water, regions, region_of>>

-----------------------------------------------------------------------------
MapInit ==
  /\ image \in Images /\ stage = "water" /\ water = {} /\ geography = Blank
  /\ regions = {} /\ region_of = [p \in Tile |-> "none"] /\ added = 0

MapNext == set_water_province_list \/ add_region \/ _generate_standard_province_adjacencies \/ AddLine

Touching(a, b) ==
  \E pixel \in DOMAIN image, step \in {<<1, 0>>, <<0, 1>>} :
    {a, b} = {image[pixel], At((pixel[1] + step[1]) % Width, pixel[2] + step[2])}

Adjacencies(p) == ToSet(geography.adjacent[p])

(* Whatever lies next to what, is water, and is said about it in the file: *)
(* adjacency is mutual, with the same type, way through and data on both   *)
(* sides, once for each neighbor, and fits what is water; provinces are    *)
(* adjacent because they touch or a line says so; the coastal provinces    *)
(* are the land provinces that touch water; and who may pass is connected  *)
(* both ways in the maps for paths, ships only through water, coasts and   *)
(* canals.                                                                 *)
AdjacenciesAgree ==
  stage = "loaded" =>
    /\ \A a \in Tile, b \in Tile :
         /\ Cardinality({i \in DOMAIN geography.adjacent[a] : geography.adjacent[a][i].to = b}) <= 1
         /\ added = 0 => (is_adjacent_to(geography, a, b) <=> a # b /\ Touching(a, b))
         /\ <<a, b>> \in geography.sea_links => {a, b} \cap water # {} /\ <<b, a>> \in geography.sea_links
    /\ \A a \in Tile : \A adj \in Adjacencies(a) :
         /\ adj.to # a /\ [adj EXCEPT !.to = a] \in Adjacencies(adj.to)
         /\ adj.type \notin {"STRAIT", "CANAL", "IMPASSABLE"} => adj.type = TypeBetween(a, adj.to)
         /\ adj.type \in {"STRAIT", "CANAL"} => ThroughFits(adj.type, adj.through) /\ EndpointsFit(a, adj.to, adj.type)
         /\ adj.type # "IMPASSABLE" => <<a, adj.to>> \in geography.land_links
         /\ adj.type \in {"WATER", "COASTAL", "CANAL"} => <<a, adj.to>> \in geography.sea_links
         /\ adj.type = "COASTAL" => {a, adj.to} \ water \subseteq geography.coastal
    /\ geography.coastal = {p \in Tile \ water : \E q \in water : Touching(p, q)}

(* A province knows the one region that has it, and every region that is   *)
(* not meta has land provinces that know it.                               *)
RegionsAgree ==
  /\ \A r \in regions : ~r.is_meta => \A p \in r.provinces : region_of[p] = r.name /\ p \notin water
  /\ \A p \in Tile : region_of[p] # "none" =>
       \E r \in regions : r.name = region_of[p] /\ p \in r.provinces /\ ~r.is_meta

(* Both books of the map definition. *)
MapDefined == AdjacenciesAgree /\ RegionsAgree
=============================================================================

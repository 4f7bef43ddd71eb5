----------------------------- MODULE MCEconomy -----------------------------
(* The data of the treasury, the operation and the artisan of a country,   *)
(* and each of them by itself.                                             *)
EXTENDS Treasury, Production, Artisans

(* The treasury: clerks and labourers, two goods in store, governments     *)
(* that spend on everything, that subsidise imports (selling or buying     *)
(* goods), and that only buy; pops that buy nothing, or part of it abroad, *)
(* for two uses and for three.                                             *)
TwoPops == {"clerks", "labourers"}
Bases == [k \in Kind |->
  CASE k = "administration" -> [clerks |-> 2, labourers |-> 0]
    [] k = "education" -> [clerks |-> 1, labourers |-> 0]
    [] k = "military" -> [clerks |-> 0, labourers |-> 1]
    [] k = "pensions" -> [clerks |-> 1, labourers |-> 1]
    [] k = "unemployment" -> [clerks |-> 2, labourers |-> 2]]
People(n, out) == [size |-> n, unemployed |-> out]
SomePopulations ==
  {[clerks |-> People(4, 0), labourers |-> People(4, 4)],
   [clerks |-> People(5, 1), labourers |-> People(7, 2)]}
TwoStored == 1 .. 2
Plan(ordinary, social, tariff, selling, cutoff) ==
  [slider |-> [c \in BudgetCategory \ {"subsidies"} |-> IF c = "social" THEN social ELSE ordinary],
   tariff |-> tariff, selling |-> [g \in TwoStored |-> selling], cutoff |-> [g \in TwoStored |-> g * cutoff]]
SomePlans ==
  {Plan(4, 4, 2, FALSE, 4), Plan(2, 3, -2, FALSE, 1), Plan(0, 3, -2, TRUE, 0), Plan(0, 0, 0, FALSE, 3)}
StoredPrices == [g \in TwoStored |-> 2 * g + 1]
Purchase(money, imported, parts) == [money |-> money, imported |-> imported, parts |-> parts]
SomePurchases ==
  {[p \in TwoPops |-> Purchase(0, 0, <<>>)],
   [clerks |-> Purchase(4, 3, <<1, 2>>), labourers |-> Purchase(6, 4, <<2, 1, 2>>)]}

(* The operation: pops of farmers, labourers, serfs and slaves, one that   *)
(* does not work there, and a pop of landowners.                           *)
FiveLaborers == 1 .. 5
FarmTypes == <<"farmer", "labourer", "serf", "slave", "clergy">>
FarmJobs == [t \in {"farmer", "labourer", "serf", "slave"} |->
  [effect |-> IF t = "labourer" THEN "output" ELSE "throughput",
   multiplier |-> IF t = "labourer" THEN 2 * One ELSE One, amount |-> One \div 2]]
OneAristocracy == {"aristocrats"}
AristocratJob == [effect |-> "output", multiplier |-> One]
FarmSizes == {<<2, 2, 2, 0, 1>>, <<4, 2, 1, 1, 0>>, <<0, 0, 0, 3, 1>>, <<1, 3, 0, 2, 0>>}
SomeAristocrats == {[aristocrats |-> n] : n \in {0, 1}}
OneToTwo == {0, One, 2 * One}
WageBases == {[t \in {"farmer", "labourer", "serf"} |->
                 CASE t = "farmer" -> w[1] [] t = "labourer" -> w[2] [] OTHER -> 0]
                : w \in {<<0, 0>>, <<2, 1>>, <<4, 6>>, <<15, 27>>}}
SomeRevenues == {0, 1, 5, 9, 12, 30}

(* The artisans: a clipper of timber, fabric and a little coal; cement,    *)
(* which takes coal; and a craft that consumes some of what it makes.      *)
FourWares == 1 .. 4
WarePrices == <<2, 3, 5, 6>>
Crafts == {"clippers", "cement", "breeding"}
Outputs == [c \in Crafts |-> CASE c = "clippers" -> 4 [] c = "cement" -> 3 [] OTHER -> 1]
OutputQuantities == [c \in Crafts |-> CASE c = "clippers" -> 3 [] c = "cement" -> 5 [] OTHER -> 9]
InputQuantities == [c \in Crafts |->
  CASE c = "clippers" -> <<8, 6, 1, 0>> [] c = "cement" -> <<5, 0, 0, 0>> [] OTHER -> <<3, 7, 0, 0>>]
SomeStocks == {<<0, 0, 0, 0>>, <<4, 2, 0, 1>>, <<3, 2, 0, 0>>, <<2, 9, 3, 0>>}
OwnNeeds == <<0, 0, 2, 1>>

-----------------------------------------------------------------------------
(* How each starts when another is looked at. *)
OnePlan == CHOOSE x \in Plans : TRUE
OnePopulation == CHOOSE x \in Populations : TRUE
OneStartCash == CHOOSE x \in StartCashes : TRUE
OneLaborerSizes == CHOOSE x \in LaborerSizes : TRUE
OneOwnerSizes == CHOOSE x \in OwnerSizes : TRUE
OneStock == CHOOSE x \in StartStocks : TRUE
OneSize == CHOOSE x \in ArtisanSizes : TRUE
OneCash == CHOOSE x \in ArtisanCashes : TRUE
OneMultiplier == CHOOSE x \in CostMultipliers : TRUE

OneTreasury == plan = OnePlan /\ population = OnePopulation /\ cash_stockpile = OneStartCash
OneFarm == laborers = OneLaborerSizes /\ owners = OneOwnerSizes /\ size_multiplier = 0
OneArtisan ==
  /\ craft = Unskilled /\ discards = FALSE
  /\ ware_stock = OneStock /\ artisan_size = OneSize /\ artisan_cash = OneCash /\ cost_multiplier = OneMultiplier

economyVars == <<treasuryVars, rgoVars, artisanVars, marketVars>>

TreasuryAlone ==
  /\ MarketInit /\ TreasuryInit /\ ProductionInit /\ OneFarm /\ ArtisansInit /\ OneArtisan
  /\ [][TreasuryNext /\ UNCHANGED <<rgoVars, artisanVars, marketVars>>]_economyVars

FarmAlone ==
  /\ MarketInit /\ TreasuryInit /\ OneTreasury /\ ProductionInit /\ ArtisansInit /\ OneArtisan
  /\ [][ProductionNext /\ UNCHANGED <<treasuryVars, artisanVars, marketVars>>]_economyVars

ArtisanAlone ==
  /\ MarketInit /\ TreasuryInit /\ OneTreasury /\ ProductionInit /\ OneFarm /\ ArtisansInit
  /\ [][ArtisansNext /\ UNCHANGED <<treasuryVars, rgoVars, marketVars>>]_economyVars
=============================================================================

------------------------------ MODULE Artisans ------------------------------
(***************************************************************************)
(* A pop of artisans through its days (economy/production/                 *)
(* ArtisanalProducer.cpp, with the parts of population/Pop.cpp that buy    *)
(* and sell for it): it makes what its stockpile allows, decides what to   *)
(* make next, sets money aside for the inputs of that, and offers what it  *)
(* has no use for.                                                         *)
(*                                                                         *)
(* Fixed point numbers are those of GoodMarket.                            *)
(***************************************************************************)
EXTENDS GoodMarket

CONSTANTS
  Ware,                \* the goods, 1 .. n
  WarePrice,
  Craft,               \* the production types of artisans
  Unskilled,           \* stands for no production type
  OutputOf, QuantityOf,
  InputsOf,            \* base_desired_quantity by good; 0 is no input
  WORKFORCE,           \* base_workforce_size
  ArtisanSizes, ArtisanCashes,
  StartStocks,         \* what the stockpile may hold at first
  OwnNeed,             \* what the pop itself would consume of each good
  CostMultipliers,     \* max_cost_multiplier: one and the tariff rate
  TaxRate,
  MaxArtisanDays       \* bound of the model on the days of a behaviour

ASSUME ArtisanAssumption ==
  /\ Ware = 1 .. Cardinality(Ware) /\ WarePrice \in [Ware -> Nat \ {0}]
  /\ Unskilled \notin Craft /\ WORKFORCE \in Nat \ {0}
  /\ OutputOf \in [Craft -> Ware] /\ QuantityOf \in [Craft -> Nat]
  /\ InputsOf \in [Craft -> [Ware -> Nat]] /\ StartStocks \subseteq [Ware -> Nat]
  /\ ArtisanSizes \subseteq Nat \ {0} /\ ArtisanCashes \subseteq Nat
  /\ OwnNeed \in [Ware -> Nat] /\ TaxRate \in 0 .. One /\ MaxArtisanDays \in Nat
  /\ \A m \in CostMultipliers : m >= One

VARIABLES
  craft,               \* production_type_nullable
  ware_stock,          \* stockpile
  last_produced_good,  \* 0 is none
  costs_of_production,
  max_quantity_to_buy, \* max_quantity_to_buy_per_good
  allocated,           \* money_to_spend of the order for each good
  goods_to_sell,
  artisan_size, artisan_cash,
  artisanal_revenue,
  cost_multiplier,
  discards,            \* the rule should_artisans_discard_unsold_non_inputs
  artisan_at,          \* "tick" or "market"
  artisan_days,
  shortfall            \* history: by how much production used more of a good
                       \* than there was, at worst

artisanVars ==
  <<craft, ware_stock, last_produced_good, costs_of_production, max_quantity_to_buy, allocated, goods_to_sell,
    artisan_size, artisan_cash, artisanal_revenue, cost_multiplier, discards, artisan_at, artisan_days,
    shortfall>>

-----------------------------------------------------------------------------
Inputs(c) == {g \in Ware : c # Unskilled /\ InputsOf[c][g] > 0}
InOrder(goods) == SelectSeq([g \in Ware |-> g], LAMBDA g : g \in goods)

(* calculate_inputs *)
Demand(c) == [g \in Ware |-> (InputsOf[c][g] * artisan_size) \div WORKFORCE]
Wanted(c) == {g \in Inputs(c) : Demand(c)[g] # 0}

(* The scarcest input says how much is made; fractions are compared after  *)
(* they are rounded.                                                       *)
Fraction(c, stock) ==
  LET scarcer(f, g) == IF Over(stock[g], InputsOf[c][g]) < Over(f.num, f.den)
                       THEN [num |-> stock[g], den |-> InputsOf[c][g]] ELSE f
  IN  FoldLeft(scarcer, [num |-> artisan_size * One, den |-> WORKFORCE * One], InOrder(Wanted(c)))

(* produce: d.own is what is left of the output to cover inputs of its own *)
(* kind.                                                                   *)
Consume(d, c, g, part) ==
  LET used == mul_div(InputsOf[c][g], part.num, part.den)
      from_own == IF g = OutputOf[c] THEN Least(used, d.own) ELSE 0
      left == Greatest(0, d.stock[g] - (used - from_own))
      enough == left >= Demand(c)[g]
  IN  [stock |-> [d.stock EXCEPT ![g] = left], own |-> d.own - from_own,
       costs |-> d.costs + Times(used, WarePrice[g]),
       wants |-> IF enough THEN d.wants \ {g} ELSE d.wants,
       distinct |-> IF enough THEN d.distinct - 1 ELSE d.distinct,
       short |-> Greatest(d.short, used - from_own - d.stock[g])]

Produce(c, stock) ==
  LET part == Fraction(c, stock)
      made == mul_div(QuantityOf[c], part.num, part.den)
      before == [stock |-> stock, own |-> made, costs |-> 0, wants |-> Wanted(c),
                 distinct |-> Cardinality(Wanted(c)), short |-> 0]
      done == FoldLeft(LAMBDA d, g : Consume(d, c, g, part), before, InOrder(Inputs(c)))
  IN  IF made = 0 THEN before ELSE [done EXCEPT !.stock[OutputOf[c]] = @ + done.own]

-----------------------------------------------------------------------------
(* allocate_money_for_inputs: which part of the demand the cash and the    *)
(* stockpile can satisfy, over the goods of which more is wanted.          *)
Satisfaction(c, d, cash) ==
  LET over(f) == Total([g \in d.wants |-> Times(MaxNextPrice(WarePrice[g]), f[g])])
      flat == Epsilon * d.distinct
      value == over(d.stock) + cash - flat
  IN  IF over(Demand(c)) = 0 \/ value >= over(Demand(c)) + flat THEN [num |-> 1, den |-> 1]
      ELSE [num |-> value, den |-> over(Demand(c)) + flat]

Optimal(c, g, part) == mul_div(Demand(c)[g], part.num, part.den)

(* Goods of which the stockpile holds enough drop out, until none does. *)
Settled(c, d, cash) ==
  LET round(e, k) ==
        LET part == Satisfaction(c, e, cash)
            plenty == {g \in e.wants : e.stock[g] >= Optimal(c, g, part)}
        IN  IF ~e.again THEN e
            ELSE [e EXCEPT !.wants = @ \ plenty, !.distinct = @ - Cardinality(plenty),
                           !.part = part, !.again = plenty # {}]
  IN  FoldLeft(round,
        [stock |-> d.stock, wants |-> d.wants, distinct |-> d.distinct, part |-> [num |-> 1, den |-> 1],
         again |-> TRUE],
        [k \in 1 .. Cardinality(Ware) + 1 |-> k])

(* Mutant of MoneyFor: money for all that is wanted, whatever the cash. *)
MoneyForAll(c, e, g) ==
  Times(Demand(c)[g] - e.stock[g], MaxNextPrice(WarePrice[g])) + Epsilon

MoneyFor(c, e, g) ==
  Times(Optimal(c, g, e.part) - e.stock[g], MaxNextPrice(WarePrice[g])) + Epsilon

(* What is ordered, and the money set aside for it. *)
NoOrders == [quantity |-> [g \in Ware |-> 0], money |-> [g \in Ware |-> 0]]
Orders(c, d, cash) ==
  LET e == Settled(c, d, cash)
      ordered == {g \in e.wants : Demand(c)[g] > e.stock[g]}
  IN  IF cash <= 0 \/ d.distinct <= 0 THEN NoOrders
      ELSE [quantity |-> [g \in Ware |-> IF g \in ordered THEN Demand(c)[g] - e.stock[g] ELSE 0],
            money |-> [g \in Ware |-> IF g \in ordered THEN MoneyFor(c, e, g) ELSE 0]]

-----------------------------------------------------------------------------
(* pick_production_type: from rankings by prices and draws that may give   *)
(* any type, or keep the old one.  Then artisan_tick, and what pop_tick    *)
(* takes for the pop itself of the goods it offers; it leaves the          *)
(* stockpile as it is.                                                     *)
CashToSpend == Over(artisan_cash, cost_multiplier)

artisan_tick(picked) ==
  LET kept == [g \in Ware |-> IF discards /\ g \notin Inputs(craft) THEN 0 ELSE ware_stock[g]]
      done == IF craft = Unskilled THEN [stock |-> kept, costs |-> costs_of_production, short |-> 0]
              ELSE Produce(craft, kept)
      next == IF picked = craft THEN done
              ELSE [stock |-> done.stock, wants |-> Wanted(picked), distinct |-> Cardinality(Wanted(picked))]
      orders == IF picked = Unskilled THEN NoOrders ELSE Orders(picked, next, CashToSpend)
  IN  /\ artisan_at = "tick" /\ artisan_days < MaxArtisanDays
      /\ picked \in Craft \cup {craft}
      /\ craft' = picked
      /\ ware_stock' = done.stock
      /\ costs_of_production' = done.costs
      /\ last_produced_good' = IF craft = Unskilled THEN last_produced_good ELSE OutputOf[craft]
      /\ max_quantity_to_buy' = orders.quantity /\ allocated' = orders.money
      /\ goods_to_sell' = [g \in Ware |->
           IF picked = Unskilled \/ g \in Inputs(picked) THEN 0
           ELSE done.stock[g] - Least(done.stock[g], OwnNeed[g])]
      /\ shortfall' = done.short
      /\ artisan_at' = "market"
      /\ UNCHANGED <<artisan_size, artisan_cash, artisanal_revenue, cost_multiplier, discards, artisan_days>>

(* after_buy, of imports that pay the tariff; add_to_stockpile.  All that  *)
(* is bought is added, so that the expense is the money spent.             *)
Buys(g, prices) == Least(max_quantity_to_buy[g], Over(allocated[g], prices[g]))
Expense(g, prices) ==
  LET bought == Buys(g, prices)
      money == IF bought = 0 THEN 0 ELSE Greatest(Times(bought, prices[g]), Epsilon)
  IN  money + Times(cost_multiplier - One, money)

(* after_sell and add_artisanal_revenue: income tax on the profit of what  *)
(* was produced last.  income is added to itself.                          *)
Revenue(g, prices) == Times(goods_to_sell[g], prices[g])
Income(g, prices) ==
  LET revenue == Revenue(g, prices)
      profit == Greatest(0, revenue - costs_of_production)
      income == IF g = last_produced_good THEN profit - Times(TaxRate, profit) ELSE revenue
  IN  income + income

(* The market of a day, which may raise every price as far as it can rise, *)
(* and where an order is filled or is not.  The next day has the old       *)
(* prices again.                                                           *)
DayPrices == {WarePrice, [g \in Ware |-> MaxNextPrice(WarePrice[g])]}

artisan_trades(filled, prices) ==
  LET bought == {g \in filled : max_quantity_to_buy[g] > 0 /\ allocated[g] > 0}
      sold == {g \in filled : Revenue(g, prices) > 0}
  IN  /\ artisan_at = "market"
      /\ ware_stock' = [g \in Ware |-> IF g \in bought THEN ware_stock[g] + Buys(g, prices)
                                       ELSE IF g \in sold THEN ware_stock[g] - goods_to_sell[g]
                                       ELSE ware_stock[g]]
      /\ max_quantity_to_buy' =
           [g \in Ware |-> max_quantity_to_buy[g] - IF g \in bought THEN Buys(g, prices) ELSE 0]
      /\ artisanal_revenue' = artisanal_revenue + Total([g \in sold |-> Revenue(g, prices)])
      /\ artisan_cash' = artisan_cash - Total([g \in bought |-> Expense(g, prices)])
                                      + Total([g \in sold |-> Income(g, prices)])
      /\ artisan_at' = "tick" /\ artisan_days' = artisan_days + 1
      /\ UNCHANGED <<craft, last_produced_good, costs_of_production, allocated, goods_to_sell, artisan_size,
                     cost_multiplier, discards, shortfall>>

ArtisansInit ==
  /\ craft \in Craft \cup {Unskilled} /\ ware_stock \in StartStocks
  /\ last_produced_good = 0 /\ costs_of_production = 0
  /\ max_quantity_to_buy = [g \in Ware |-> 0] /\ allocated = [g \in Ware |-> 0]
  /\ goods_to_sell = [g \in Ware |-> 0]
  /\ artisan_size \in ArtisanSizes /\ artisan_cash \in ArtisanCashes /\ artisanal_revenue = 0
  /\ cost_multiplier \in CostMultipliers /\ discards \in BOOLEAN
  /\ artisan_at = "tick" /\ artisan_days = 0 /\ shortfall = 0

ArtisansNext ==
  \/ \E picked \in Craft \cup {Unskilled} : artisan_tick(picked)
  \/ \E filled \in SUBSET Ware, prices \in DayPrices : artisan_trades(filled, prices)

-----------------------------------------------------------------------------
(* Inputs of which the pop is too small to want any.  calculate_inputs     *)
(* does not count them in distinct_goods_to_buy; produce counts them down, *)
(* and allocate_money_for_inputs, which puts a unit aside for each distinct *)
(* good, then puts aside too few.                                          *)
Uncounted(c) == {g \in Inputs(c) : Demand(c)[g] = 0}

(* What the code does keep.  What the orders may cost exceeds the cash of  *)
(* the morning by a unit for each uncounted input at most, and the artisan *)
(* is never further in debt than those units and the tariff on them, day   *)
(* after day; an order never aims at more than a day's demand; and         *)
(* production uses no more of an input than there was, up to the rounding  *)
(* of the fractions that are compared (allocate_money_for_inputs,          *)
(* Pop::after_buy, produce).                                               *)
ArtisanSound ==
  /\ artisan_at = "market" =>
       /\ Total(allocated) <= Greatest(0, CashToSpend) + Cardinality(Uncounted(craft))
       /\ \A g \in Ware : max_quantity_to_buy[g] > 0 =>
            ware_stock[g] + max_quantity_to_buy[g] = Demand(craft)[g]
  /\ \A g \in Ware : ware_stock[g] >= 0
  /\ artisan_cash >= -Times(cost_multiplier, Max({Cardinality(Uncounted(c)) : c \in Craft}))
  /\ shortfall <= 1 + Max({InputsOf[c][g] : c \in Craft, g \in Ware}) \div One

(* The checks of allocate_money_for_inputs and of add_artisan_inputs_      *)
(* expense: an artisan orders for no more than it has to spend ("Artisan   *)
(* allocated more cash than the pop has"), so that paying leaves it some   *)
(* cash or none ("Total cash became negative").                            *)
NeverInDebt == artisan_cash >= 0
=============================================================================

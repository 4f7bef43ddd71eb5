------------------------------ MODULE Treasury ------------------------------
(***************************************************************************)
(* The money of a country through its days (country/CountryInstance.cpp    *)
(* with the parts of population/Pop.cpp that take and give it): the budget *)
(* update sums what the sliders cost at most, the tick before the map cuts *)
(* the budgets to the cash there is and places orders for the national     *)
(* stockpile, every pop asks for its shares while the provinces tick, the  *)
(* market settles, and the tick after the map pays what was spent.         *)
(*                                                                         *)
(* Fixed point numbers are those of GoodMarket; a product that is divided  *)
(* afterwards wraps at the width of a machine word.                        *)
(***************************************************************************)
EXTENDS GoodMarket

CONSTANTS
  Pop,
  SIZE_DENOMINATOR,    \* a salary base is for so many people
  SalaryBase,          \* by kind of spending and pop
  Populations,         \* how many people a pop may have, and out of work
  Plans,               \* the settings of the sliders and of the stockpile
  EffectiveTaxRate,
  GoldIncomes,         \* what the mines of gold may yield in a day
  Stored,              \* the goods of the national stockpile, 1 .. n
  StoredPrice,
  Purchases,           \* what a day's market may bring the pops, see below
  StartCashes,
  WeightMax,           \* usable_max, which weights are taken from
  HalfWord,            \* 2^63
  MaxDays              \* bound of the model on the days of a behaviour

BudgetCategory == {"education", "administration", "social", "military", "subsidies"}
Kind == {"education", "administration", "pensions", "unemployment", "military"}

ASSUME TreasuryAssumption ==
  /\ SIZE_DENOMINATOR \in Nat \ {0} /\ HalfWord \in Nat \ {0} /\ WeightMax \in Nat
  /\ SalaryBase \in [Kind -> [Pop -> Nat]]
  /\ Populations \subseteq [Pop -> [size : Nat, unemployed : Nat]]
  /\ EffectiveTaxRate \in 0 .. One /\ GoldIncomes \subseteq Nat /\ MaxDays \in Nat
  /\ Stored = 1 .. Cardinality(Stored) /\ StoredPrice \in [Stored -> Nat \ {0}]
  /\ StartCashes \subseteq Nat
  /\ \A bought \in Purchases : bought \in [Pop -> [money : Nat, imported : Nat, parts : Seq(Nat)]]
  /\ \A bought \in Purchases, p \in Pop : bought[p].imported <= bought[p].money

VARIABLES
  cash_stockpile,
  cash_stockpile_start_of_tick,
  plan,                \* the sliders, the effective tariff rate, and what to stockpile
  population,
  unscaled,            \* projected spending by kind, unscaled by slider
  import_value,        \* yesterdays_import_value of the country, since its last update
  imports,             \* yesterdays_import_value of every pop
  budget,              \* by category
  spent,               \* by kind, and on subsidies
  tariff_income,
  stockpile,           \* stockpile_amount by good
  orders,              \* money_to_spend by good
  pop_cash,
  ticked,              \* the pops whose tick is over
  day_phase,           \* where the day is
  days,
  after_spending,      \* history: cash_stockpile_copy of the last tick after the map
  outside,             \* history: money that has gone to the market and to nobody here
  splits               \* history: how often a purchase was split between two uses

treasuryVars ==
  <<cash_stockpile, cash_stockpile_start_of_tick, plan, population, unscaled, import_value, imports,
    budget, spent, tariff_income, stockpile, orders, pop_cash, ticked, day_phase, days, after_spending,
    outside, splits>>

-----------------------------------------------------------------------------
(* fp::mul_div, in a word. *)
Wrapped(x) == ((x + HalfWord) % (2 * HalfWord)) - HalfWord
mul_div_word(a, n, d) == Quotient(Wrapped(a * n), d)

KindsOf(c) == CASE c = "social" -> {"pensions", "unemployment"} [] c = "subsidies" -> {} [] OTHER -> {c}
CategoryOf(k) == IF k \in {"pensions", "unemployment"} THEN "social" ELSE k
PeopleFor(k, who) == IF k = "unemployment" THEN who.unemployed ELSE who.size

(* _update_budget: the sum over the pops, rounded down once. *)
Unscaled(who, k) == Total([p \in Pop |-> PeopleFor(k, who[p]) * SalaryBase[k][p]]) \div SIZE_DENOMINATOR

(* projected_..._spending *)
Projected(c) ==
  IF c = "subsidies" THEN IF plan.tariff < 0 THEN Times(-plan.tariff, import_value) ELSE 0
  ELSE Times(plan.slider[c], Total([k \in KindsOf(c) |-> unscaled[k]]))

(* What is cut last comes first. *)
Precedence == <<"education", "administration", "social", "military", "subsidies">>

(* Mutant of Grant: what a category gets is not taken off the funds. *)
GrantAgain(d, c) ==
  [left |-> d.left, budget |-> [d.budget EXCEPT ![c] = Least(d.left, Projected(c))]]

Grant(d, c) ==
  LET granted == Least(d.left, Projected(c))
  IN  [left |-> d.left - granted, budget |-> [d.budget EXCEPT ![c] = granted]]

(* The budgets of a day and what is left for the stockpile. *)
Budgets(funds) == FoldLeft(Grant, [left |-> funds, budget |-> [c \in BudgetCategory |-> 0]], Precedence)

-----------------------------------------------------------------------------
(* manage_national_stockpile: wishes are shared out by the inverse of what *)
(* they cost, none gets more than it can cost, and what that leaves is     *)
(* shared again.                                                           *)
ToBuy(g) == IF plan.selling[g] THEN 0 ELSE Greatest(plan.cutoff[g] - stockpile[g], 0)
ToSell(g) == IF plan.selling[g] THEN Greatest(stockpile[g] - plan.cutoff[g], 0) ELSE 0

MaxCosts(g) == Times(ToBuy(g), MaxNextPrice(StoredPrice[g])) + Epsilon
Weight(g) == Over(WeightMax, MaxCosts(g))

AllotStored(d, g) ==
  LET share == mul_div_word(d.cash, Weight(g), d.weights)
      affordable == Over(share, MinNextPrice(StoredPrice[g]))
  IN  IF g \notin d.wants \/ d.capped THEN d
      ELSE IF share >= MaxCosts(g)
      THEN [money |-> [d.money EXCEPT ![g] = MaxCosts(g)], cash |-> d.cash - MaxCosts(g),
            weights |-> d.weights - Weight(g), wants |-> d.wants \ {g}, capped |-> TRUE]
      ELSE [d EXCEPT !.money[g] = IF affordable < Epsilon THEN 0 ELSE share]

StockpileOrders(funds) ==
  LET wants == {g \in Stored : ToBuy(g) > 0 /\ funds > 0}
      round(d, k) ==
        IF ~d.capped \/ d.weights <= 0 THEN d
        ELSE FoldLeft(AllotStored, [d EXCEPT !.capped = FALSE], [g \in Stored |-> g])
  IN  FoldLeft(round,
        [money |-> [g \in Stored |-> 0], cash |-> funds, wants |-> wants, capped |-> TRUE,
         weights |-> Total([g \in wants |-> Weight(g)])],
        [k \in 1 .. Cardinality(Stored) + 1 |-> k]).money

-----------------------------------------------------------------------------
(* Between two days: pops change, sliders are set, and the gamestate is    *)
(* updated.                                                                *)
update_budget(who, settings) ==
  /\ day_phase = "update"
  /\ population' = who /\ plan' = settings
  /\ unscaled' = [k \in Kind |-> Unscaled(who, k)]
  /\ import_value' = Total(imports)
  /\ day_phase' = "before_map"
  /\ UNCHANGED <<cash_stockpile, cash_stockpile_start_of_tick, imports, budget, spent, tariff_income,
                 stockpile, orders, pop_cash, ticked, days, after_spending, outside, splits>>

country_tick_before_map ==
  LET granted == Budgets(cash_stockpile)
  IN  /\ day_phase = "before_map" /\ days < MaxDays
      /\ cash_stockpile_start_of_tick' = cash_stockpile
      /\ budget' = granted.budget
      /\ orders' = StockpileOrders(granted.left)
      /\ spent' = [k \in Kind \cup {"subsidies"} |-> 0]
      /\ tariff_income' = 0
      /\ ticked' = {} /\ day_phase' = "map"
      /\ UNCHANGED <<cash_stockpile, plan, population, unscaled, import_value, imports, stockpile,
                     pop_cash, days, after_spending, outside, splits>>

(* What a pop gets of a budget of its country. *)
Requested(p, k) ==
  LET c == CategoryOf(k)
  IN  IF budget[c] <= 0 THEN 0
      ELSE Greatest(0, Quotient(mul_div_word(PeopleFor(k, population[p]) * SalaryBase[k][p], budget[c],
                                             Total([j \in KindsOf(c) |-> unscaled[j]])),
                                SIZE_DENOMINATOR))

(* The tariff rate is negative when imports are subsidised, and nothing    *)
(* makes up for its sign.                                                  *)
RequestedSubsidy(p) ==
  IF budget["subsidies"] <= 0 THEN 0
  ELSE mul_div_word(Times(plan.tariff, imports[p]), budget["subsidies"], Projected("subsidies"))

(* pop_tick up to the pop's orders: request_salaries_and_welfare_and_      *)
(* import_subsidies, of which all but the subsidies pay income tax at once. *)
request_salaries(p) ==
  LET income == [k \in Kind |-> Requested(p, k)]
      tax == Total([k \in Kind |-> Times(EffectiveTaxRate, income[k])])
  IN  /\ day_phase = "map" /\ p \notin ticked
      /\ spent' = [k \in Kind \cup {"subsidies"} |->
                     spent[k] + IF k = "subsidies" THEN RequestedSubsidy(p) ELSE income[k]]
      /\ cash_stockpile' = cash_stockpile + tax
      /\ pop_cash' = [pop_cash EXCEPT ![p] = @ + Total(income) - tax + RequestedSubsidy(p)]
      /\ imports' = [imports EXCEPT ![p] = 0]
      /\ ticked' = ticked \cup {p}
      /\ UNCHANGED <<cash_stockpile_start_of_tick, plan, population, unscaled, import_value, budget,
                     tariff_income, stockpile, orders, day_phase, days, after_spending, outside, splits>>

(* apply_tariff *)
Tariff(value) == IF plan.tariff <= 0 THEN 0 ELSE Times(plan.tariff, value)

(* Pop::after_buy: what a pop buys goes to the inputs of its trade and     *)
(* then to its needs, category by category (parts, in that order), and     *)
(* each use is charged its share of the money and of the tariff on what    *)
(* was imported, rounded by itself.  An order is the sum of such wishes:   *)
(* nothing is bought for no use.                                           *)
Cost(b) == b.money + Tariff(b.imported)
Expenses(b) ==
  LET quantity == FoldLeft(LAMBDA sum, part : sum + part, 0, b.parts)
  IN  FoldLeft(LAMBDA sum, part : sum + mul_div(Cost(b), part, quantity), 0, b.parts)

(* execute_orders, with after_buy and after_sell of the country and of its *)
(* pops: an order is filled, for all the money it may cost, or is not.     *)
execute_orders(filled, purchase) ==
  LET bought == {g \in filled : orders[g] > 0}
      sold == {g \in filled : ToSell(g) > 0}
      money == Total([g \in bought |-> orders[g]])
      gained == Total([g \in sold |-> Times(ToSell(g), StoredPrice[g])])
      buyers == {p \in Pop : purchase[p].parts # <<>>}
  IN  /\ day_phase = "map" /\ ticked = Pop
      /\ cash_stockpile' = cash_stockpile - money + gained
      /\ stockpile' = [g \in Stored |-> stockpile[g]
           + IF g \in bought THEN Least(ToBuy(g), Over(orders[g], StoredPrice[g]))
             ELSE IF g \in sold THEN -ToSell(g) ELSE 0]
      /\ imports' = [p \in Pop |-> imports[p] + purchase[p].imported]
      /\ tariff_income' = tariff_income + Total([p \in Pop |-> Tariff(purchase[p].imported)])
      /\ pop_cash' = [p \in Pop |-> pop_cash[p] - Expenses(purchase[p])]
      /\ outside' = outside + money - gained + Total([p \in Pop |-> purchase[p].money])
      /\ splits' = splits + Total([p \in buyers |-> Len(purchase[p].parts) - 1])
      /\ day_phase' = "after_map"
      /\ UNCHANGED <<cash_stockpile_start_of_tick, plan, population, unscaled, import_value, budget,
                     spent, orders, ticked, days, after_spending>>

country_tick_after_map(gold_income) ==
  /\ day_phase = "after_map"
  /\ after_spending' = cash_stockpile - Total(spent)
  /\ cash_stockpile' = after_spending' + tariff_income + gold_income
  /\ outside' = outside - gold_income
  /\ days' = days + 1
  /\ day_phase' = "update"
  /\ UNCHANGED <<cash_stockpile_start_of_tick, plan, population, unscaled, import_value, imports, budget,
                 spent, tariff_income, stockpile, orders, pop_cash, ticked, splits>>

TreasuryInit ==
  /\ cash_stockpile \in StartCashes /\ cash_stockpile_start_of_tick = 0
  /\ plan \in Plans /\ population \in Populations
  /\ unscaled = [k \in Kind |-> 0] /\ import_value = 0 /\ imports = [p \in Pop |-> 0]
  /\ budget = [c \in BudgetCategory |-> 0] /\ spent = [k \in Kind \cup {"subsidies"} |-> 0]
  /\ tariff_income = 0 /\ stockpile = [g \in Stored |-> 0] /\ orders = [g \in Stored |-> 0]
  /\ pop_cash = [p \in Pop |-> 0] /\ ticked = {} /\ day_phase = "update" /\ days = 0
  /\ after_spending = 0 /\ outside = -cash_stockpile /\ splits = 0

TreasuryNext ==
  \/ \E who \in Populations, settings \in Plans : update_budget(who, settings)
  \/ country_tick_before_map
  \/ \E p \in Pop : request_salaries(p)
  \/ \E filled \in SUBSET Stored, purchase \in Purchases : execute_orders(filled, purchase)
  \/ \E gold_income \in GoldIncomes : country_tick_after_map(gold_income)

TreasurySpec == TreasuryInit /\ [][TreasuryNext]_treasuryVars

-----------------------------------------------------------------------------
Paid(c) == Total([k \in KindsOf(c) |-> spent[k]]) + IF c = "subsidies" THEN spent["subsidies"] ELSE 0

(* What the shares, each rounded by itself, keep.  No budget is exceeded   *)
(* but the social one, and that by a single unit: its two halves are       *)
(* rounded down before they are added up, so that the pops' shares are     *)
(* taken of too small a sum.  Budgets and orders together are within the   *)
(* cash of the morning, so that only that unit, or what was missing        *)
(* before, can be missing when all is paid.  And money moves between       *)
(* country, pops and market without being lost, nor made but by the        *)
(* rounding of expenses that are split between uses, less than a unit each *)
(* (country_tick_before_map, request_salaries_and_welfare_and_             *)
(* import_subsidies, Pop::after_buy, country_tick_after_map).              *)
TreasurySound ==
  /\ day_phase = "after_map" =>
       /\ \A c \in BudgetCategory : Paid(c) <= Greatest(0, budget[c]) + IF c = "social" THEN 1 ELSE 0
       /\ Total(budget) + Total(orders) <= Greatest(0, cash_stockpile_start_of_tick)
  /\ day_phase = "update" =>
       /\ after_spending >= Least(0, cash_stockpile_start_of_tick) - 1
       /\ cash_stockpile + Total(pop_cash) + outside \in 0 .. splits

(* The checks of country_tick_after_map: no category has spent more than   *)
(* it was allocated, and the cash that was there in the morning is enough  *)
(* for all spending ("This indicates a severe bug in the economy code.").  *)
NothingOverspent ==
  /\ day_phase = "after_map" => \A c \in BudgetCategory : Paid(c) <= budget[c]
  /\ after_spending >= 0
=============================================================================

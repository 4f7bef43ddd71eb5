----------------------------- MODULE GoodMarket -----------------------------
(***************************************************************************)
(* The market of one good (economy/trading/GoodMarket.cpp): every day the  *)
(* orders that pops, producers and countries placed are matched at one new *)
(* price, and each of them is told what it bought or sold.                 *)
(*                                                                         *)
(* Numbers are fixed point with a small One: products round down and       *)
(* quotients towards zero, as in types/fixed_point, where One is 65536.    *)
(***************************************************************************)
EXTENDS Integers, SequencesExt, FiniteSetsExt

CONSTANTS
  One,                     \* the fixed point representation of 1
  BasePrice,
  LinearChange,            \* 0.01
  ExponentialShift,        \* exponential_price_change_shift
  UsableMax,               \* the highest price
  PricingRules,            \* the values of the rule use_exponential_price_changes
  Quantities,              \* of the orders
  MaxBuyers, MaxOrders,    \* bounds on the orders of a day
  Region,                  \* the countries with orders
  Stateless                \* stands for an order of no country

ASSUME MarketAssumption ==
  /\ One \in Nat \ {0} /\ BasePrice \in Nat \ {0}
  /\ Quantities \subseteq Nat \ {0} /\ MaxBuyers \in 0 .. MaxOrders
  /\ PricingRules \subseteq BOOLEAN /\ Stateless \notin Region

VARIABLES
  optimal,     \* use_exponential_price_changes, which is also use_optimal_pricing
  price, min_next_price, max_next_price,
  is_available,
  trades,      \* the buy orders of the last day and what they came to
  sales,       \* the sell orders
  crashed      \* a division by zero ended the process

marketVars == <<optimal, price, min_next_price, max_next_price, is_available, trades, sales, crashed>>

-----------------------------------------------------------------------------
Epsilon == 1
Quotient(n, d) ==
  IF (n < 0) = (d < 0) THEN (IF n < 0 THEN -n ELSE n) \div (IF d < 0 THEN -d ELSE d)
  ELSE -((IF n < 0 THEN -n ELSE n) \div (IF d < 0 THEN -d ELSE d))
Times(a, b) == (a * b) \div One
Over(a, b) == Quotient(a * One, b)
mul_div(a, n, d) == Quotient(a * n, d)

Least(a, b) == IF a < b THEN a ELSE b
Greatest(a, b) == IF a < b THEN b ELSE a
Total(f) == FoldFunction(LAMBDA a, b : a + b, 0, f)
Indices(seq) == [i \in DOMAIN seq |-> i]

absolute_maximum_price == IF optimal THEN UsableMax ELSE Least(BasePrice * 5, UsableMax)
absolute_minimum_price ==
  IF optimal THEN Epsilon * 2 ^ ExponentialShift
  ELSE Greatest((BasePrice * 22) \div 100, Epsilon)

(* update_next_price_limits *)
PriceChange(p) == IF optimal THEN p \div (2 ^ ExponentialShift) ELSE LinearChange
MaxNextPrice(p) == Least(absolute_maximum_price, p + PriceChange(p))
MinNextPrice(p) == Greatest(absolute_minimum_price, p - PriceChange(p))

-----------------------------------------------------------------------------
affordable_price(b) == Over(b.money_to_spend, b.max_quantity)

(* purchasing_power_per_order *)
PurchasingPower(b) == IF b.money_to_spend <= 0 THEN 0 ELSE Over(b.money_to_spend, max_next_price)

(* What an order can buy at the highest price, and pay for it. *)
Affordable(b) == Least(PurchasingPower(b), b.max_quantity)
MoneyLeft(b) ==
  IF PurchasingPower(b) >= b.max_quantity THEN Times(b.max_quantity, max_next_price) ELSE Greatest(0, b.money_to_spend)

(* Supply is shared out by purchasing power; whoever gets all he wants     *)
(* leaves, and the shares are worked out anew.                             *)
Share(d, b, i) ==
  IF d.someone_bought_max \/ d.bought[i] = b.max_quantity \/ d.died THEN d
  ELSE IF d.power_sum = 0 THEN [d EXCEPT !.died = TRUE]
  ELSE LET supplied == mul_div(d.remaining_supply, PurchasingPower(b), d.power_sum)
           full == supplied >= b.max_quantity
       IN  [bought |-> [k \in DOMAIN d.bought |->
              IF k # i THEN d.bought[k] ELSE IF full THEN b.max_quantity ELSE supplied],
            remaining_supply |-> d.remaining_supply - (IF full THEN b.max_quantity ELSE 0),
            power_sum |-> d.power_sum - (IF full THEN PurchasingPower(b) ELSE 0),
            someone_bought_max |-> full, died |-> FALSE]

Distribution(buys, supply) ==
  LET again(d, pass) ==
        IF d.died \/ ~d.someone_bought_max THEN d
        ELSE FoldLeft(LAMBDA e, i : Share(e, buys[i], i),
                      [d EXCEPT !.someone_bought_max = FALSE], Indices(buys))
  IN  FoldLeft(again,
        [bought |-> [i \in DOMAIN buys |-> 0], remaining_supply |-> supply,
         power_sum |-> Total([i \in DOMAIN buys |-> Affordable(buys[i])]),
         someone_bought_max |-> TRUE, died |-> FALSE],
        [k \in 1 .. Len(buys) + 1 |-> k])

(* The optimal price below the highest: lowered until the money left buys  *)
(* what is left, or the lowest price is reached.                           *)
Lower(d, buys, lowest) ==
  IF d.found \/ d.remaining_supply <= 0 THEN d
  ELSE LET possible_price == Over(d.money_left, d.remaining_supply)
           filled == {i \in DOMAIN buys :
             ~d.filled[i] /\ buys[i].money_to_spend >= Times(possible_price, buys[i].max_quantity)}
           sumOver(f) == Total([i \in filled |-> f[i]])
       IN  IF possible_price >= d.at THEN [d EXCEPT !.found = TRUE]
           ELSE IF possible_price < lowest THEN [d EXCEPT !.found = TRUE, !.at = lowest]
           ELSE [at |-> possible_price, found |-> FALSE,
                 remaining_supply |-> d.remaining_supply - sumOver([i \in DOMAIN buys |-> buys[i].max_quantity]),
                 money_left |-> d.money_left - sumOver([i \in DOMAIN buys |-> buys[i].money_to_spend]),
                 filled |-> [i \in DOMAIN buys |-> d.filled[i] \/ i \in filled]]

OptimalPrice(buys, supply, lowest) ==
  FoldLeft(LAMBDA d, k : Lower(d, buys, lowest),
    [at |-> price, found |-> FALSE, remaining_supply |-> supply,
     money_left |-> Total([i \in DOMAIN buys |-> MoneyLeft(buys[i])]),
     filled |-> [i \in DOMAIN buys |-> FALSE]],
    [k \in 1 .. Len(buys) + 2 |-> k]).at

PriceBelow(buys, supply, lowest) ==
  IF optimal THEN OptimalPrice(buys, supply, lowest)
  ELSE IF supply > Total([i \in DOMAIN buys |-> buys[i].max_quantity]) THEN lowest ELSE price

BoughtAt(b, p) == Least(b.max_quantity, Over(b.money_to_spend, p))

-----------------------------------------------------------------------------
(* What a country's orders add up to. *)
Of(orders, amount, c) == Total([i \in {k \in DOMAIN orders : orders[k].country = c} |-> amount[i]])
Supplied(sells) == [c \in Region |-> Of(sells, [i \in DOMAIN sells |-> sells[i].quantity], c)]
Bought(buys, bought) == [c \in Region |-> Of(buys, bought, c)]

(* execute_buy_orders *)
Spent(bought, p) == IF bought = 0 THEN 0 ELSE Greatest(Times(bought, p), Epsilon)
SpentOnImports(b, bought, p, supplied, inCountry) ==
  IF bought = 0 THEN 0
  ELSE IF b.country = Stateless THEN Spent(bought, p)
  ELSE IF supplied[b.country] >= inCountry[b.country] THEN 0
  ELSE Spent(bought, p) - mul_div(Spent(bought, p), supplied[b.country], inCountry[b.country])

(* Mutant of SoldAtHome: home takes its share even when it bought more than was offered. *)
SoldAtHomeUncapped(s, supplied, inCountry) ==
  IF s.country = Stateless THEN 0 ELSE mul_div(s.quantity, inCountry[s.country], supplied[s.country])

(* What is sold at home of a sell order, and what is offered abroad. *)
SoldAtHome(s, supplied, inCountry) ==
  IF s.country = Stateless THEN 0
  ELSE IF inCountry[s.country] >= supplied[s.country] THEN s.quantity
  ELSE mul_div(s.quantity, inCountry[s.country], supplied[s.country])

(* How much of every sell order is sold, when not everything is. *)
SharesSold(sells, traded, supplied, inCountry) ==
  LET domestic == Total([c \in Region |-> Least(supplied[c], inCountry[c])])
      offered == Total([i \in DOMAIN sells |-> sells[i].quantity]) - domestic
  IN  [i \in DOMAIN sells |->
         LET home == SoldAtHome(sells[i], supplied, inCountry)
         IN  home + mul_div(sells[i].quantity - home, traded - domestic, offered)]

Gained(sold, p) == IF sold = 0 THEN 0 ELSE Greatest(Times(sold, p), Epsilon)

Trade(b, bought, p, imports) ==
  [order |-> b, bought |-> bought, spent |-> Spent(bought, p), imports |-> imports]
Sale(s, sold, p) == [order |-> s, sold |-> sold, gained |-> Gained(sold, p)]

Crash == crashed' = TRUE /\ UNCHANGED <<optimal, price, min_next_price, max_next_price, is_available, trades, sales>>

(* The day ends at price p, with what every buy order bought. *)
Settle(buys, sells, bought, p, lowest) ==
  LET supplied == Supplied(sells)
      inCountry == Bought(buys, bought)
      supply == Total([i \in DOMAIN sells |-> sells[i].quantity])
      traded == Total(bought)
      domestic == Total([c \in Region |-> Least(supplied[c], inCountry[c])])
      sold == IF traded = supply THEN [i \in DOMAIN sells |-> sells[i].quantity]
              ELSE SharesSold(sells, traded, supplied, inCountry)
  IN  IF traded # supply /\ supply = domestic THEN Crash
      ELSE /\ trades' = [i \in DOMAIN buys |->
                Trade(buys[i], bought[i], p, SpentOnImports(buys[i], bought[i], p, supplied, inCountry))]
           /\ sales' = [i \in DOMAIN sells |-> Sale(sells[i], sold[i], p)]
           /\ price' = p
           /\ max_next_price' = IF p # price THEN MaxNextPrice(p) ELSE max_next_price
           /\ min_next_price' = IF p # price THEN MinNextPrice(p) ELSE lowest
           /\ UNCHANGED <<optimal, is_available, crashed>>

(* The buyers' prices that raise min_next_price. *)
RaisedMinimum(buys) ==
  IF optimal THEN Max({min_next_price} \cup {affordable_price(buys[i]) : i \in DOMAIN buys}) ELSE min_next_price

(* execute_orders, when nothing is offered. *)
NothingOffered(buys) ==
  LET affordable == Max({price} \cup {affordable_price(buys[i]) : i \in DOMAIN buys})
      p == IF optimal THEN Least(max_next_price, affordable)
           ELSE IF buys # <<>> THEN max_next_price ELSE price
  IN  /\ is_available
      /\ trades' = [i \in DOMAIN buys |-> Trade(buys[i], 0, p, 0)]
      /\ sales' = <<>>
      /\ price' = p
      /\ max_next_price' = IF p # price THEN MaxNextPrice(p) ELSE max_next_price
      /\ min_next_price' = IF p # price THEN MinNextPrice(p) ELSE min_next_price
      /\ UNCHANGED <<optimal, is_available, crashed>>

(* When demand takes all there is at the highest price. *)
SellForMaxPrice(buys, sells) ==
  LET supply == Total([i \in DOMAIN sells |-> sells[i].quantity])
      d == Distribution(buys, supply)
  IN  /\ is_available /\ sells # <<>>
      /\ Total([i \in DOMAIN buys |-> Affordable(buys[i])]) >= supply
      /\ IF d.died THEN Crash
         ELSE Settle(buys, sells, d.bought, max_next_price, RaisedMinimum(buys))

(* And when it does not. *)
SellBelowMaxPrice(buys, sells) ==
  LET supply == Total([i \in DOMAIN sells |-> sells[i].quantity])
      p == PriceBelow(buys, supply, RaisedMinimum(buys))
  IN  /\ is_available /\ sells # <<>>
      /\ Total([i \in DOMAIN buys |-> Affordable(buys[i])]) < supply
      /\ Settle(buys, sells, [i \in DOMAIN buys |-> BoughtAt(buys[i], p)], p, RaisedMinimum(buys))

(* The callbacks have told everyone. *)
Told ==
  /\ trades # <<>> \/ sales # <<>>
  /\ trades' = <<>> /\ sales' = <<>>
  /\ UNCHANGED <<optimal, price, min_next_price, max_next_price, is_available, crashed>>

(* A good that is not available: all orders are returned. *)
ReturnOrders(buys, sells) ==
  /\ ~is_available
  /\ trades' = [i \in DOMAIN buys |-> Trade(buys[i], 0, price, 0)]
  /\ sales' = [i \in DOMAIN sells |-> Sale(sells[i], 0, price)]
  /\ UNCHANGED <<optimal, price, min_next_price, max_next_price, is_available, crashed>>

(* enable_good *)
EnableGood ==
  /\ ~is_available
  /\ is_available' = TRUE
  /\ UNCHANGED <<optimal, price, min_next_price, max_next_price, trades, sales, crashed>>

-----------------------------------------------------------------------------
(* The orders of a day: get_max_money_to_allocate_to_buy_quantity is the   *)
(* most anyone allocates to a quantity.                                    *)
MaxMoney(q) == Times(q, max_next_price) + Epsilon
BuyOrders ==
  {[max_quantity |-> q, money_to_spend |-> m, country |-> c] :
     q \in Quantities, m \in 0 .. MaxMoney(Max(Quantities)), c \in Region \cup {Stateless}}
PlaceableBuys == {b \in BuyOrders : b.money_to_spend <= MaxMoney(b.max_quantity)}
SellOrders == [quantity : Quantities, country : Region \cup {Stateless}]

MarketInit ==
  /\ optimal \in PricingRules
  /\ price = BasePrice
  /\ min_next_price = MinNextPrice(BasePrice)
  /\ max_next_price = MaxNextPrice(BasePrice)
  /\ is_available \in BOOLEAN
  /\ trades = <<>> /\ sales = <<>>
  /\ crashed = FALSE

MarketNext ==
  \/ Told
  \/ /\ ~crashed /\ trades = <<>> /\ sales = <<>>
     /\ \/ EnableGood
        \/ \E n \in 0 .. MaxBuyers : \E m \in 0 .. MaxOrders - n :
           \E buys \in [1 .. n -> PlaceableBuys], sells \in [1 .. m -> SellOrders] :
             \/ ReturnOrders(buys, sells)
             \/ sells = <<>> /\ NothingOffered(buys)
             \/ SellForMaxPrice(buys, sells)
             \/ SellBelowMaxPrice(buys, sells)

MarketSpec == MarketInit /\ [][MarketNext]_marketVars

-----------------------------------------------------------------------------
(* Goods are conserved: on a day no more is handed out than is offered,    *)
(* however shares are rounded between home and abroad, sellers are never   *)
(* paid for more than was bought nor for more than they offered.  On any   *)
(* day no buyer gets more than he asked for, what counts as imported is    *)
(* part of what was paid, and with linear price changes the price stays    *)
(* between its limits.                                                     *)
GoodsConserved ==
  LET offered == Total([i \in DOMAIN sales |-> sales[i].order.quantity])
      bought == Total([i \in DOMAIN trades |-> trades[i].bought])
  IN  /\ bought <= offered =>
           /\ Total([i \in DOMAIN sales |-> sales[i].sold]) <= bought
           /\ \A i \in DOMAIN sales : sales[i].sold \in 0 .. sales[i].order.quantity
      /\ \A i \in DOMAIN trades :
           /\ trades[i].bought <= trades[i].order.max_quantity
           /\ trades[i].imports \in 0 .. trades[i].spent
      /\ ~optimal => price \in absolute_minimum_price .. absolute_maximum_price

(* Nobody pays more than the money the order came with: "we know from      *)
(* purchasing power that you can afford it" (GoodMarket.cpp:425).          *)
BuyersCanAfford ==
  \A i \in DOMAIN trades : trades[i].spent <= trades[i].order.money_to_spend
=============================================================================

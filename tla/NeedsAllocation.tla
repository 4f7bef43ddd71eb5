-------------------------- MODULE NeedsAllocation --------------------------
(***************************************************************************)
(* How a pop splits its cash over the goods it needs before it places its  *)
(* orders: Pop::allocate_for_needs and its calls in pop_tick               *)
(* (population/Pop.cpp), one category of needs after the other.  Cash is   *)
(* shared by the inverse of prices, no good is given more than its         *)
(* quantity can cost tomorrow, and what that leaves over is shared again.  *)
(*                                                                         *)
(* Fixed point numbers are those of GoodMarket.                            *)
(***************************************************************************)
EXTENDS GoodMarket

CONSTANTS
  Good,          \* 1 .. n, in the order of the map of needs
  Category,      \* 1 .. k: life, everyday and luxury needs
  GoodPrices,    \* the prices goods may have
  NeededQuantities,
  Cashes

ASSUME NeedsAssumption ==
  /\ Good = 1 .. Cardinality(Good) /\ Category = 1 .. Cardinality(Category)
  /\ GoodPrices \subseteq Nat \ {0}
  /\ NeededQuantities \subseteq Nat /\ Cashes \subseteq Nat

VARIABLES
  good_price,        \* of every good
  needs,             \* of every category and good; 0 is no entry of the map
  cash,              \* cash_left_to_spend at first
  spending,          \* money_to_spend_per_good
  cash_left          \* cash_left_to_spend at last; -1 before the tick

needsVars == <<good_price, needs, cash, spending, cash_left>>

price_inverse(g) == Quotient(One * One, good_price[g])

(* get_max_money_to_allocate_to_buy_quantity *)
MaxMoneyFor(g, q) == Times(q, MaxNextPrice(good_price[g])) + Epsilon

(* Mutant of Charged: what a good is capped at is not taken off the cash. *)
Uncharged(d, most) == d.cash

(* What is left to share when a good has got its maximum. *)
Charged(d, most) == d.cash - most

(* One good in one round of the loop. *)
Allot(d, g, q) ==
  LET most == MaxMoneyFor(g, q)
      share == mul_div(d.cash, price_inverse(g), d.weights)
  IN  IF q = 0 \/ d.capped \/ d.draft[g] >= most THEN d
      ELSE IF share >= most
      THEN [draft |-> [h \in Good |-> IF h = g THEN most ELSE d.draft[h]],
            cash |-> Charged(d, most), weights |-> d.weights - price_inverse(g), capped |-> TRUE]
      ELSE [draft |-> [h \in Good |-> IF h # g THEN d.draft[h]
                         ELSE IF Over(share, MinNextPrice(good_price[g])) < Epsilon THEN 0 ELSE share],
            cash |-> d.cash, weights |-> d.weights, capped |-> FALSE]

(* The rounds go on while one capped a good and some weight is left. *)
allocate_for_needs(wanted, money) ==
  LET weights == Total([g \in {h \in Good : wanted[h] > 0} |-> price_inverse(g)])
      round(d, k) ==
        IF ~d.capped \/ d.weights <= 0 THEN d
        ELSE FoldLeft(LAMBDA e, g : Allot(e, g, wanted[g]), [d EXCEPT !.capped = FALSE],
                      [g \in Good |-> g])
  IN  FoldLeft(round, [draft |-> [g \in Good |-> 0], cash |-> money, weights |-> weights, capped |-> TRUE],
               [k \in 1 .. Cardinality(Good) + 1 |-> k]).draft

(* pop_tick: the categories in turn, while there is cash. *)
pop_tick ==
  LET category(d, k) ==
        IF d.left <= 0 THEN d
        ELSE LET draft == allocate_for_needs(needs[k], d.left)
             IN  [left |-> d.left - Total(draft),
                  money |-> [g \in Good |-> d.money[g] + draft[g]]]
      done == FoldLeft(category, [left |-> cash, money |-> [g \in Good |-> 0]], [k \in Category |-> k])
  IN  /\ cash_left = -1
      /\ spending' = done.money
      /\ cash_left' = done.left
      /\ UNCHANGED <<good_price, needs, cash>>

NeedsInit ==
  /\ good_price \in [Good -> GoodPrices]
  /\ needs \in [Category -> [Good -> NeededQuantities]]
  /\ cash \in Cashes
  /\ spending = [g \in Good |-> 0]
  /\ cash_left = -1

-----------------------------------------------------------------------------
(* Over all rounds and categories a pop never allocates more than its cash *)
(* nor more than a good can cost; the books of cash and money agree; and   *)
(* when money is left, nothing but rounding and shares too small to buy    *)
(* anything kept it from a good that could have had more.                  *)
AllocationWithinCash ==
  cash_left # -1 =>
    /\ cash_left >= 0
    /\ cash_left + Total(spending) = cash
    /\ \A g \in Good :
         /\ spending[g] >= 0
         /\ spending[g] <= Total([k \in Category |->
              IF needs[k][g] = 0 THEN 0 ELSE MaxMoneyFor(g, needs[k][g])])
    /\ (\A k \in Category : \A g \in Good : needs[k][g] > 0)
         => \/ cash_left <= Cardinality(Good) * (1 + Max(GoodPrices) \div One)
            \/ \A g \in Good : spending[g] = Total([k \in Category |-> MaxMoneyFor(g, needs[k][g])])
=============================================================================

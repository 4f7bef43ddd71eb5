----------------------------- MODULE Production -----------------------------
(***************************************************************************)
(* A resource gathering operation (economy/production/                     *)
(* ResourceGatheringOperation.cpp): every day it hires the workers of its  *)
(* province, puts what they produce on the market, and divides what that   *)
(* brings in between the owners of the state and its workers.              *)
(*                                                                         *)
(* Fixed point numbers are those of GoodMarket.                            *)
(***************************************************************************)
EXTENDS GoodMarket

CONSTANTS
  Laborer,             \* the pops of the province, 1 .. n, in order
  PopTypeOf,              \* pop type of each
  SlaveTypes,
  Jobs,                \* by pop type: [effect, multiplier, amount]
  OwnerPop,            \* the pops of the owners' type in the state
  OwnerJob,            \* [effect, multiplier]
  BASE_WORKFORCE_SIZE,
  BASE_OUTPUT_QUANTITY,
  WAGE_DENOMINATOR,    \* SIZE_DENOMINATOR: a minimum wage is for so many people
  LaborerSizes,        \* how many people the pops may have
  OwnerSizes,
  SizeModifiers,       \* of the technologies and of the province
  MinimumWageBases,    \* by pop type
  Revenues             \* what the output may bring in

ASSUME ProductionAssumption ==
  /\ Laborer = 1 .. Cardinality(Laborer) /\ DOMAIN PopTypeOf = Laborer
  /\ BASE_WORKFORCE_SIZE \in Nat \ {0} /\ WAGE_DENOMINATOR \in Nat \ {0}
  /\ BASE_OUTPUT_QUANTITY \in Nat
  /\ LaborerSizes \subseteq [Laborer -> Nat] /\ OwnerSizes \subseteq [OwnerPop -> Nat]
  /\ SizeModifiers \subseteq Nat /\ Revenues \subseteq Nat

VARIABLES
  laborers, owners,            \* their sizes on this day
  size_multiplier, max_employee_count,     \* set once, when the game starts
  employees,                   \* hired, by pop; 0 is no entry
  total_worker_count,          \* total_worker_count_in_province_cache
  output_quantity_yesterday,
  revenue_yesterday,
  minimum_wage,                \* minimum_wage_cached, by pop
  worker_income, owner_income, \* what the pops have got of it today
  rgo_at,                      \* "idle", "market" or "paid"
  skipped                      \* history: a pop was passed over whose minimum
                               \* wage had not been taken from the revenue

rgoVars == <<laborers, owners, size_multiplier, max_employee_count, employees, total_worker_count,
             output_quantity_yesterday, revenue_yesterday, minimum_wage, worker_income, owner_income,
             rgo_at, skipped>>

-----------------------------------------------------------------------------
Works(p) == PopTypeOf[p] \in DOMAIN Jobs
IsSlave(p) == PopTypeOf[p] \in SlaveTypes
WorkersIn(sizes) == Total([p \in {q \in Laborer : Works(q)} |-> sizes[p]])

(* initialise_rgo_size_multiplier *)
SizeMultiplier(sizes, modifier) ==
  IF modifier = 0 THEN 0
  ELSE LET workforces == Over((WorkersIn(sizes) * One) \div BASE_WORKFORCE_SIZE, modifier)
           ceiling == -((-workforces) \div One)
       IN  (3 * ceiling) \div 2
MaxEmployees(multiplier, modifier) == (modifier * multiplier * BASE_WORKFORCE_SIZE) \div One

(* hire: everyone, or all pops in proportion. *)
Hired(sizes) ==
  LET available == WorkersIn(sizes)
      proportion == IF max_employee_count >= available THEN One
                    ELSE (max_employee_count * One) \div available
  IN  [p \in Laborer |->
        IF ~Works(p) \/ max_employee_count <= 0 \/ available <= 0 THEN 0
        ELSE (proportion * sizes[p]) \div One]

(* produce, with the modifiers of country and province left at one *)
OwnersEffect(effect, sizes, owning) ==
  IF OwnerJob.effect # effect \/ Total(owning) = 0 THEN 0
  ELSE mul_div(OwnerJob.multiplier, Total(owning), Total(sizes) + Total(owning))

WorkersEffect(effect, hired) ==
  LET of(t) == Total([p \in {q \in Laborer : PopTypeOf[q] = t} |-> hired[p]])
      each(t) ==
        IF Jobs[t].multiplier # One /\ (of(t) * One) \div max_employee_count > Jobs[t].amount
        THEN Times(Jobs[t].multiplier, Jobs[t].amount)
        ELSE mul_div(Jobs[t].multiplier, of(t), max_employee_count)
  IN  Total([t \in {u \in DOMAIN Jobs : Jobs[u].effect = effect} |-> each(t)])

Produced(sizes, owning, modifier, hired) ==
  IF modifier = 0 \/ max_employee_count <= 0 THEN 0
  ELSE FoldLeft(Times, BASE_OUTPUT_QUANTITY,
         <<modifier, size_multiplier * One,
           One + OwnersEffect("throughput", sizes, owning), WorkersEffect("throughput", hired),
           One + OwnersEffect("output", sizes, owning), One + WorkersEffect("output", hired)>>)

-----------------------------------------------------------------------------
(* The pops have ticked, and forgotten what they got yesterday; a province *)
(* without an owner keeps its employees on the books.                      *)
rgo_tick(sizes, owning, modifier, owned) ==
  LET hired == Hired(sizes)
      output == Produced(sizes, owning, modifier, hired)
  IN  /\ rgo_at # "market"
      /\ laborers' = sizes /\ owners' = owning
      /\ worker_income' = [p \in Laborer |-> 0] /\ owner_income' = [o \in OwnerPop |-> 0]
      /\ skipped' = FALSE
      /\ IF ~owned
         THEN /\ output_quantity_yesterday' = 0 /\ revenue_yesterday' = 0
              /\ rgo_at' = "idle"
              /\ UNCHANGED <<employees, total_worker_count, minimum_wage>>
         ELSE /\ employees' = hired /\ total_worker_count' = WorkersIn(sizes)
              /\ output_quantity_yesterday' = output
              /\ rgo_at' = IF output > 0 THEN "market" ELSE "idle"
              /\ minimum_wage' = [p \in Laborer |-> 0]
              /\ UNCHANGED revenue_yesterday
      /\ UNCHANGED <<size_multiplier, max_employee_count>>

-----------------------------------------------------------------------------
Employed == {p \in Laborer : employees[p] > 0}
MinimumWages(bases) ==
  [p \in Laborer |-> IF IsSlave(p) \/ p \notin Employed THEN 0
                     ELSE (bases[PopTypeOf[p]] * employees[p]) \div WAGE_DENOMINATOR]

(* The revenue does not cover the minimum wages. *)
ScaledWages(revenue, wages) ==
  [p \in Laborer |-> IF p \notin Employed THEN 0
                     ELSE Greatest(mul_div(revenue, wages[p], Total(wages)), Epsilon)]

(* It does: the owners come first. *)
OwnerIncomes(revenue, wages) ==
  LET upper_limit == Least(One \div 2, One - Over(Total(wages), revenue))
      owner_share == Least((2 * Total(owners) * One) \div total_worker_count, upper_limit)
  IN  [o \in OwnerPop |->
        IF Total(owners) = 0 THEN 0
        ELSE Greatest(Times(revenue, mul_div(owner_share, owners[o], Total(owners))), Epsilon)]

(* Mutant of Raised: the wage is paid, but not out of the revenue. *)
RaisedForNothing(d, p, wage) ==
  [d EXCEPT !.income[p] = wage, !.count = @ - employees[p], !.taken = @ \cup {p}, !.restart = TRUE]

(* Who would get less than the minimum wage gets that, and the others      *)
(* share anew.                                                             *)
Raised(d, p, wage) ==
  [d EXCEPT !.income[p] = wage, !.left = @ - wage, !.count = @ - employees[p],
            !.taken = @ \cup {p}, !.restart = TRUE]

PayOne(d, p, wage) ==
  LET share == Greatest(mul_div(d.left, employees[p], d.count), Epsilon)
  IN  IF d.restart \/ IsSlave(p) THEN d
      ELSE IF wage > 0 /\ d.income[p] = wage THEN [d EXCEPT !.skipped = @ \/ p \notin d.taken]
      ELSE IF share < wage THEN Raised(d, p, wage)
      ELSE [d EXCEPT !.income[p] = share]

(* At most as many rounds as there are pops start again. *)
SharedWages(left, wages) ==
  LET paid == SelectSeq([p \in Laborer |-> p], LAMBDA p : p \in Employed)
      round(d, k) == IF ~d.restart THEN d
                     ELSE FoldLeft(LAMBDA e, p : PayOne(e, p, wages[p]), [d EXCEPT !.restart = FALSE], paid)
      count == Total([p \in {q \in Employed : ~IsSlave(q)} |-> employees[p]])
  IN  FoldLeft(round,
        [income |-> [p \in Laborer |-> 0], left |-> left, count |-> count, taken |-> {},
         restart |-> count > 0, skipped |-> FALSE],
        [k \in 1 .. Cardinality(Laborer) + 1 |-> k])

(* after_sell and pay_employees; bases is 0 when nobody reports. *)
after_sell(money_gained, bases) ==
  LET wages == MinimumWages(bases)
      to_owners == OwnerIncomes(money_gained, wages)
      shared == SharedWages(money_gained - Total(to_owners), wages)
  IN  /\ rgo_at = "market"
      /\ rgo_at' = "paid" /\ revenue_yesterday' = money_gained
      /\ IF money_gained <= 0 \/ total_worker_count <= 0
         THEN UNCHANGED <<minimum_wage, worker_income, owner_income, skipped>>
         ELSE /\ minimum_wage' = wages
              /\ IF money_gained <= Total(wages)
                 THEN /\ worker_income' = ScaledWages(money_gained, wages)
                      /\ UNCHANGED <<owner_income, skipped>>
                 ELSE /\ owner_income' = to_owners
                      /\ worker_income' = shared.income
                      /\ skipped' = shared.skipped
      /\ UNCHANGED <<laborers, owners, size_multiplier, max_employee_count, employees,
                     total_worker_count, output_quantity_yesterday>>

ProductionInit ==
  /\ laborers \in LaborerSizes /\ owners \in OwnerSizes
  /\ \E modifier \in SizeModifiers :
       /\ size_multiplier = SizeMultiplier(laborers, modifier)
       /\ max_employee_count = MaxEmployees(size_multiplier, modifier)
  /\ employees = [p \in Laborer |-> 0] /\ total_worker_count = 0
  /\ output_quantity_yesterday = 0 /\ revenue_yesterday = 0
  /\ minimum_wage = [p \in Laborer |-> 0] /\ worker_income = [p \in Laborer |-> 0]
  /\ owner_income = [o \in OwnerPop |-> 0] /\ rgo_at = "idle" /\ skipped = FALSE

ProductionNext ==
  \/ \E sizes \in LaborerSizes, owning \in OwnerSizes, modifier \in SizeModifiers, owned \in BOOLEAN :
       rgo_tick(sizes, owning, modifier, owned)
  \/ \E money \in Revenues, bases \in MinimumWageBases : after_sell(money, bases)

-----------------------------------------------------------------------------
PaidEmployees == {p \in Employed : ~IsSlave(p)}
Payees == Cardinality({p \in Laborer : worker_income[p] > 0}) + Cardinality({o \in OwnerPop : owner_income[o] > 0})
PaidOut == Total(worker_income) + Total(owner_income)

(* Rounding up gives a payee a unit that was not earned; and the owners'   *)
(* limit is a quotient that was rounded down.                              *)
RoundedUp ==
  Cardinality({p \in Laborer : worker_income[p] = Epsilon})
  + Cardinality({o \in OwnerPop : owner_income[o] = Epsilon})
  + IF Total(owners) = 0 THEN 0 ELSE 1 + revenue_yesterday \div One

(* No pop is hired beyond its size and no RGO beyond its places, though    *)
(* both may have changed since.  Of what the output brought in, no more is *)
(* paid out than there was, but for rounding; nothing is lost unless only  *)
(* slaves work; nobody is paid below the minimum wage while owners earn;   *)
(* and workers above it are paid alike.  A pop whose share is exactly its  *)
(* minimum wage breaks it (WagesFromRevenue).                              *)
ProductionSound ==
  /\ rgo_at = "market" => \A p \in Laborer : employees[p] \in 0 .. laborers[p]
  /\ Total(employees) <= max_employee_count
  /\ rgo_at = "paid" /\ revenue_yesterday > 0 /\ ~skipped =>
       /\ PaidOut <= revenue_yesterday + RoundedUp
       /\ PaidEmployees # {} => PaidOut >= revenue_yesterday - Payees
       /\ Total(owner_income) > 0 => \A p \in PaidEmployees : worker_income[p] >= minimum_wage[p]
       /\ Total(minimum_wage) < revenue_yesterday =>
            \A p, q \in {r \in PaidEmployees : worker_income[r] > minimum_wage[r]} :
              worker_income[p] * employees[q] <= (worker_income[q] + 1) * employees[p] + employees[q]

(* What is paid out is not more than there was ("skip minimum incomes ...  *)
(* required to spread the remaining revenue again", pay_employees).        *)
WagesFromRevenue == rgo_at = "paid" => PaidOut <= revenue_yesterday + RoundedUp
=============================================================================

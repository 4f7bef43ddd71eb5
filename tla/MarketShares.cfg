SPECIFICATION MarketSpec
CONSTANTS
  One = 4
  BasePrice = 3
  LinearChange = 1
  ExponentialShift = 2
  UsableMax = 6
  PricingRules = {FALSE}
  Quantities = {2, 4}
  MaxBuyers = 2
  MaxOrders = 3
  Region = {"FRA"}
  Stateless = "stateless"
INVARIANT
  BuyersCanAfford
CHECK_DEADLOCK FALSE

SPECIFICATION TreasuryAlone
CONSTANTS
  One = 4
  BasePrice = 3
  LinearChange = 1
  ExponentialShift = 2
  UsableMax = 6
  PricingRules = {FALSE}
  Quantities = {2}
  MaxBuyers = 1
  MaxOrders = 1
  Region = {"FRA"}
  Stateless = "stateless"
  Pop <- TwoPops
  SIZE_DENOMINATOR = 3
  SalaryBase <- Bases
  Populations <- SomePopulations
  Plans <- SomePlans
  EffectiveTaxRate = 1
  GoldIncomes = {0, 2}
  Stored <- TwoStored
  StoredPrice <- StoredPrices
  Purchases <- SomePurchases
  StartCashes = {3, 40}
  WeightMax = 32
  HalfWord = 512
  MaxDays = 2
  Laborer <- FiveLaborers
  PopTypeOf <- FarmTypes
  SlaveTypes = {"slave"}
  Jobs <- FarmJobs
  OwnerPop <- OneAristocracy
  OwnerJob <- AristocratJob
  BASE_WORKFORCE_SIZE = 2
  BASE_OUTPUT_QUANTITY = 4
  WAGE_DENOMINATOR = 3
  LaborerSizes <- FarmSizes
  OwnerSizes <- SomeAristocrats
  SizeModifiers <- OneToTwo
  MinimumWageBases <- WageBases
  Revenues <- SomeRevenues
  Ware <- FourWares
  WarePrice <- WarePrices
  Craft <- Crafts
  Unskilled = "unskilled"
  OutputOf <- Outputs
  QuantityOf <- OutputQuantities
  InputsOf <- InputQuantities
  WORKFORCE = 4
  ArtisanSizes = {3, 5}
  ArtisanCashes = {3, 9, 30}
  StartStocks <- SomeStocks
  OwnNeed <- OwnNeeds
  CostMultipliers = {4, 5}
  TaxRate = 1
  MaxArtisanDays = 2
INVARIANT NothingOverspent
CHECK_DEADLOCK FALSE

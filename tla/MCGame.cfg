SPECIFICATION GameSpec
CONSTANTS
  CountryOrder <- MCCountryOrder
  ProvinceOrder <- MCProvinceOrder
  OwnerOf <- MCOwnerOf
  Unowned = "nobody"
  EventOrder <- MCEventOrder
  KindOf <- MCKindOf
  TriggeredOnly = {"news", "riot"}
  FireOnlyOnce = {"levy"}
  ImmediateOf <- MCImmediateOf
  OptionsOf <- MCOptionsOf
  TablesOn <- MCTablesOn
  Seats = {"A"}
  Answers = {1, 3}
  MaxDay = 2
  MaxFirings = 24
  FIRED_EVENT_LOG_CAPACITY = 2
  MaxQueue = 3
  Days = 3
  NUM_SPEEDS = 2
  One = 4
  BasePrice = 3
  LinearChange = 1
  ExponentialShift = 2
  UsableMax = 6
  PricingRules <- BothRules
  Quantities <- OrderQuantities
  MaxBuyers = 2
  MaxOrders = 3
  Region <- OneCountry
  Stateless = "stateless"
  Good <- ThreeGoods
  Category <- TwoCategories
  GoodPrices <- TwoPrices
  NeededQuantities <- SomeNeeds
  Cashes <- SomeCash
  Pop <- TwoPops
  SIZE_DENOMINATOR = 3
  SalaryBase <- Bases
  Populations <- SomePopulations
  Plans <- SomePlans
  EffectiveTaxRate = 1
  GoldIncomes = {0, 2}
  Stored <- TwoStored
  StoredPrice <- StoredPrices
  Purchases <- SomePurchases
  StartCashes = {3, 40}
  WeightMax = 32
  HalfWord = 512
  MaxDays = 2
  Laborer <- FiveLaborers
  PopTypeOf <- FarmTypes
  SlaveTypes = {"slave"}
  Jobs <- FarmJobs
  OwnerPop <- OneAristocracy
  OwnerJob <- AristocratJob
  BASE_WORKFORCE_SIZE = 2
  BASE_OUTPUT_QUANTITY = 4
  WAGE_DENOMINATOR = 3
  LaborerSizes <- FarmSizes
  OwnerSizes <- SomeAristocrats
  SizeModifiers <- OneToTwo
  MinimumWageBases <- WageBases
  Revenues <- SomeRevenues
  Ware <- FourWares
  WarePrice <- WarePrices
  Craft <- Crafts
  Unskilled = "unskilled"
  OutputOf <- Outputs
  QuantityOf <- OutputQuantities
  InputsOf <- InputQuantities
  WORKFORCE = 4
  ArtisanSizes = {3, 5}
  ArtisanCashes = {3, 9, 30}
  StartStocks <- SomeStocks
  OwnNeed <- OwnNeeds
  CostMultipliers = {4, 5}
  TaxRate = 1
  MaxArtisanDays = 2
INVARIANTS
  NeverOverdue
  FiringsComplete
  ExecutedInOrder
  GamestateFresh
  GoodsConserved
  AllocationWithinCash
  TreasurySound
  ProductionSound
  ArtisanSound
PROPERTIES
  GameGoesOn
CHECK_DEADLOCK FALSE

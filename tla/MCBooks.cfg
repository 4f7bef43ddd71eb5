SPECIFICATION BooksSpec
CONSTANTS
  Province <- TwoProvinces
  Country <- TwoCountries
  Nobody = "nobody"
  RegionOf <- OneRegion
  ColonyOf <- AllStates
  Rules <- AllRules
  Technology <- Technologies
  Invention <- Inventions
  Feature <- Features
  Activates <- Activated
  UnitVariant <- Variants
  StartsUnlocked <- AtFirst
  AllowedCultures <- Cultures
  OutputGood <- Factories
  Before <- AreaOrder
  Levels <- HistoryLevels
  NoTechnology = "none"
  Contender <- FourCountries
  GreatRank = 2
  SecondaryRank = 3
  GraceDays = 1
  Elapses = {1}
  Group = {"army", "corps"}
  Leader = {"general", "admiral"}
  Power = {"FRA", "PRU"}
  Place = {"Metz", "Trier"}
  Branch <- Branches
  NoOne = "no one"
  Id <- FourPoints
  Distance <- Street
  Weights = {1}
  Togglable = {3}
  Searcher = {"astar", "fringe"}
  FixedMax = 100
  NoPoint = 0
  MaxCalls = 3
  Nation <- ThreeNations
  Topics <- TopicSets
  MaxMoves = 3
  Tile <- ThreeTiles
  Images <- SmallMaps
  RegionName = {"Alsace", "Lorraine"}
  RegionLists <- UpToTwo
  RegionImage <- NoProvinces
  CanalData = {0, 1}
  MaxLines = 2
  A = A
  B = B
  s1 = s1
  s2 = s2
  s3 = s3
  Types = {1, 2, 3}
  Components = {A, B}
  Programs <- MCPrograms
  MaxRegs = 3
  MaxSlots = 13
  GenMax = 3
  Systems = {s1, s2, s3}
  Scenarios <- MCScenarios
  StartWorld <- MCStart
INVARIANTS
  MapBooksAgree
  UnlocksAgree
  RanksSound
  UnitBooksAgree
  PathsSound
  DiplomacyAgrees
  MapDefined
  StagesRaceFree
  DeclaredOrder
  LayoutIgnoresRegistrationOrder
  StageDeterministic
VIEW BooksView
CHECK_DEADLOCK FALSE

SPECIFICATION MCSpec
SYMMETRY MCSymmetry
CONSTRAINT MCFollowed
CONSTANTS
  RingSize = 4
  Window = 3
  Samples <- MCSamples
  MemTotal = 500
  IntMax = 100000
  Cores = {x1, x2}
  FreqMax = 40
  MaxJiffies = 2
  CpuWord = 1000
  Ifaces = {x1, x2}
  Domains = {d1}
  VCPUs = 1
  MaxDt = 2
  MaxCount = 2
  CounterWord = 1000
  Sights <- MCSights
  NameLists <- MCNameLists
  Inventories = {"none", "camera"}
  CacheLimit = 2
  Neighbors = {"192.0.2.1", "192.0.2.2"}
  Payloads <- MCPayloads
  Day = 3
  Hour = 1
  MaxInstant = 6
  MaxRunning = 2
  Asks = {x1, x2}
  Versions <- MCVersions
  PerPage = 3
  OtherTags = 1
  TTL = 2
  Timeout = 1
  MaxClock = 4
  Editors = {p1}
  BrandCalls = {x1, x2}
  Images = {300}
  Colors = {"custom"}
  Hosts <- MCHosts
  YearLength = 1
  Stamps = {1, 2}
  MaxBoots = 3
  MaxDay = 1
  MaxLines = 3
  MaxFaults = 1
  Settings <- MCSettings
  Clients = {x1, x2}
  Grace = 2
  Shells = {x1, x2}
  MaxVersion = 3
  Persons = {"user", "other"}
  Emails = {"a", "b", "c"}
  Calls = {x1, x2}
INVARIANTS
  OlderOnesFit
  AxesForget
  LoadIsPercentage
  RatesNeverExceedCounts
  FollowsFromWhatIsKnown
  OperatorShownForADay
  WaitsForOneExchange
  ServesRecentVersion
  BrandingSurvivesRestart
  SavedLogoIsShown
  HistoryHoldsEachBoot
  HeatMapCountsBoots
  GracefulCutsNoRequest
  LockNamesABuilder
  
  RestsOnlyOnBuilt
  SessionKept

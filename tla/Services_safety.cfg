SPECIFICATION AllSpec
CONSTANTS
  Halves = {"sign-in", "identities", "keys", "roles", "systems", "routing", "alerts", "ingestion", "records", "gateway", "first session", "deprovisioning", "equipment", "users", "rules"}
  Rules = {"system", "input", "document", "amounts", "chain", "series", "query", "rollup", "statistics", "summary", "weather", "string", "park", "energy", "comparison"}
  Omitted = Omitted
  NotGiven = NotGiven
  Full = 100
  NoEnd = 9
  MaxCapacity = 6
  MaxModules = 3
  MaxModulePower = 3
  MaxStringPower = 6
  Revision = 2
  Catalog <- OneCatalog
  Plants <- SomePlants
  Dates = {1, 2, 3, 4}
  StringInputs <- SomeStringInputs
  Documents <- SomeDocuments
  Makes = {"m", "blank"}
  Limits = {0, 1, 2, 3}
  PageSize = 2
  Milli = 10
  Hour = 6
  MaxReset = 2
  Channels = {"c"}
  Incoming <- SomeIncoming
  Chains <- SomeChains
  Series <- SomeSeries
  Ranges <- SomeRanges
  Rollups <- FourRollups
  Width <- FourWidths
  Unit <- TwoUnits
  Detailed = "provenance"
  DefaultPoints = 5
  MostPoints = 20
  DefaultInterval = 2
  Earliest = 0
  LongestRange = 3000
  LargestEstimate = 3100
  Bodies <- SomeBodies
  Starts <- SomeStarts
  Summed = {"generation", "export", "revenue", "cost"}
  LargestSum = 9
  Samples <- SomeSamples
  Windows <- SomeWindows
  Statements <- SomeStatements
  Changes <- SomeChanges
  DaySets = {{1}, {1, 2}}
  One = 1000
  Standard = 10
  Warmth = 25
  Rise = 25
  RiseAt = 8
  MostOfNameplate = 125
  Minutes = 60
  Weather <- SomeWeather
  Suns <- SomeSuns
  ModelStrings <- SomeModelStrings
  Parks <- SomeParks
  Intervals <- SomeIntervals
  Comparisons <- SomeComparisons
  Requests = {c1, c2}
  Systems = {1, 2}
  MaxVersion = 3
  MaxFaults = 2
  Hashes = {"x", "y"}
  NoRole = NoRole
  NoKey = NoKey
  SessionLimit = 1
  MaxAttempts = 2
  MaxSessions = 2
  MaxChanges = 2
  Subjects = {"s1", "s2"}
  Withheld = {"s2"}
  MaxPeople = 4
  MaxKeys = 3
  MaxKeyFailures = 2
  Routers = {1, 2}
  RoutedAccounts = {"a", "b"}
  MaxPools = 1
  MaxConnections = 1
  IdleTimeout = 1
  LastInstant = 1
  MaxPoolsMade = 3
  Debounce = 1
  Cooldown = 2
  LastDay = 5
  MaxEvents = 2
  Batches <- SomeBatches
  MaximumConcurrent = 2
  MaximumItems = 2
  MaxArchived = 1
  RecordLifetime = 1
  LastNow = 2
  Home <- TwoHomes
  OwnAccount = "a"
  KeyOf <- TwoKeys
  Profiles <- ThreeProfiles
  MaxStoreChanges = 1
  Kinds <- OwnerAndManager
  Person = "u"
  Guests = {"g"}
  Procs = {1, 2}
  NoProc = 0
  Deprovisions = TRUE
  SlowOwners = TRUE
  MaxCrashes = 1
  MaxErrors = 0
  MaxMishaps = 2
  Inverters = {1}
  EditInputs <- SomeInputs
  Periods <- SomePeriods
  Forever = 9
  LastDate = 1
  MaxSaves = 2
  Administrators <- TwoAdministrators
  Emails = {"n"}
  MaxUsers = 3
  MaxInvitations = 1
  Managers = {"m"}
  Grantees = {"n"}
  CustomRoles = {"x", "y"}
  BuiltInRoles <- OneBuiltIn
  GrantedRoles <- OneGranted
  MaxRoleSaves = 2
SYMMETRY Symmetry
INVARIANTS
  SignInStands
  LastWayStays
  OneLiveKey
  AccessDecided
  CreatedIsWhole
  NoLostUpdate
  OneWriter
  OneOpenEvent
  
  EffectsAreEarned
  AnsweredIsSeated
  EquipmentStands
  
  EquipmentRulesHold
  ReadingsAreSound
  FiguresAddUp
PROPERTIES
  FirstResponseStands
  
CHECK_DEADLOCK FALSE

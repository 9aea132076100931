CONSTANTS
  r1 = r1
  r2 = r2
  Row = {r1, r2}
  Period = 3
  Threshold = 12
  MaxMissed = 2
  Sources <- SomeSources
  SaveEvery = 3
  ListLimit = 2
  MaxSyncs = 2
  MaxBreaks = 2
  Dates = 3
  JobLimit = 2
  MaxCommands = 2
  MaxQueries = 1
  coinU = "u"
  coinV = "v"
  Calls <- SomeCalls
  Modes <- SomeModes
  Listed = {"SUI"}
  Day = 6
  CacheTime = 2
  Granule = 2
  MaxCalls = 3
  MaxFailed = 1
  Swap <- SomeSwaps
  Metadata = {"SUI", "u"}
  MaxCheckpoint = 3
  Span = 1
  Attempts = 2
  MaxFeeds = 2
  MaxRefused = 2
  Listable = {"u", "v"}
  Cap <- Caps
  Minted = {"u"}
  Epoch = 3
  ListingLimit = 3
  MaxMinute = 6
  MaxListings = 2
  MaxUnpriced = 1
  TradeTime <- TradeTimes
  TradeLimit = 2
  CoinType <- CoinTypes
  CoinLimit = 2
  Misspelt = {"u"}
  MaxChanges = 2
SPECIFICATION MCSpec
SYMMETRY Rows
INVARIANTS
  ServicesTypeOK
  ReapedInTime
  LinesSyncedOnce
  ReportedMeansCompressed
  PricesJustified
  PricedInBothSinks
  TokensListed
  TradesPaged
  HoldingsShown
CHECK_DEADLOCK FALSE

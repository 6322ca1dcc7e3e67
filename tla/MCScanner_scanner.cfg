SPECIFICATION Spec
CONSTANTS
  A = A
  B = B
  C = C
  BTC = BTC
  ETH = ETH
  SOL = SOL
  Quote <- Quotes
  MAX_CACHE_SYMBOLS = 2
  MAX_CACHE_EXCHANGES = 2
  max_age = 1
  min_spread_pct = 1000
  ttl = 2
  MaxSeen = 1
  ReadCount = 2
  MaxStream = 4
  MaxTime = 3
  MaxFaults = 1
CHECK_DEADLOCK FALSE
INVARIANTS
  FromActivePrices
  CacheIsLatest
  NotRepeated
  CleaningIsInvisible
  MarkedIsPublished
  NothingMissed

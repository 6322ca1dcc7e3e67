SPECIFICATION Spec
CONSTANTS
  CryptoScale = 100
  NoSymbol = NoSymbol
  NoExchange = NoExchange
  A = A
  B = B
  C = C
  BTC = BTC
  Exchanges = {A, B, C}
  Assets = {BTC}
  InitialBalance <- Balances
  Opportunity <- AllKinds
  Slippage = {30}
  ReadCount = 2
  MaxStream = 3
  MaxErrors = 2
  MaxCrashes = 1
  MaxKills = 2
INVARIANTS
  BookedOnlyIfPublished
  BalancesExplained
  TradedOrDeadLettered
  CompleteWithoutFaults
  SolventInUsdt
  KillBound
PROPERTIES
  PositionLimit
  ConsumesOnce

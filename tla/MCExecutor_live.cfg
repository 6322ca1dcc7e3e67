SPECIFICATION FairSpec
CONSTANTS
  CryptoScale = 100
  NoSymbol = NoSymbol
  NoExchange = NoExchange
  A = A
  B = B
  C = C
  BTC = BTC
  Exchanges = {A, B, C}
  Assets = {BTC}
  InitialBalance <- Balances
  Opportunity <- Mixed
  Slippage = {30}
  ReadCount = 1
  MaxStream = 2
  MaxErrors = 1
  MaxCrashes = 1
  MaxKills = 2
PROPERTIES
  KillQuiesces
  EntriesHandled

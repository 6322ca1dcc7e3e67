SPECIFICATION Spec
CONSTANTS
  CryptoScale = 100
  NoSymbol = NoSymbol
  NoExchange = NoExchange
  A = A
  B = B
  C = C
  BTC = BTC
  Exchanges = {A, B, C}
  Assets = {BTC}
  InitialBalance <- Balances
  Opportunity <- OneKind
  Slippage = {30}
  ReadCount = 2
  MaxStream = 2
  MaxErrors = 0
  MaxCrashes = 0
  MaxKills = 0
INVARIANTS
  PnlMatchesBalances

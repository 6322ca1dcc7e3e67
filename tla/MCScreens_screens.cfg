SPECIFICATION Spec
CONSTANTS
  OppRows <- MCOppRows
  TradeRows <- MCTradeRows
  MaxPrices = 2
  MaxOpportunities = 2
  MaxTrades = 3
  AnswerLimit = 2
  MaxHeard = 4
  Values = {0, 1, 2}
  Default <- MCDefault
  CsrfChecked = FALSE
  MaxVisits = 2
  MaxSaves = 2
  MaxSlides = 3
  None = None
  Absent = Absent
  Blank = Blank
INVARIANTS ListsAreLatest PagesAgree OriginalIsStored CarouselAgrees ShownAsGiven
PROPERTY SidebarCoherent
CHECK_DEADLOCK FALSE

SPECIFICATION Spec
CONSTANTS
  tA = tA
  tB = tB
  Jobs = {"following", "pricing", "recording"}
  Orders <- MCOrders
  Fee = 1
  Price = 2
  CutoffDelay = 1
  StartBlock = 1
  MaxRange = 1
  NoCheckpoint = NoCheckpoint
  NoTicket = NoTicket
  MaxTickets = 2
  MaxNow = 2
  MaxStops = 1
  MaxLoad = 3
  Holdings <- MCHoldings
  Catalog = {tA}
  Stubs = {}
  StaleThreshold = 1
  NoPrice = NoPrice
  MayBeZero = {tA}
  MaxClock = 3
  Basket <- MCHoldings
  Balance <- MCBalance
  HeldLists <- MCHeldLists
  Supply = 2
  Quotes <- MCQuotes
  MaxSources <- MCMaxSources
  Settings <- MCSettings
  Defaults <- MCDefaults
  Windows = {1, 2}
  MAX_PASSES = 20
  BPS = 10000
  UNIT = 1
  MaxBlockTime = 2
INVARIANTS
  SyncTypeOK
  CutoffNeverLate
  NothingFillableIsLeftOut
  IronRule
  OneSourceIsHeld
  TwapIsOfItsWindow
PROPERTIES
  CommitIsExact
  ClosedUnlessReplaying
  DueTicketsSettle
\* requests and time are bounded, and nothing has to go on then
CHECK_DEADLOCK FALSE

SPECIFICATION Spec
CONSTANTS
  alice = alice
  bob = bob
  queue = queue
  ap = ap
  treasury = treasury
  keeperModule = keeperModule
  keeperBot = keeperBot
  market = market
  Users <- MCUsers
  Queue <- queue
  AP <- ap
  Treasury <- treasury
  KeeperModule <- keeperModule
  Keeper <- keeperBot
  Market <- market
  InitCash <- MCInitCash
  InitShares <- MCInitShares
  InitSupply = 7
  InitParams <- MCConfigured
  InitKeeper <- MCExecutor
  UnitSize = 2
  IsRegistry = FALSE
  BPS = 4
  WAD = 2
  ONE = 4
  MAX_SPREAD_BPS = 1
  MIN_CUTOFF_DELAY = 1
  MAX_CUTOFF_DELAY = 2
  FLAT_FEE_MAX = 1
  Amounts = {3}
  Readings <- MCReadings
  Overpay <- MCUnderpay
  Accruals <- MCAccruals
  Delays = {}
  Executors = {}
  Spreads = {}
  Capacities = {0}
  Tips = {2}
  Gates = {}
  MaxRewards = {}
  FlatFees = {}
  MaxTickets = 2
  MaxBatch = 2
  MaxNow = 2
  MaxSupply = 7
SYMMETRY Symmetry
INVARIANTS
  TypeOK
  EscrowExact
  BatchOrderIrrelevant
PROPERTIES
  RolloverCancelable
  OneStrikePerBatch
  TipOnlyForWork
  RefinesEscrow

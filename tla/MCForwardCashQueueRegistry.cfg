SPECIFICATION Spec
CONSTANTS
  alice = alice
  bob = bob
  queue = queue
  ap = ap
  treasury = treasury
  keeperModule = keeperModule
  keeperBot = keeperBot
  market = market
  Users <- MCUsers
  Queue <- queue
  AP <- ap
  Treasury <- treasury
  KeeperModule <- keeperModule
  Keeper <- keeperBot
  Market <- market
  InitCash <- MCInitCash
  InitShares <- MCInitShares
  InitSupply = 7
  InitParams <- MCDeployed
  InitKeeper <- MCNotExecutor
  UnitSize = 2
  IsRegistry = TRUE
  BPS = 4
  WAD = 2
  ONE = 4
  MAX_SPREAD_BPS = 1
  MIN_CUTOFF_DELAY = 1
  MAX_CUTOFF_DELAY = 2
  FLAT_FEE_MAX = 1
  Amounts = {3}
  Readings <- MCAnyReading
  Overpay <- MCOverpay
  Accruals <- MCNoAccruals
  Delays = {2}
  Executors = {TRUE}
  Spreads = {1}
  Capacities = {}
  Tips = {}
  Gates <- MCGates
  MaxRewards = {1}
  FlatFees = {1}
  MaxTickets = 2
  MaxBatch = 2
  MaxNow = 2
  MaxSupply = 0
SYMMETRY Symmetry
INVARIANTS
  EscrowExact
PROPERTIES
  OneStrikePerBatch
  RefinesEscrow

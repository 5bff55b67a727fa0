SPECIFICATION Spec
CONSTANTS
  alice = alice
  bob = bob
  curator = curator
  house = house
  escrow = escrow
  vault = vault
  A = A
  B = B
  C = C
  Vault <- vault
  KeeperEscrow <- escrow
  Accounts <- MCAccounts
  Users <- MCOneUser
  Tokens <- MCOneToken
  Officers <- MCOfficers
  Treasuries = {}
  IsRegistry = FALSE
  UnitSize = 2
  BPS = 4
  YEAR = 2
  SCALE = 2
  TIMELOCK = 1
  MANAGER_MAX = 2
  PLATFORM_FEE_MAX = 1
  KEEPER_MAX = 1
  FLAT_FEE_MAX = 1
  Recipes <- MCTwoRecipes
  InitRecipe <- MCSingle
  InitRate <- MCFees
  Rates = {0, 1}
  FeeTokens = {}
  Grantees = {}
  FlatFees = {}
  Units = {2}
  Quantities = {}
  Floors = {}
  MaxLegs = 0
  MaxShares = 5
  MaxCoins = 20
  MaxGifts = 0
  MaxNow = 2
INVARIANTS
  TypeOK
PROPERTIES
  RemainingBacking
  PreviewExact
  FeesCharged
  NoticeGiven
CHECK_DEADLOCK FALSE

SPECIFICATION AuctionSpec
CONSTANTS
  curator = curator
  bob = bob
  house = house
  escrow = escrow
  guard = guard
  vault = vault
  A = A
  C = C
  Vault <- vault
  KeeperEscrow <- escrow
  Accounts <- MCAccounts
  Users <- MCUsers
  Tokens <- MCTokens
  Officers <- MCOfficers
  Treasuries = {}
  IsRegistry = FALSE
  UnitSize = 1
  BPS = 4
  YEAR = 1
  SCALE = 2
  TIMELOCK = 1
  MANAGER_MAX = 2
  PLATFORM_FEE_MAX = 1
  KEEPER_MAX = 4
  FLAT_FEE_MAX = 0
  Recipes <- MCRecipes
  InitRecipe <- MCGenesis
  InitRate <- MCRates
  Rates = {}
  FeeTokens = {}
  Grantees = {"executor"}
  FlatFees = {}
  Units = {3}
  Quantities = {1}
  Floors = {}
  MaxLegs = 0
  MaxShares = 4
  MaxCoins = 3
  MaxGifts = 0
  MaxNow = 2
  MaxTip = 2
  InitKeeper <- MCKeeperModule
  Plans <- MCPlans
  Openers <- MCOpeners
  Caps = {0, 2}
  Switches = {TRUE}
INVARIANTS
  AuctionTypeOK
  FillableUntilTouched
PROPERTIES
  FillsAsAnnounced
  EscrowPaysTips
CHECK_DEADLOCK FALSE

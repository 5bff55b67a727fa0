SPECIFICATION Spec
CONSTANTS
  alice = alice
  bob = bob
  curator = curator
  house = house
  escrow = escrow
  vault = vault
  A = A
  B = B
  C = C
  Vault <- vault
  KeeperEscrow <- escrow
  Accounts <- MCBareAccounts
  Users <- MCTwoUsers
  Tokens <- MCTwoTokens
  Officers <- MCNoOfficers
  Treasuries = {}
  IsRegistry = TRUE
  UnitSize = 2
  BPS = 4
  YEAR = 2
  SCALE = 2
  TIMELOCK = 1
  MANAGER_MAX = 2
  PLATFORM_FEE_MAX = 1
  KEEPER_MAX = 1
  FLAT_FEE_MAX = 1
  Recipes <- MCBareRecipes
  InitRecipe <- MCBareGenesis
  InitRate <- MCNoFees
  Rates = {}
  FeeTokens = {}
  Grantees = {"executor", "settler"}
  FlatFees = {}
  Units = {1, 2}
  Quantities = {1}
  Floors = {0, 1}
  MaxLegs = 2
  MaxShares = 3
  MaxCoins = 2
  MaxGifts = 1
  MaxNow = 0
SYMMETRY Symmetry
INVARIANTS
  CustodySet
  ClaimsBacked
CHECK_DEADLOCK FALSE

SPECIFICATION DeployedSpec
CONSTANTS
  alice = alice
  bob = bob
  curator = curator
  house = house
  escrow = escrow
  vault = vault
  A = A
  B = B
  C = C
  Vault <- vault
  KeeperEscrow <- escrow
  Accounts <- MCAccounts
  Users <- MCOneUser
  Tokens <- MCThreeTokens
  Officers <- MCIncumbents
  Treasuries <- MCOneUser
  IsRegistry = FALSE
  UnitSize = 2
  BPS = 4
  YEAR = 2
  SCALE = 2
  TIMELOCK = 1
  MANAGER_MAX = 2
  PLATFORM_FEE_MAX = 1
  KEEPER_MAX = 1
  FLAT_FEE_MAX = 1
  Recipes <- MCThreeLegRecipes
  InitRecipe <- MCThreeLegs
  InitRate <- MCUnitFees
  Rates = {0, 1}
  FeeTokens = {TRUE, FALSE}
  Grantees = {"executor"}
  FlatFees = {0, 1}
  Units = {1, 2}
  Quantities = {1}
  Floors = {0, 1}
  MaxLegs = 2
  MaxShares = 6
  MaxCoins = 2
  MaxGifts = 1
  MaxNow = 2
INVARIANTS
  CustodySet
  FlatFeePayable
  NeverUnderCollateralized
PROPERTIES
  StayersKeepUnits
CHECK_DEADLOCK FALSE

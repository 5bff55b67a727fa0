-------------------------- MODULE MCRebalanceVault --------------------------
(***************************************************************************)
(* Small instances of the vault.  BPS * YEAR = 8 makes a rate of 1 an      *)
(* eighth of the fund per tick, SCALE = 2 carries half shares.             *)
(***************************************************************************)
EXTENDS RebalanceVault, TLC

CONSTANTS alice, bob, curator, house, escrow, vault, A, B, C

MCOneUser == {alice}
MCOneToken == {A}
MCTwoUsers == {alice, bob}
MCTwoTokens == {A, B}
MCThreeTokens == {A, B, C}
MCAccounts == {alice, curator, house, escrow}
MCBareAccounts == {alice, bob, escrow}

MCOfficers == [manager |-> curator, meridian |-> house, treasury |-> house]
MCIncumbents == [manager |-> alice, meridian |-> alice, treasury |-> house]
MCNoOfficers == [manager |-> escrow, meridian |-> escrow, treasury |-> escrow]

MCNoFees == [manager |-> 0, platform |-> 0, keeper |-> 0]
MCFees == [manager |-> 1, platform |-> 0, keeper |-> 1]

MCBareGenesis == << [token |-> A, amount |-> 1], [token |-> B, amount |-> 1] >>
MCSingle == << [token |-> A, amount |-> 1] >>
MCReweighted == << [token |-> A, amount |-> 2] >>
MCBareRecipes == {MCBareGenesis}
MCThreeLegs == MCBareGenesis \o << [token |-> C, amount |-> 1] >>
MCHeavyLegs == MCBareGenesis \o << [token |-> C, amount |-> 2] >>
MCThreeLegRecipes == {MCThreeLegs, MCBareGenesis, MCHeavyLegs}
MCSingleRecipe == {MCSingle}
MCTwoRecipes == {MCSingle, MCReweighted}

Symmetry == Permutations(Users)
=============================================================================

------------------------ MODULE MCRebalanceAuction ------------------------
(***************************************************************************)
(* A small instance of a vault and its auction.  The manager fee is all the*)
(* keepers': three shares earn the escrow one more in a tick.              *)
(***************************************************************************)
EXTENDS RebalanceAuction

CONSTANTS curator, bob, house, escrow, guard, vault, A, C

MCAccounts == {curator, bob, house, escrow, guard}
MCUsers == {bob}
MCTokens == {A, C}
MCOpeners == {curator, guard}
MCCurator == {curator}
MCOfficers == [manager |-> curator, meridian |-> house, treasury |-> house]
MCRates == [manager |-> 1, platform |-> 0, keeper |-> 4]
MCNoRates == [MCRates EXCEPT !.manager = 0]
MCGenesis == << [token |-> A, amount |-> 1] >>
MCRecipes == {MCGenesis}

MCKeeperModule == [isExecutor |-> TRUE, maxRewardPerCall |-> 1]

Out(t, n) == [token |-> t, amount |-> n]
In(t, from, to) == [token |-> t, startIn |-> from, endIn |-> to]
PlanOf(release, acquire, d) == [release |-> release, acquire |-> acquire, duration |-> d]

MCSwap == PlanOf(<<Out(A, 1)>>, <<In(C, 2, 1)>>, 2)
MCQuick == PlanOf(<<Out(A, 2)>>, <<In(C, 1, 0)>>, 1)
MCRefused == {PlanOf(<<Out(A, 1)>>, << >>, 1), PlanOf(<<Out(A, 1)>>, <<In(A, 1, 1)>>, 1),
              PlanOf(<<Out(A, 1)>>, <<In(C, 1, 2)>>, 1), PlanOf(<<Out(A, 1)>>, <<In(C, 1, 1)>>, 0)}
MCPlans == {MCSwap, MCQuick} \cup MCRefused
MCOnePlan == {MCSwap}
=============================================================================

----------------------------- MODULE MCUnitVault -----------------------------
(***************************************************************************)
(* One vault of any kind but the registry's, as the factory deploys it.  A *)
(* managed rebalance vault swaps and changes hands at one moment; the      *)
(* others live through time, fees and donations with their roles as they   *)
(* are.                                                                    *)
(***************************************************************************)
EXTENDS MCRebalanceVault, UnitVault

MCUnitFees == [manager |-> 2, platform |-> 1, keeper |-> 0]

DeployedInit == UnitInit \/ (kind = "REBALANCE" /\ Init)

Swapping == kind = "REBALANCE" /\ Next /\ UNCHANGED <<now, feeState, gifts, target, kind>>

Holding == kind \in UnitKinds /\ UnitNext /\ UNCHANGED roles

DeployedNext == Swapping \/ Holding

DeployedSpec == DeployedInit /\ [][DeployedNext]_unitVars
=============================================================================

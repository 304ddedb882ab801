---------------------------- MODULE MCCostRoutes ----------------------------
(* CostRoutes for TLC.                                                      *)
EXTENDS CostRoutes, TLC

MCSymmetry == Permutations(Threads) \cup Permutations(Accounts)
=============================================================================

----------------------------- MODULE MCCostStore -----------------------------
(* CostStore for TLC: three threads that share a store, as in its contract, *)
(* and one with a store of its own, as get_cost_source makes them.          *)
EXTENDS CostStore, TLC

CONSTANTS t1, t2, t3, t4, shared, own

MCStoreOf == [t \in Threads |-> IF t = t4 THEN own ELSE shared]

MCSymmetry == Permutations(Threads \ {t4}) \cup Permutations(Locks)
=============================================================================

---------------------------- MODULE MCSqliteCache ----------------------------
(* An instance of SqliteCache for TLC: two threads, a key that may be      *)
(* served stale and one that may not, as the defaults of deps.py and the    *)
(* closed windows of cost_store.py.                                         *)
EXTENDS SqliteCache

CONSTANTS k1, k2

MCKeys == {k1, k2}
MCTtl == [k \in MCKeys |-> 1]
MCSwr == [k \in MCKeys |-> IF k = k1 THEN 1 ELSE 0]
=============================================================================

---------------------------- MODULE MCRefreshPool ----------------------------
(* RefreshPool for TLC: more keys than slots, more slots than workers.      *)
EXTENDS RefreshPool
=============================================================================

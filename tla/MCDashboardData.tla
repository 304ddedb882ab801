--------------------------- MODULE MCDashboardData ---------------------------
(* DashboardData for TLC: one hook, whose loads meet each other, what other *)
(* tabs do to the storage they share, and the clock; of three keys one is   *)
(* too large to be kept.                                                    *)
EXTENDS DashboardData
=============================================================================

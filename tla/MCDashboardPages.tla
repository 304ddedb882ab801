-------------------------- MODULE MCDashboardPages --------------------------
(* DashboardPages for TLC: the app opened at a bare address with a profile *)
(* saved that is gone, at a page that does not exist, or at an old link.   *)
EXTENDS DashboardPages

MCPages == {"dashboard", "services", "resources", "audit", "export"}

Open(page, profile, period, was) ==
  [url   |-> [page |-> page, profile |-> profile, period |-> period],
   saved |-> [profile |-> was, period |-> NoValue]]

MCOpens ==
  {Open(NoValue, NoValue, NoValue, "gone"), Open(Bogus, NoValue, "mtd", NoValue),
   Open("audit", "gone", "mtd", NoValue)}
=============================================================================

--------------------------- MODULE MCResourcesPage ---------------------------
(* ResourcesPage for TLC: two accounts, one with more rows than the server  *)
(* returns, and a service with less than the first limit and one with more. *)
EXTENDS ResourcesPage

MCTotal == [a1 |-> [all |-> 7, ec2 |-> 5, s3 |-> 1], a2 |-> [all |-> 3, ec2 |-> 3, s3 |-> 0]]
=============================================================================

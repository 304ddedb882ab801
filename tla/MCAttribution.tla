---------------------------- MODULE MCAttribution ----------------------------
(* Instances of Attribution for TLC: two regions, amounts in cents.         *)
EXTENDS Attribution

MCRegions == 1..2
Zero == [s \in CeServices |-> 0]
Halves(c) == [r \in MCRegions |-> IF r = 1 THEN c \div 3 ELSE c - (c \div 3)]
BillOf(total) ==
  [total |-> total, regional |-> [l \in RegionalSplit |-> Halves(total[l])]]

\* A region's volumes are priced at 20 and its gateways at 60.  Of a shared
\* pool of 110, two gateways overrun it, one leaves 50 that any volumes are
\* scaled to, and without one a region's volumes are beyond the band while
\* those of two regions are within.
MCBills ==
  {BillOf([Zero EXCEPT !["EC2"] = 50, !["EC2Other"] = 110, !["Lambda"] = 9,
                       !["VPC"] = 12, !["Unlisted"] = 7])}
MCPrices ==
  [l \in Priced |->
     CASE l = "EBS" -> {20} [] l = "NATGateway" -> {60} [] OTHER -> {}]

\* Bills of services that split their total, and nothing else.
MCSplitBills == {BillOf([Zero EXCEPT !["Lambda"] = 9, !["ECR"] = 6])}
=============================================================================

-------------------------- MODULE AttributionProofs --------------------------
(* Theorems about Attribution, for any regions, bills, prices and number of *)
(* workers.                                                                 *)
EXTENDS Attribution, TLAPS

-----------------------------------------------------------------------------
(* The inductive invariant                                                 *)

\* Only EC2 and EBS use the shared scans; who scans holds the region's lock,
\* and its scan is the first.
ScansGuarded ==
  \A u \in Units :
    /\ at[u] \in {"look", "queued", "scan"} => u \in Scanners
    /\ at[u] = "scan" =>
         holder[PlaceOf(u)] = u /\ instances[PlaceOf(u)] = "missing"

\* When the caller is done the answer is the reconciliation of all the rows.
AnswerReconciled ==
  phase = "done" =>
    /\ \A u \in Units : at[u] \in {"ok", "failed"}
    /\ cost = Reconciled(raw)
    /\ extra = OtherRows(cost)

IInv == TypeOK /\ ScansGuarded /\ AnswerReconciled

-----------------------------------------------------------------------------
(* Lemmas about the definitions                                            *)

LEMMA UnitPlaces ==
  ASSUME NEW u \in Units
  PROVE  /\ LabelOf(u) \in Labels
         /\ u \in Scanners => PlaceOf(u) \in Regions
         /\ LabelOf(u) \in RegionalSplit => PlaceOf(u) \in Regions
BY DEF Units, LabelOf, PlaceOf, Scanners, Labels, Global, GlobalSplit, Priced, RegionalSplit

LEMMA BillType ==
  ASSUME bill \in Bills
  PROVE  /\ bill.total \in [CeServices -> Nat]
         /\ bill.regional \in [RegionalSplit -> [Regions -> Nat]]
BY AttributionAssumption DEF Bill

LEMMA TotalsType ==
  ASSUME TypeOK PROVE totals \in [CeServices -> Nat]
BY BillType DEF TypeOK, NoMoney

LEMMA OwnService ==
  ASSUME NEW l \in Labels \ {"EBS", "NATGateway", "EIP"} PROVE l \in CeServices
BY DEF CeServices

LEMMA RowSumsNat ==
  ASSUME TypeOK, NEW u \in Units PROVE RowSums(u) \subseteq Nat
<1> DEFINE l == LabelOf(u)
<1>1. totals \in [CeServices -> Nat]
  BY TotalsType
<1>2. CASE l \in RegionalSplit
  <2>1. PlaceOf(u) \in Regions
    BY <1>2, UnitPlaces
  <2>2. l \in CeServices
    BY <1>2, OwnService DEF RegionalSplit, Labels
  <2>3. bill.regional[l][PlaceOf(u)] \in Nat
    BY <1>2, <2>1, BillType DEF TypeOK
  <2>4. RegionalTotal(l, PlaceOf(u)) \in Nat
    BY <1>1, <2>2, <2>3 DEF RegionalTotal
  <2>5. l \notin GlobalSplit
    BY <1>2 DEF RegionalSplit, GlobalSplit
  <2>6. RowSums(u) = {0, RegionalTotal(l, PlaceOf(u))}
    BY <1>2, <2>5 DEF RowSums
  <2> QED BY <2>4, <2>6
<1>3. CASE l \in GlobalSplit
  <2>1. l \in CeServices /\ l \notin RegionalSplit
    BY <1>3, OwnService DEF GlobalSplit, RegionalSplit, Labels
  <2> QED BY <1>1, <1>3, <2>1 DEF RowSums
<1>4. CASE l \notin RegionalSplit /\ l \notin GlobalSplit
  <2>1. l \in Priced
    BY <1>4, UnitPlaces DEF Labels
  <2>2. Prices[l] \subseteq Nat
    BY <2>1, AttributionAssumption
  <2> QED BY <1>4, <2>2 DEF RowSums
<1> QED BY <1>2, <1>3, <1>4

LEMMA ReconciledType ==
  ASSUME TypeOK, NEW rows \in [Labels -> Nat]
  PROVE  Reconciled(rows) \in [Labels -> Nat]
<1>1. totals \in [CeServices -> Nat]
  BY TotalsType
<1>2. totals["EC2Other"] \in Nat /\ rows["NATGateway"] \in Nat
  BY <1>1 DEF CeServices, Labels, Priced
<1>3. VolumePool(rows) \in Nat
  BY <1>2 DEF VolumePool
<1> SUFFICES ASSUME NEW l \in Labels
             PROVE  Reconciled(rows)[l] \in Nat
  BY DEF Reconciled
<1>4. CASE l = "EBS"
  BY <1>3, <1>4 DEF Reconciled, Rescaled
<1>5. CASE l \in {"RDS", "ELB"}
  <2>1. totals[l] \in Nat
    BY <1>1, <1>5 DEF CeServices, Labels, Priced
  <2> QED BY <1>5, <2>1 DEF Reconciled, Rescaled
<1>6. CASE l \in {"Lambda", "DynamoDB"}
  <2>1. totals[l] \in Nat
    BY <1>1, <1>6 DEF CeServices, Labels, RegionalSplit
  <2> QED BY <1>6, <2>1 DEF Reconciled, Normalised
<1>7. CASE l \notin {"EBS", "RDS", "ELB", "Lambda", "DynamoDB"}
  BY <1>7 DEF Reconciled
<1> QED BY <1>4, <1>5, <1>6, <1>7

LEMMA InRowsType ==
  ASSUME NEW rows \in [Labels -> Nat], NEW s \in CeServices
  PROVE  InRows(rows, s) \in Nat
<1>1. rows["EBS"] \in Nat /\ rows["NATGateway"] \in Nat /\ rows["EIP"] \in Nat
  BY DEF Labels, Priced
<1>2. s \notin {"EC2Other", "VPC", "Unlisted"} => rows[s] \in Nat
  BY DEF CeServices
<1> QED BY <1>1, <1>2 DEF InRows

\* What OtherRows adds to a service: nothing, or what its bill exceeds its rows by.
LEMMA OtherRowsFillGap ==
  ASSUME TypeOK, NEW rows \in [Labels -> Nat], NEW s \in CeServices
  PROVE  /\ OtherRows(rows)[s] \in Nat
         /\ OtherRows(rows)[s] \in {0, totals[s] - InRows(rows, s)}
         /\ s \in RemainderPools /\ Asked(s) /\ totals[s] > InRows(rows, s) + 1 =>
              OtherRows(rows)[s] = totals[s] - InRows(rows, s)
<1>1. totals[s] \in Nat
  BY TotalsType
<1>2. InRows(rows, s) \in Nat
  BY InRowsType
<1>3. s \notin Aggregated \/ s \notin RemainderPools
  BY DEF Aggregated, RemainderPools
<1>4. CASE s \in Aggregated
  BY <1>1, <1>2, <1>3, <1>4 DEF OtherRows, Aggregate
<1>5. CASE s \in RemainderPools
  <2>1. OtherRows(rows)[s] = Remainder(rows, s)
    BY <1>3, <1>5 DEF OtherRows
  <2> QED BY <1>1, <1>2, <1>3, <1>5, <2>1 DEF Remainder, Asked
<1>6. CASE s \notin Aggregated /\ s \notin RemainderPools
  BY <1>6 DEF OtherRows
<1> QED BY <1>4, <1>5, <1>6

-----------------------------------------------------------------------------
(* The invariant                                                           *)

LEMMA InitInv == Init => IInv
<1> SUFFICES ASSUME Init PROVE IInv
  OBVIOUS
<1>1. NoMoney \in [CeServices -> Nat] /\ NoRows \in [Labels -> Nat]
  BY DEF NoMoney, NoRows
<1>2. TypeOK
  BY <1>1 DEF Init, TypeOK
<1>3. ScansGuarded
  BY DEF Init, ScansGuarded
<1>4. AnswerReconciled
  BY DEF Init, AnswerReconciled
<1> QED BY <1>2, <1>3, <1>4 DEF IInv

\* A unit's steps: all are steps of the fan-out, and leave the answer alone.
LEMMA UnitStepType ==
  ASSUME TypeOK, ScansGuarded, NEW u \in Units, UnitStep(u)
  PROVE  TypeOK'
<1>0. UNCHANGED <<phase, bill, totals, scoped, cost, extra>>
  BY DEF UnitStep, Start, Look, Lock, Scan, Attribute, Fail
<1>1. CASE Start(u)
  BY <1>0, <1>1 DEF TypeOK, Start
<1>2. CASE Look(u)
  BY <1>0, <1>2 DEF TypeOK, Look
<1>3. CASE Lock(u)
  BY <1>0, <1>3 DEF TypeOK, Lock
<1>4. CASE Scan(u)
  BY <1>0, <1>4 DEF TypeOK, Scan
<1>5. CASE Attribute(u)
  <2>1. PICK sum \in RowSums(u) : raw' = [raw EXCEPT ![LabelOf(u)] = @ + sum]
    BY <1>5 DEF Attribute
  <2>2. sum \in Nat
    BY RowSumsNat
  <2>3. raw' \in [Labels -> Nat]
    BY <2>1, <2>2, UnitPlaces DEF TypeOK
  <2>4. at' \in [Units -> {"waiting", "look", "queued", "scan", "attribute", "ok", "failed"}]
    BY <1>5 DEF Attribute, TypeOK
  <2> QED BY <1>0, <1>5, <2>3, <2>4 DEF TypeOK, Attribute
<1>6. CASE Fail(u)
  BY <1>0, <1>6 DEF TypeOK, Fail
<1> QED BY <1>1, <1>2, <1>3, <1>4, <1>5, <1>6 DEF UnitStep

LEMMA UnitStepScans ==
  ASSUME TypeOK, ScansGuarded, NEW u \in Units, UnitStep(u)
  PROVE  ScansGuarded'
<1> SUFFICES ASSUME NEW v \in Units
             PROVE  /\ at'[v] \in {"look", "queued", "scan"} => v \in Scanners
                    /\ at'[v] = "scan" =>
                         holder'[PlaceOf(v)] = v /\ instances'[PlaceOf(v)] = "missing"
  BY DEF ScansGuarded, Scanners
<1>0. v # u => at'[v] = at[v]
  BY DEF UnitStep, Start, Look, Lock, Scan, Attribute, Fail, TypeOK
<1>1. v \in Scanners => PlaceOf(v) \in Regions
  BY UnitPlaces
<1>2. u \in Scanners => PlaceOf(u) \in Regions
  BY UnitPlaces
<1>3. u # Nobody /\ v # Nobody
  BY AttributionAssumption
<1>4. CASE Start(u)
  BY <1>0, <1>4 DEF Start, ScansGuarded, TypeOK
<1>5. CASE Look(u)
  BY <1>0, <1>5 DEF Look, ScansGuarded, TypeOK
<1>6. CASE Lock(u)
  <2>1. PlaceOf(u) \in Regions
    BY <1>2, <1>6 DEF Lock, ScansGuarded
  <2> QED BY <1>0, <1>1, <1>3, <1>6, <2>1 DEF Lock, ScansGuarded, TypeOK
<1>7. CASE Scan(u)
  <2>1. PlaceOf(u) \in Regions /\ holder[PlaceOf(u)] = u
    BY <1>2, <1>7 DEF Scan, ScansGuarded
  <2>2. at[v] = "scan" /\ v # u => PlaceOf(v) # PlaceOf(u)
    BY <2>1 DEF ScansGuarded
  <2> QED BY <1>0, <1>1, <1>7, <2>1, <2>2 DEF Scan, ScansGuarded, TypeOK
<1>8. CASE Attribute(u)
  BY <1>0, <1>8 DEF Attribute, ScansGuarded, TypeOK
<1>9. CASE Fail(u)
  BY <1>0, <1>9 DEF Fail, ScansGuarded, TypeOK
<1> QED BY <1>4, <1>5, <1>6, <1>7, <1>8, <1>9 DEF UnitStep

\* Once the caller is done no unit is left to take a step.
LEMMA UnitStepBeforeDone ==
  ASSUME TypeOK, AnswerReconciled, NEW u \in Units, UnitStep(u)
  PROVE  phase # "done" /\ phase' = phase
<1>1. at[u] \notin {"ok", "failed"}
  BY DEF UnitStep, Start, Look, Lock, Scan, Attribute, Fail
<1> QED BY <1>1 DEF AnswerReconciled, UnitStep, Start, Look, Lock, Scan, Attribute, Fail

LEMMA AddressesNat ==
  ASSUME TypeOK, NEW sum \in AddressSums
  PROVE  WithAddresses(sum) \in [Labels -> Nat]
<1>1. sum \in Nat
  BY AttributionAssumption DEF AddressSums
<1>2. raw["EIP"] \in Nat
  BY DEF TypeOK, Labels, Priced
<1>3. raw["EIP"] + sum \in Nat
  BY <1>1, <1>2
<1>4. raw \in [Labels -> Nat]
  BY DEF TypeOK
<1> QED BY <1>3, <1>4 DEF WithAddresses

LEMMA ReconcileInv ==
  ASSUME IInv, Reconcile PROVE IInv'
<1>1. PICK sum \in AddressSums :
        raw' = WithAddresses(sum) /\ cost' = Reconciled(raw') /\ extra' = OtherRows(cost')
  BY DEF Reconcile
<1>2. raw' \in [Labels -> Nat]
  BY <1>1, AddressesNat DEF IInv
<1>3. cost' \in [Labels -> Nat]
  BY <1>1, <1>2, ReconciledType DEF IInv
<1>4. extra' \in [CeServices -> Nat]
  <2>1. \A s \in CeServices : OtherRows(cost')[s] \in Nat
    BY <1>3, OtherRowsFillGap DEF IInv
  <2>2. OtherRows(cost') = [s \in CeServices |-> OtherRows(cost')[s]]
    BY DEF OtherRows
  <2> QED BY <1>1, <2>1, <2>2
<1>5. UNCHANGED <<bill, totals, scoped, at, instances, holder>> /\ phase' = "done"
  BY DEF Reconcile
<1>6. TypeOK'
  BY <1>2, <1>3, <1>4, <1>5 DEF IInv, TypeOK
<1>7. ScansGuarded'
  BY <1>5 DEF IInv, ScansGuarded
<1>8. Reconciled(raw') = Reconciled(raw)' /\ OtherRows(cost') = OtherRows(cost)'
  BY <1>5 DEF Reconciled, Rescaled, Normalised, VolumePool, Failed, OtherRows, Remainder, Aggregate
<1>9. AnswerReconciled'
  BY <1>1, <1>5, <1>8 DEF AnswerReconciled, Reconcile
<1> QED BY <1>6, <1>7, <1>9 DEF IInv

LEMMA NextInv == IInv /\ [Next]_vars => IInv'
<1> SUFFICES ASSUME IInv, [Next]_vars PROVE IInv'
  OBVIOUS
<1> USE DEF IInv
<1>1. CASE GetTotals
  <2>1. bill.total \in [CeServices -> Nat]
    BY BillType DEF TypeOK
  <2> QED BY <1>1 DEF GetTotals, TypeOK, ScansGuarded, AnswerReconciled
<1>2. CASE NoCredentials
  BY <1>2 DEF NoCredentials, TypeOK, ScansGuarded, AnswerReconciled
<1>3. CASE ScopeTotals
  BY <1>3 DEF ScopeTotals, TypeOK, ScansGuarded, AnswerReconciled
<1>4. CASE Reconcile
  BY <1>4, ReconcileInv
<1>5. CASE \E u \in Units : UnitStep(u)
  <2> PICK u \in Units : UnitStep(u)
    BY <1>5
  <2>1. AnswerReconciled'
    BY UnitStepBeforeDone DEF AnswerReconciled
  <2> QED BY <2>1, UnitStepType, UnitStepScans
<1>6. CASE UNCHANGED vars
  <2>1. TypeOK'
    BY <1>6 DEF vars, TypeOK
  <2>2. ScansGuarded'
    BY <1>6 DEF vars, ScansGuarded
  <2>3. AnswerReconciled'
    BY <1>6 DEF vars, AnswerReconciled, Reconciled, Rescaled, Normalised, VolumePool,
                Failed, OtherRows, Remainder, Aggregate
  <2> QED BY <2>1, <2>2, <2>3
<1> QED BY <1>1, <1>2, <1>3, <1>4, <1>5, <1>6 DEF Next, Caller

THEOREM Invariance == Spec => []IInv
BY InitInv, NextInv, PTL DEF Spec

-----------------------------------------------------------------------------
(* The properties                                                          *)

\* The types the state keeps.
THEOREM TypeCorrect == Spec => []TypeOK
BY Invariance, PTL DEF IInv

\* "The difference used to vanish": of every pool with a remainder line the
\* answer shows the whole bill, to a cent, for all bills, prices and failures.
THEOREM NothingVanishesHolds == Spec => []NothingVanishes
<1>1. IInv => NothingVanishes
  <2> SUFFICES ASSUME IInv, phase = "done", NEW s \in RemainderPools, Asked(s)
               PROVE  Shown(s) >= totals[s] - 1
    BY DEF NothingVanishes
  <2>1. s \in CeServices
    BY DEF RemainderPools, CeServices, Labels, RegionalSplit, GlobalSplit, Priced
  <2>2. totals[s] \in Nat /\ InRows(cost, s) \in Nat
    BY <2>1, TotalsType, InRowsType DEF IInv, TypeOK
  <2>3. extra = OtherRows(cost)
    BY DEF IInv, AnswerReconciled
  <2>4. /\ extra[s] \in Nat
        /\ totals[s] > InRows(cost, s) + 1 => extra[s] = totals[s] - InRows(cost, s)
    BY <2>1, <2>3, OtherRowsFillGap DEF IInv, TypeOK
  <2> QED BY <2>2, <2>4 DEF Shown
<1> QED BY <1>1, Invariance, PTL

\* Scaling never makes the rows of a service more than its bill and its prices.
LEMMA ScaledWithin ==
  ASSUME TypeOK, NEW s \in CeServices, cost = Reconciled(raw)
  PROVE  InRows(cost, s) <= Larger(totals[s], InRows(raw, s))
<1>1. totals \in [CeServices -> Nat] /\ raw \in [Labels -> Nat]
  BY TotalsType DEF TypeOK
<1>2. InRows(raw, s) \in Nat /\ totals[s] \in Nat
  BY <1>1, InRowsType
<1>3. CASE s = "EC2Other"
  <2>1. {"EBS", "NATGateway"} \subseteq Labels
    BY DEF Labels, Priced
  <2>2. raw["EBS"] \in Nat /\ raw["NATGateway"] \in Nat /\ totals["EC2Other"] \in Nat
    BY <1>1, <1>2, <1>3, <2>1
  <2>3. cost["NATGateway"] = raw["NATGateway"]
    BY <2>1 DEF Reconciled
  <2>4. cost["EBS"] = Rescaled("EBS", raw["EBS"], VolumePool(raw))
    BY <2>1 DEF Reconciled
  <2>5. cost["EBS"] \in {raw["EBS"], VolumePool(raw)}
        /\ (cost["EBS"] # raw["EBS"] => VolumePool(raw) > 0)
    BY <2>4 DEF Rescaled
  <2>6. VolumePool(raw) > 0 => VolumePool(raw) + raw["NATGateway"] = totals["EC2Other"]
    BY <2>2 DEF VolumePool
  <2>7. cost["EBS"] + cost["NATGateway"] \in {raw["EBS"] + raw["NATGateway"], totals["EC2Other"]}
    BY <2>2, <2>3, <2>5, <2>6
  <2> QED BY <1>2, <1>3, <2>2, <2>7 DEF InRows, Larger
<1>4. CASE s = "VPC"
  <2>1. cost["EIP"] = raw["EIP"]
    BY DEF Reconciled, Labels, Priced
  <2> QED BY <1>2, <1>4, <2>1 DEF InRows, Larger
<1>5. CASE s = "Unlisted"
  BY <1>2, <1>5 DEF InRows, Larger
<1>6. CASE s \notin {"EC2Other", "VPC", "Unlisted"}
  <2>1. s \in Labels /\ s \notin {"EBS", "NATGateway", "EIP"}
    BY <1>6 DEF CeServices
  <2>2. cost[s] \in {raw[s], totals[s]}
    BY <2>1 DEF Reconciled, Rescaled, Normalised
  <2>3. InRows(cost, s) = cost[s] /\ InRows(raw, s) = raw[s]
    BY <1>6 DEF InRows
  <2> QED BY <1>2, <2>2, <2>3 DEF Larger
<1> QED BY <1>3, <1>4, <1>5, <1>6

\* No service is shown with more than its bill and the prices of what was
\* found: pools are netted before they are scaled, aggregates of addresses.
THEOREM NothingCountedTwiceHolds == Spec => []NothingCountedTwice
<1>1. IInv => NothingCountedTwice
  <2> SUFFICES ASSUME IInv, phase = "done", NEW s \in CeServices
               PROVE  Shown(s) <= Larger(totals[s], InRows(raw, s))
    BY DEF NothingCountedTwice
  <2>1. totals[s] \in Nat /\ InRows(cost, s) \in Nat /\ InRows(raw, s) \in Nat
    BY TotalsType, InRowsType DEF IInv, TypeOK
  <2>2. extra[s] \in {0, totals[s] - InRows(cost, s)}
    BY OtherRowsFillGap DEF IInv, TypeOK, AnswerReconciled
  <2>3. InRows(cost, s) <= Larger(totals[s], InRows(raw, s))
    BY ScaledWithin DEF IInv, AnswerReconciled
  <2> QED BY <2>1, <2>2, <2>3 DEF Shown, Larger
<1> QED BY <1>1, Invariance, PTL

\* Rows of a service with a failed unit keep their prices; what is missing is
\* the remainder's.
THEOREM PartialKeepsPricesHolds == Spec => []PartialKeepsPrices
<1>1. IInv => PartialKeepsPrices
  <2> SUFFICES ASSUME IInv, phase = "done", NEW l \in Failed
               PROVE  /\ cost[l] = raw[l]
                      /\ l \in RemainderPools /\ totals[l] > cost[l] + 1 =>
                           extra[l] = totals[l] - cost[l]
    BY DEF PartialKeepsPrices
  <2>1. l \in Labels /\ l \in Want
    BY DEF Failed, Units, LabelOf, Labels, Global, GlobalSplit, Priced
  <2>2. cost[l] = raw[l]
    BY <2>1 DEF IInv, AnswerReconciled, Reconciled, Rescaled, Normalised
  <2>3. CASE l \in RemainderPools
    <3>1. l # "EC2Other" /\ l \notin {"VPC", "Unlisted"}
      BY <2>1, <2>3 DEF RemainderPools, Labels, RegionalSplit, GlobalSplit, Priced
    <3>2. l \in CeServices
      BY <2>3 DEF RemainderPools, CeServices, Labels, RegionalSplit, GlobalSplit, Priced
    <3>3. InRows(cost, l) = cost[l] /\ Asked(l)
      BY <2>1, <3>1 DEF InRows, Asked, PoolLabels
    <3> QED BY <2>2, <2>3, <3>2, <3>3, OtherRowsFillGap DEF IInv, TypeOK, AnswerReconciled
  <2> QED BY <2>2, <2>3
<1> QED BY <1>1, Invariance, PTL

\* A region's instances are scanned once, and every unit of the region sees
\* what that scan found.
THEOREM OneScanPerRegionHolds == Spec => OneScanPerRegion
<1>1. IInv /\ [Next]_vars =>
        [\A r \in Regions : instances[r] # "missing" => instances'[r] = instances[r]]_vars
  <2> SUFFICES ASSUME IInv, Next, NEW r \in Regions, instances[r] # "missing"
               PROVE  instances'[r] = instances[r]
    OBVIOUS
  <2>1. CASE Caller
    BY <2>1 DEF Caller, GetTotals, NoCredentials, ScopeTotals, Reconcile
  <2>2. CASE \E u \in Units : UnitStep(u)
    <3> PICK u \in Units : UnitStep(u)
      BY <2>2
    <3>1. CASE Scan(u)
      <4>1. instances[PlaceOf(u)] = "missing"
        BY <3>1 DEF Scan, IInv, ScansGuarded
      <4> QED BY <3>1, <4>1 DEF Scan, IInv, TypeOK
    <3>2. CASE ~Scan(u)
      BY <3>2 DEF UnitStep, Start, Look, Lock, Attribute, Fail
    <3> QED BY <3>1, <3>2
  <2> QED BY <2>1, <2>2 DEF Next
<1> QED BY <1>1, Invariance, PTL DEF Spec, OneScanPerRegion
-----------------------------------------------------------------------------
(* What is true of split totals                                            *)

\* The two services whose rows the normalisation brings back to their bill.
NormalisedLabels == {"Lambda", "DynamoDB"}

\* Before the fan-out there are no rows; and where no region has a total of
\* its own, a service without a bill has none.
RowsBilled ==
  /\ phase \in {"totals", "scope"} => raw = NoRows /\ \A u \in Units : at[u] = "waiting"
  /\ phase \in {"fanout", "done"} /\ ~scoped =>
       \A l \in NormalisedLabels : totals[l] = 0 => raw[l] = 0

\* The comment in _reconcile_pools where it holds: with every region given the
\* account's total, Lambda and DynamoDB come out at their bill or at nothing,
\* however many regions there are, unless a unit of theirs failed.
SplitTotalsReconciled ==
  phase = "done" /\ ~scoped =>
    \A l \in NormalisedLabels \ Failed : cost[l] \in {0, totals[l]}

LEMMA RowsBilledKept == ASSUME IInv, RowsBilled, [Next]_vars PROVE RowsBilled'
<1>0. /\ raw \in [Labels -> Nat] /\ totals \in [CeServices -> Nat]
      /\ NormalisedLabels \subseteq Labels /\ NormalisedLabels \subseteq RegionalSplit
  BY TotalsType DEF IInv, TypeOK, NormalisedLabels, Labels, RegionalSplit
<1>1. CASE GetTotals \/ NoCredentials
  BY <1>1 DEF GetTotals, NoCredentials, RowsBilled
<1>2. CASE ScopeTotals
  BY <1>0, <1>2 DEF ScopeTotals, RowsBilled, NoRows
<1>3. CASE Reconcile
  <2>1. PICK sum \in AddressSums : raw' = WithAddresses(sum)
    BY <1>3 DEF Reconcile
  <2>2. \A l \in NormalisedLabels : raw'[l] = raw[l]
    BY <1>0, <2>1 DEF WithAddresses, NormalisedLabels
  <2>3. QED
    BY <1>3, <2>2 DEF Reconcile, RowsBilled
<1>4. ASSUME NEW u \in Units, Start(u) \/ Look(u) \/ Lock(u) \/ Scan(u) \/ Fail(u)
      PROVE  RowsBilled'
  <2>1. UNCHANGED <<phase, totals, scoped, raw>>
    BY <1>4 DEF Start, Look, Lock, Scan, Fail
  <2>2. phase \notin {"totals", "scope"}
    BY <1>4 DEF Start, Look, Lock, Scan, Fail, RowsBilled
  <2>3. QED
    BY <2>1, <2>2 DEF RowsBilled
<1>5. ASSUME NEW u \in Units, Attribute(u) PROVE RowsBilled'
  <2>1. UNCHANGED <<phase, totals, scoped>> /\ phase \notin {"totals", "scope"}
    BY <1>5 DEF Attribute, RowsBilled
  <2>2. PICK sum \in RowSums(u) : raw' = [raw EXCEPT ![LabelOf(u)] = @ + sum]
    BY <1>5 DEF Attribute
  <2>3. ASSUME ~scoped, NEW l \in NormalisedLabels, totals[l] = 0, raw[l] = 0 PROVE raw'[l] = 0
    <3>1. CASE LabelOf(u) = l
      <4>1. sum = 0
        BY <1>0, <2>2, <2>3, <3>1 DEF RowSums, RegionalTotal
      <4>2. QED
        BY <1>0, <2>2, <2>3, <3>1, <4>1
    <3>2. CASE LabelOf(u) # l
      BY <1>0, <2>2, <2>3, <3>2
    <3>3. QED
      BY <3>1, <3>2
  <2>4. QED
    BY <2>1, <2>3 DEF RowsBilled
<1>6. CASE UNCHANGED vars
  BY <1>6 DEF vars, RowsBilled
<1>7. QED
  BY <1>1, <1>2, <1>3, <1>4, <1>5, <1>6 DEF Next, Caller, UnitStep

\* What finding 2 leaves of the comment: Lambda and DynamoDB are never shown
\* with the total of the account once per region.
THEOREM SplitTotalsHold == Spec => []SplitTotalsReconciled
<1>1. Init => RowsBilled
  BY DEF Init, RowsBilled
<1>2. IInv /\ RowsBilled => SplitTotalsReconciled
  <2> SUFFICES ASSUME IInv, RowsBilled, phase = "done", ~scoped, NEW l \in NormalisedLabels \ Failed
               PROVE  cost[l] \in {0, totals[l]}
    BY DEF SplitTotalsReconciled
  <2>1. raw[l] \in Nat /\ totals[l] \in Nat /\ l \in Labels
    BY TotalsType, OwnService DEF IInv, TypeOK, NormalisedLabels, Labels, RegionalSplit
  <2>2. cost[l] = Normalised(l, raw[l], totals[l])
    BY <2>1 DEF IInv, AnswerReconciled, Reconciled, NormalisedLabels
  <2>3. totals[l] = 0 => raw[l] = 0
    BY DEF RowsBilled
  <2>4. QED
    BY <2>1, <2>2, <2>3 DEF Normalised
<1>3. IInv /\ RowsBilled /\ [Next]_vars => RowsBilled'
  BY RowsBilledKept
<1>4. QED
  BY <1>1, <1>2, <1>3, Invariance, PTL DEF Spec
=============================================================================

----------------------------- MODULE Attribution -----------------------------
(* The attribution of a bill to resources: resources/runner.py.             *)
(*                                                                          *)
(* enumerate_all asks Cost Explorer for the totals of the window, scans     *)
(* every service in every region as work units of one thread pool, and      *)
(* reconciles the rows that came back with the totals.  The rows of a       *)
(* service are modelled by their sum, in cents: all the runner does with a  *)
(* row's cost is to multiply it by a factor common to the service.          *)
EXTENDS Integers, FiniteSets

CONSTANTS
  Want,        \* services asked for; those the account does not use cost nothing
  Regions,     \* _resolve_regions, numbered in the order of the work list
  Bills,       \* what AWS may bill in the window, see Bill
  Prices,      \* label -> sums its priced rows in one region may come to
  Addresses,   \* sums the auto-assigned addresses may come to
  MaxWorkers,  \* _MAX_WORKERS
  Nobody

\* Labels of the work units.  Those that split a Cost Explorer total over what
\* they find, and those that multiply hours or sizes with a price (EC2 asks
\* Cost Explorer for its region's usage, which comes to the same here).
RegionalSplit == {"Lambda", "DynamoDB", "ECR"}
GlobalSplit == {"S3", "CloudFront"}
Priced == {"EC2", "EBS", "EIP", "RDS", "ELB", "NATGateway", "ElastiCache",
           "SecretsManager", "EFS", "Route53"}
Global == GlobalSplit \cup {"Route53"}
Labels == RegionalSplit \cup GlobalSplit \cup Priced

\* Services of Cost Explorer.  A label bills under a service of its own but
\* for these: volumes and gateways share one; addresses bill under VPC.
CeServices == (Labels \ {"EBS", "NATGateway", "EIP"}) \cup {"EC2Other", "VPC", "Unlisted"}
Aggregated == {"VPC", "Unlisted"}      \* not in ENUMERATED_CE_SERVICES

Everywhere == 0      \* the place of units that run once per account

Bill == [total : [CeServices -> Nat], regional : [RegionalSplit -> [Regions -> Nat]]]

Units == ((Want \cap Labels) \ Global) \X Regions \cup (Want \cap Global) \X {Everywhere}
LabelOf(u) == u[1]
PlaceOf(u) == u[2]
Scanners == {u \in Units : LabelOf(u) \in {"EC2", "EBS"}}

ASSUME AttributionAssumption ==
  /\ Bills \subseteq Bill
  /\ Prices \in [Priced -> SUBSET Nat]
  /\ Addresses \subseteq Nat
  /\ MaxWorkers \in Nat \ {0}
  /\ IsFiniteSet(Units)
  /\ Regions \subseteq Nat \ {Everywhere}
  /\ Nobody \notin Units

VARIABLES
  phase,      \* where the calling thread is
  bill,       \* what AWS bills: fixed, and seen through the two CE calls
  totals,     \* ce_total_by_service
  scoped,     \* bool(lambda_ddb_regional)
  at,         \* state of every work unit
  instances,  \* instances_by_region: missing, or what is cached for good
  holder,     \* region_locks: the unit inside the region's lock
  raw,        \* buckets, as the work units fill them
  cost,       \* buckets, after _reconcile_pools has scaled their rows
  extra       \* other_rows: aggregate and remainder rows

vars == <<phase, bill, totals, scoped, at, instances, holder, raw, cost, extra>>

NoMoney == [s \in CeServices |-> 0]
NoRows == [l \in Labels |-> 0]

TypeOK ==
  /\ phase \in {"totals", "scope", "fanout", "done", "raised"}
  /\ bill \in Bills
  /\ totals \in {bill.total, NoMoney}
  /\ scoped \in BOOLEAN
  /\ at \in [Units -> {"waiting", "look", "queued", "scan", "attribute", "ok", "failed"}]
  /\ instances \in [Regions -> {"missing", "found", "none"}]
  /\ holder \in [Regions -> Units \cup {Nobody}]
  /\ raw \in [Labels -> Nat]
  /\ cost \in [Labels -> Nat]
  /\ extra \in [CeServices -> Nat]

Init ==
  /\ phase = "totals"
  /\ bill \in Bills
  /\ totals = NoMoney
  /\ scoped = FALSE
  /\ at = [u \in Units |-> "waiting"]
  /\ instances = [r \in Regions |-> "missing"]
  /\ holder = [r \in Regions |-> Nobody]
  /\ raw = NoRows
  /\ cost = NoRows
  /\ extra = NoMoney

-----------------------------------------------------------------------------
(* Before the fan-out                                                      *)

\* get_cost_by_service, or nothing when it fails.
GetTotals ==
  /\ phase = "totals"
  /\ totals' \in {bill.total, NoMoney}
  /\ phase' = "scope"
  /\ UNCHANGED <<bill, scoped, at, instances, holder, raw, cost, extra>>

\* _frozen_session finds no credentials: the caller gets the exception.
NoCredentials ==
  /\ phase = "scope"
  /\ phase' = "raised"
  /\ UNCHANGED <<bill, totals, scoped, at, instances, holder, raw, cost, extra>>

\* _service_region_totals: one more call when several regions share a total.
\* It may fail, and answers nothing where nothing is billed.
ScopeTotals ==
  /\ phase = "scope"
  /\ scoped' \in {FALSE,
       /\ Want \cap RegionalSplit # {} /\ Cardinality(Regions) > 1
       /\ \E l \in RegionalSplit, r \in Regions : bill.regional[l][r] > 0}
  /\ phase' = "fanout"
  /\ UNCHANGED <<bill, totals, at, instances, holder, raw, cost, extra>>

-----------------------------------------------------------------------------
(* Work units, in the threads of the pool                                  *)

\* The pool takes units in the order of the work list: those of EC2 and of the
\* whole account, then region by region; the order within is left open.
Turn(u) == IF LabelOf(u) = "EC2" THEN Everywhere ELSE PlaceOf(u)

Running == {u \in Units : at[u] \notin {"waiting", "ok", "failed"}}

Start(u) ==
  /\ phase = "fanout" /\ at[u] = "waiting"
  /\ \A v \in Units : at[v] = "waiting" => Turn(u) <= Turn(v)
  /\ Cardinality(Running) < MaxWorkers
  /\ at' = [at EXCEPT ![u] = IF u \in Scanners THEN "look" ELSE "attribute"]
  /\ UNCHANGED <<phase, bill, totals, scoped, instances, holder, raw, cost, extra>>

\* _instances_for, before the lock: what is cached is used, and who finds
\* nothing queues for the region's lock.
Look(u) ==
  /\ at[u] = "look"
  /\ at' = [at EXCEPT ![u] =
              IF instances[PlaceOf(u)] = "missing" THEN "queued" ELSE "attribute"]
  /\ UNCHANGED <<phase, bill, totals, scoped, instances, holder, raw, cost, extra>>

\* Mutant: whoever gets the lock scans.
LockUnchecked(u) ==
  /\ at[u] = "queued" /\ holder[PlaceOf(u)] = Nobody
  /\ at' = [at EXCEPT ![u] = "scan"]
  /\ holder' = [holder EXCEPT ![PlaceOf(u)] = u]
  /\ UNCHANGED <<phase, bill, totals, scoped, instances, raw, cost, extra>>

\* The lock is obtained and the cache looked at once more.
Lock(u) ==
  /\ at[u] = "queued" /\ holder[PlaceOf(u)] = Nobody
  /\ IF instances[PlaceOf(u)] = "missing"
       THEN /\ at' = [at EXCEPT ![u] = "scan"]
            /\ holder' = [holder EXCEPT ![PlaceOf(u)] = u]
       ELSE /\ at' = [at EXCEPT ![u] = "attribute"]
            /\ UNCHANGED holder
  /\ UNCHANGED <<phase, bill, totals, scoped, instances, raw, cost, extra>>

\* Mutant: a failed scan leaves the lock taken.
ScanKeepsLock(u) ==
  /\ at[u] = "scan"
  /\ \E list \in {"found", "none"} :
       /\ instances' = [instances EXCEPT ![PlaceOf(u)] = list]
       /\ holder' = IF list = "none" THEN holder
                      ELSE [holder EXCEPT ![PlaceOf(u)] = Nobody]
  /\ at' = [at EXCEPT ![u] = "attribute"]
  /\ UNCHANGED <<phase, bill, totals, scoped, raw, cost, extra>>

\* describe_instances answers; a failure is cached as an empty list, and
\* counted nowhere.
Scan(u) ==
  /\ at[u] = "scan"
  /\ \E list \in {"found", "none"} :
       instances' = [instances EXCEPT ![PlaceOf(u)] = list]
  /\ holder' = [holder EXCEPT ![PlaceOf(u)] = Nobody]
  /\ at' = [at EXCEPT ![u] = "attribute"]
  /\ UNCHANGED <<phase, bill, totals, scoped, raw, cost, extra>>

\* _regional_total: the region's own bill, or else that of the account.
RegionalTotal(l, r) == IF scoped THEN bill.regional[l][r] ELSE totals[l]

\* What the rows of a unit may come to.  Nothing is found, or access is
\* denied (attributors return no rows then), or what is found shares the total.
RowSums(u) ==
  CASE LabelOf(u) \in RegionalSplit -> {0, RegionalTotal(LabelOf(u), PlaceOf(u))}
    [] LabelOf(u) \in GlobalSplit   -> {0, totals[LabelOf(u)]}
    [] OTHER                        -> {0} \cup Prices[LabelOf(u)]

\* buckets[label].extend(fut.result()).  The calling thread does it, in the
\* order in which units end; no worker looks at the buckets.
Attribute(u) ==
  /\ at[u] = "attribute"
  /\ \E sum \in RowSums(u) : raw' = [raw EXCEPT ![LabelOf(u)] = @ + sum]
  /\ at' = [at EXCEPT ![u] = "ok"]
  /\ UNCHANGED <<phase, bill, totals, scoped, instances, holder, cost, extra>>

\* The unit raises: failed_services.add, errors.append.
Fail(u) ==
  /\ at[u] = "attribute"
  /\ at' = [at EXCEPT ![u] = "failed"]
  /\ UNCHANGED <<phase, bill, totals, scoped, instances, holder, raw, cost, extra>>

Failed == {LabelOf(u) : u \in {v \in Units : at[v] = "failed"}}

-----------------------------------------------------------------------------
(* _reconcile_pools                                                        *)

\* _RESCALE_MIN_FACTOR <= to / from <= _RESCALE_MAX_FACTOR
InBand(from, to) == from <= 5 * to /\ to <= 5 * from

\* Mutant: partial rows are scaled as well.
RescaledPartial(l, from, to) ==
  IF from > 0 /\ to > 0 /\ InBand(from, to) THEN to ELSE from

\* _rescale_rows: what rows worth "from" are worth afterwards.
Rescaled(l, from, to) ==
  IF from > 0 /\ to > 0 /\ l \notin Failed /\ InBand(from, to) THEN to ELSE from

\* Lambda and DynamoDB, when every region was given the account's total.
Normalised(l, from, to) ==
  IF ~scoped /\ from > 0 /\ to > 0 /\ l \notin Failed THEN to ELSE from

\* Mutant: the volumes are scaled to the whole pool.
WholePool(rows) == totals["EC2Other"]

\* What the gateways leave of the pool they share with the volumes.
VolumePool(rows) ==
  IF totals["EC2Other"] > rows["NATGateway"]
    THEN totals["EC2Other"] - rows["NATGateway"] ELSE 0

Reconciled(rows) ==
  [l \in Labels |->
     CASE l = "EBS"                   -> Rescaled(l, rows[l], VolumePool(rows))
       [] l \in {"RDS", "ELB"}        -> Rescaled(l, rows[l], totals[l])
       [] l \in {"Lambda", "DynamoDB"} -> Normalised(l, rows[l], totals[l])
       [] OTHER                       -> rows[l]]

\* _REMAINDER_POOLS
RemainderPools == {"EC2", "EC2Other", "RDS", "ELB", "Lambda", "DynamoDB", "S3"}
PoolLabels(s) == IF s = "EC2Other" THEN {"EBS", "NATGateway"} ELSE {s}

\* What the rows of a pool come to, and of the addresses, which net the
\* aggregate of VPC.
InRows(rows, s) ==
  CASE s = "EC2Other" -> rows["EBS"] + rows["NATGateway"]
    [] s = "VPC"      -> rows["EIP"]
    [] s = "Unlisted" -> 0
    [] OTHER          -> rows[s]

\* Mutants: no line for a pool without rows; a line for rows above the bill.
RemainderOfRows(rows, s) ==
  LET gap == totals[s] - InRows(rows, s) IN
  IF totals[s] > 1 /\ PoolLabels(s) \cap Want # {} /\ gap > 1 /\ InRows(rows, s) > 0
    THEN gap ELSE 0
RemainderSigned(rows, s) ==
  IF totals[s] > 1 /\ PoolLabels(s) \cap Want # {}
    THEN totals[s] - InRows(rows, s) ELSE 0

\* The gap between a pool's rows and its bill, unless it is a cent or less.
Remainder(rows, s) ==
  LET gap == totals[s] - InRows(rows, s) IN
  IF totals[s] > 1 /\ PoolLabels(s) \cap Want # {} /\ gap > 1 THEN gap ELSE 0

\* The bill of a service that is not enumerated, less the addresses' rows.
Aggregate(rows, s) ==
  LET rest == totals[s] - InRows(rows, s) IN
  IF rest > 0 /\ s \in Want THEN rest ELSE 0

OtherRows(rows) ==
  [s \in CeServices |->
     CASE s \in Aggregated     -> Aggregate(rows, s)
       [] s \in RemainderPools -> Remainder(rows, s)
       [] OTHER                -> 0]

\* Auto-assigned addresses, taken from the scans that found instances, are
\* added to the rows of EIP, unless a unit of EIP failed.
WithAddresses(sum) == [raw EXCEPT !["EIP"] = @ + sum]
AddressSums ==
  IF "EIP" \in Want \ Failed /\ \E r \in Regions : instances[r] = "found"
    THEN {0} \cup Addresses ELSE {0}

\* All units have ended.
Reconcile ==
  /\ phase = "fanout"
  /\ \A u \in Units : at[u] \in {"ok", "failed"}
  /\ \E sum \in AddressSums :
       LET rows == WithAddresses(sum) IN
       /\ raw' = rows
       /\ cost' = Reconciled(rows)
       /\ extra' = OtherRows(cost')
  /\ phase' = "done"
  /\ UNCHANGED <<bill, totals, scoped, at, instances, holder>>

-----------------------------------------------------------------------------
UnitStep(u) ==
  Start(u) \/ Look(u) \/ Lock(u) \/ Scan(u) \/ Attribute(u) \/ Fail(u)

Caller == GetTotals \/ NoCredentials \/ ScopeTotals \/ Reconcile

Next == Caller \/ \E u \in Units : UnitStep(u)

Spec == Init /\ [][Next]_vars

\* Threads run, and calls end: every client has a time-out and a last retry.
Fairness == WF_vars(Caller) /\ \A u \in Units : WF_vars(UnitStep(u))

FairSpec == Spec /\ Fairness

-----------------------------------------------------------------------------
(* Properties                                                              *)

\* What the answer shows of a service: its rows and its line of the rest.
Shown(s) == InRows(cost, s) + extra[s]

Asked(s) == PoolLabels(s) \cap Want # {}
Larger(a, b) == IF a > b THEN a ELSE b

\* "The difference used to vanish": of a pool with a remainder line the answer
\* shows the whole bill, to a cent, whatever failed, was scaled or was not.
NothingVanishes ==
  phase = "done" =>
    \A s \in RemainderPools : Asked(s) => Shown(s) >= totals[s] - 1

\* Scaling, netting and remainders never make more of a service than both its
\* bill and the prices of what was found: volumes do not claim again what
\* gateways are shown with, nor the aggregate of VPC what addresses are.
NothingCountedTwice ==
  phase = "done" =>
    \A s \in CeServices : Shown(s) <= Larger(totals[s], InRows(raw, s))

\* _rescale_rows: "scaling partial rows up ... would silently misattribute the
\* missing regions' cost": after a failed unit its service keeps its prices,
\* and the money that is missing is in the pool's remainder.
PartialKeepsPrices ==
  phase = "done" =>
    \A l \in Failed :
      /\ cost[l] = raw[l]
      /\ l \in RemainderPools /\ totals[l] > cost[l] + 1 => extra[l] = totals[l] - cost[l]

\* "different regions still run in parallel", and one of them is scanned once:
\* what is cached for a region is what all its units see, for good.
OneScanPerRegion ==
  [][\A r \in Regions : instances[r] # "missing" => instances'[r] = instances[r]]_vars

\* The fan-out ends, with any number of workers: units that wait for the scan
\* of another, in a thread of the same pool, do not keep it from running.
EnumerationEnds == <>(phase \in {"done", "raised"})

\* The comment in _reconcile_pools: a total that every region was given "the
\* post-fan-out normalization reconciles", so no service that splits its
\* bill by region is shown with more than that bill.
SplitsWithinBill ==
  phase = "done" => \A l \in RegionalSplit : cost[l] <= bill.total[l]
=============================================================================

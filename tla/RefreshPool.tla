----------------------------- MODULE RefreshPool -----------------------------
(***************************************************************************)
(* schedule_refresh of spendslicer/web/deps.py: fire-and-forget refreshes  *)
(* of the response cache, at most one per key and at most MaxInflight      *)
(* altogether, run by a bounded pool of worker threads.                    *)
(*                                                                         *)
(* A job is one call of schedule_refresh that got past its checks.  The    *)
(* admission is one step (it is under _refresh_lock), the submission to    *)
(* the pool another, and the worker's clean-up a third: what the model is  *)
(* about is that the set and the counter stay right between them.          *)
(* Both pools of deps.py have this shape; every caller passes heavy=True,  *)
(* so the one modelled is _heavy_pool.                                     *)
(***************************************************************************)
EXTENDS Naturals, FiniteSets, Sequences

CONSTANTS Jobs, Keys,
          MaxInflight,  \* _MAX_INFLIGHT_REFRESHES
          Workers       \* max_workers of the pool

ASSUME JobsAssumption == IsFiniteSet(Jobs)
ASSUME PoolAssumption == MaxInflight \in Nat /\ Workers \in Nat \ {0}

VARIABLES
  refreshing,  \* _refreshing: the keys being refreshed
  inflight,    \* _inflight_refreshes
  job,         \* where each job is
  jobKey,      \* the key it refreshes
  queue,       \* the pool's queue of submitted jobs
  open         \* FALSE once the interpreter has begun to shut the pool down

poolVars == <<refreshing, inflight, job, jobKey, queue, open>>

(* "free": no such call; "admitted": past the checks, not yet submitted;   *)
(* "refused": submit raised; "queued"; "running": the worker is in the     *)
(* producer; "publish": in cache_set; "release": in the finally block.     *)
Stages == {"free", "admitted", "refused", "queued", "running", "publish", "release"}

PoolTypeOK ==
  /\ refreshing \in SUBSET Keys
  /\ inflight \in Nat
  /\ job \in [Jobs -> Stages]
  /\ jobKey \in [Jobs -> Keys]
  /\ queue \in Seq(Jobs)
  /\ open \in BOOLEAN

-----------------------------------------------------------------------------
Active    == {j \in Jobs : job[j] # "free"}
Occupying == {j \in Jobs : job[j] \in {"running", "publish", "release"}}

PoolInit ==
  /\ refreshing = {}
  /\ inflight = 0
  /\ job = [j \in Jobs |-> "free"]
  /\ jobKey \in [Jobs -> Keys]
  /\ queue = <<>>
  /\ open = TRUE

\* Mutant: only a refresh that is running counts as one under way.
DuplicateOfRunning(k) == \E j \in Jobs : job[j] = "running" /\ jobKey[j] = k

\* Mutant: the cap compared with >.
ShedLate == inflight > MaxInflight

\* The two early returns of schedule_refresh.
Duplicate(k) == k \in refreshing
Shed         == inflight >= MaxInflight

\* A call for k that passes them becomes job j.
Admit(j, k) ==
  /\ job[j] = "free"
  /\ ~Duplicate(k) /\ ~Shed
  /\ refreshing' = refreshing \cup {k}
  /\ inflight' = inflight + 1
  /\ job' = [job EXCEPT ![j] = "admitted"]
  /\ jobKey' = [jobKey EXCEPT ![j] = k]
  /\ UNCHANGED <<queue, open>>

\* pool.submit, which raises once the pool is shutting down.
Submit(j) ==
  /\ job[j] = "admitted" /\ open
  /\ job' = [job EXCEPT ![j] = "queued"]
  /\ queue' = Append(queue, j)
  /\ UNCHANGED <<refreshing, inflight, jobKey, open>>

SubmitFails(j) ==
  /\ job[j] = "admitted" /\ ~open
  /\ job' = [job EXCEPT ![j] = "refused"]
  /\ UNCHANGED <<refreshing, inflight, jobKey, queue, open>>

\* Give back the key and the slot, under _refresh_lock.
GiveBack(j) ==
  /\ refreshing' = refreshing \ {jobKey[j]}
  /\ inflight' = inflight - 1
  /\ job' = [job EXCEPT ![j] = "free"]
  /\ UNCHANGED <<jobKey, queue, open>>

\* Mutant: a failed submit is logged and nothing is given back.
UndoNothing(j) ==
  /\ job[j] = "refused"
  /\ job' = [job EXCEPT ![j] = "free"]
  /\ UNCHANGED <<refreshing, inflight, jobKey, queue, open>>

\* Mutant: both the except branch and the finally block give back.
UndoTwice(j) ==
  /\ job[j] = "refused"
  /\ refreshing' = refreshing \ {jobKey[j]}
  /\ inflight' = inflight - 1
  /\ job' = [job EXCEPT ![j] = "release"]
  /\ UNCHANGED <<jobKey, queue, open>>

\* The except branch after a failed submit.
Undo(j) == job[j] = "refused" /\ GiveBack(j)

\* A worker takes the oldest job.
Start(j) ==
  /\ queue # <<>> /\ Head(queue) = j
  /\ Cardinality(Occupying) < Workers
  /\ queue' = Tail(queue)
  /\ job' = [job EXCEPT ![j] = "running"]
  /\ UNCHANGED <<refreshing, inflight, jobKey, open>>

\* Mutant: no finally block, so that a producer that raises gives nothing back.
ProducedOrLost(j, value) ==
  /\ job[j] = "running"
  /\ job' = [job EXCEPT ![j] = IF value THEN "publish" ELSE "free"]
  /\ UNCHANGED <<refreshing, inflight, jobKey, queue, open>>

\* The producer ends: with a value to publish, or with None or an exception.
Produced(j, value) ==
  /\ job[j] = "running"
  /\ job' = [job EXCEPT ![j] = IF value THEN "publish" ELSE "release"]
  /\ UNCHANGED <<refreshing, inflight, jobKey, queue, open>>

\* cache_set returns or raises.
Published(j) ==
  /\ job[j] = "publish"
  /\ job' = [job EXCEPT ![j] = "release"]
  /\ UNCHANGED <<refreshing, inflight, jobKey, queue, open>>

\* The finally block of _run.
Release(j) == job[j] = "release" /\ GiveBack(j)

\* The process is exiting; jobs already submitted are still run to the end.
Close ==
  /\ open
  /\ open' = FALSE
  /\ UNCHANGED <<refreshing, inflight, job, jobKey, queue>>

PoolStep(j) ==
  \/ Submit(j) \/ SubmitFails(j) \/ Undo(j)
  \/ Start(j)
  \/ \E value \in BOOLEAN : Produced(j, value)
  \/ Published(j) \/ Release(j)

PoolNext ==
  \/ \E j \in Jobs, k \in Keys : Admit(j, k)
  \/ \E j \in Jobs : PoolStep(j)
  \/ Close

PoolSpec == PoolInit /\ [][PoolNext]_poolVars

\* The calling thread and the workers are scheduled again, and producers end:
\* every call to AWS has a timeout.
PoolFairSpec == PoolSpec /\ \A j \in Jobs : WF_poolVars(PoolStep(j))

-----------------------------------------------------------------------------
(* Properties                                                              *)

\* "Only one refresh per key runs at a time": no two jobs hold one key, from
\* their admission to the end of their clean-up.
OneRefreshPerKey ==
  \A i, j \in Active : jobKey[i] = jobKey[j] => i = j

\* The set and the counter say the same, and what they say is the jobs: no
\* key and no slot is leaked by a failed submit, producer or write, and none
\* is given back twice.
BooksBalance ==
  /\ refreshing = {jobKey[j] : j \in Active}
  /\ inflight = Cardinality(Active)

\* The cap on queued and running refreshes.
CapRespected == Cardinality(Active) <= MaxInflight

\* A refresh that was admitted lets its key go, whether or not it was ever
\* submitted: no key is locked out of refreshing for ever.
KeysReleased == \A k \in Keys : (k \in refreshing) ~> (k \notin refreshing)
=============================================================================

---------------------------- MODULE ResourcesApi ----------------------------
(***************************************************************************)
(* The three per-resource endpoints (web/routes/resources_api.py) over the *)
(* response cache, the background refresh pool (RefreshPool) and the cold  *)
(* single flight of web/deps.py.  They share one cache key per             *)
(* profile/period/region and compete to run the same producer, the scan of *)
(* every region, which takes minutes and bills Cost Explorer calls.        *)
(*                                                                         *)
(* Request threads and pool workers interleave at every read of the cache, *)
(* lock, build and write.  The cache is the one TtlCache promises, with an *)
(* entry's age reduced to the two windows of deps.py and its body to       *)
(* whether the context carries an error: build_resources_ctx returns one   *)
(* instead of raising.  The server is up: the pool is not shutting down.   *)
(***************************************************************************)
EXTENDS RefreshPool

CONSTANTS Requests,   \* request threads
          Absent,     \* no entry that may be served
          Nobody,     \* no holder of a lock
          MaxAgings   \* bound on the entries that age or are cleared

ASSUME ActorsAssumption == Requests \cap Jobs = {} /\ Nobody \notin Requests \cup Jobs
ASSUME AgingsAssumption == MaxAgings \in Nat

Actors == Requests \cup Jobs
Bodies == {"ok", "error"}

VARIABLES
  cache,    \* [Keys -> Absent or an entry: its age window and its body]
  holder,   \* _cold_locks: who holds the lock of each key
  at,       \* where each actor is, inside the handler or the producer
  reqKey,   \* the cache key of a request
  plan,     \* what a job's producer is: the build itself, or a cold flight
  built,    \* the value an actor has built or been given, "ok" before and after
  warming,  \* keys whose last /top/data answer was the warming placeholder
  agings

webVars == <<cache, holder, at, reqKey, plan, built, warming, agings>>
vars == <<poolVars, webVars>>

Entry == [age: {"fresh", "stale"}, body: Bodies]

(* at: "idle"; "warm" and "refresh": about to call schedule_refresh with a *)
(* cold flight or with the bare build; "lock", "check", "build", "publish",*)
(* "unlock": inside cold_single_flight; "scan" and "store": building       *)
(* outside it, and /services/data's own write.                             *)
Flight == {"lock", "check", "build", "publish", "unlock"}
Places == {"idle", "warm", "refresh", "scan", "store"} \cup Flight

TypeOK ==
  /\ PoolTypeOK
  /\ cache \in [Keys -> Entry \cup {Absent}]
  /\ holder \in [Keys -> Actors \cup {Nobody}]
  /\ at \in [Actors -> Places]
  /\ reqKey \in [Requests -> Keys]
  /\ plan \in [Jobs -> {"flight", "direct"}]
  /\ built \in [Actors -> Bodies]
  /\ warming \in SUBSET Keys
  /\ agings \in 0..MaxAgings

KeyOf(a) == IF a \in Requests THEN reqKey[a] ELSE jobKey[a]

IsFresh(k) == cache[k] # Absent /\ cache[k].age = "fresh"
FreshEntry(b) == [age |-> "fresh", body |-> b]

Init ==
  /\ PoolInit
  /\ cache = [k \in Keys |-> Absent]
  /\ holder = [k \in Keys |-> Nobody]
  /\ at = [a \in Actors |-> "idle"]
  /\ reqKey \in [Requests -> Keys]
  /\ plan = [j \in Jobs |-> "direct"]
  /\ built = [a \in Actors |-> "ok"]
  /\ warming = {}
  /\ agings = 0

-----------------------------------------------------------------------------
(* The handlers, up to their first wait                                    *)

\* A request for k arrives, reads the cache, and goes to its next place.
Arrive(r, k, place) ==
  /\ at[r] = "idle"
  /\ at' = [at EXCEPT ![r] = place]
  /\ reqKey' = [reqKey EXCEPT ![r] = k]
  /\ UNCHANGED <<poolVars, cache, holder, plan, built, agings>>

\* /data: serve what get_swr gives, refreshing it if stale; on a miss, build
\* in the request thread.
GetData(r, k) ==
  /\ Arrive(r, k, IF cache[k] = Absent THEN "lock"
                  ELSE IF IsFresh(k) THEN "idle" ELSE "refresh")
  /\ UNCHANGED warming

\* /top/data: never build in the request thread; on a miss answer with the
\* placeholder, which the dashboard takes as an order to poll again.
GetTop(r, k) ==
  /\ Arrive(r, k, IF cache[k] = Absent THEN "warm"
                  ELSE IF IsFresh(k) THEN "idle" ELSE "refresh")
  /\ warming' = IF cache[k] = Absent THEN warming \cup {k} ELSE warming \ {k}

\* /services/data: serve a fresh entry, or else build outside the flight.
GetServices(r, k) ==
  /\ Arrive(r, k, IF IsFresh(k) THEN "idle" ELSE "scan")
  /\ UNCHANGED warming

\* The handler calls schedule_refresh: the entry it has read may be another
\* one by now.  The call is dropped, or becomes a job.
Schedule(r) ==
  LET k == reqKey[r] IN
  /\ at[r] \in {"warm", "refresh"}
  /\ \/ /\ Duplicate(k) \/ Shed
        /\ UNCHANGED <<poolVars, plan>>
     \/ \E j \in Jobs :
          /\ Admit(j, k)
          /\ plan' = [plan EXCEPT ![j] = IF at[r] = "warm" THEN "flight" ELSE "direct"]
  /\ at' = [at EXCEPT ![r] = "idle"]
  /\ UNCHANGED <<cache, holder, reqKey, built, warming, agings>>

-----------------------------------------------------------------------------
(* cold_single_flight, in a request thread or in a worker                  *)

Acquire(a) ==
  /\ at[a] = "lock" /\ holder[KeyOf(a)] = Nobody
  /\ holder' = [holder EXCEPT ![KeyOf(a)] = a]
  /\ at' = [at EXCEPT ![a] = "check"]
  /\ UNCHANGED <<poolVars, cache, reqKey, plan, built, warming, agings>>

\* The re-check under the lock takes a fresh entry only, error or not.
Recheck(a) ==
  /\ at[a] = "check"
  /\ IF IsFresh(KeyOf(a))
       THEN /\ built' = [built EXCEPT ![a] = cache[KeyOf(a)].body]
            /\ at' = [at EXCEPT ![a] = "unlock"]
       ELSE /\ at' = [at EXCEPT ![a] = "build"]
            /\ UNCHANGED built
  /\ UNCHANGED <<poolVars, cache, holder, reqKey, plan, warming, agings>>

\* Mutant: the lock is let go before the value is published.
FlightBuiltUnlocked(a, b) ==
  /\ at[a] = "build"
  /\ built' = [built EXCEPT ![a] = b]
  /\ at' = [at EXCEPT ![a] = IF b = "ok" THEN "publish" ELSE "unlock"]
  /\ holder' = [holder EXCEPT ![KeyOf(a)] = Nobody]
  /\ UNCHANGED <<poolVars, cache, reqKey, plan, warming, agings>>

\* The build ends; an error is returned but not cached.
FlightBuilt(a, b) ==
  /\ at[a] = "build"
  /\ built' = [built EXCEPT ![a] = b]
  /\ at' = [at EXCEPT ![a] = IF b = "ok" THEN "publish" ELSE "unlock"]
  /\ UNCHANGED <<poolVars, cache, holder, reqKey, plan, warming, agings>>

FlightPublish(a) ==
  /\ at[a] = "publish"
  /\ cache' = [cache EXCEPT ![KeyOf(a)] = FreshEntry(built[a])]
  /\ at' = [at EXCEPT ![a] = "unlock"]
  /\ UNCHANGED <<poolVars, holder, reqKey, plan, built, warming, agings>>

\* Mutant: a flight that ends in an error keeps its lock.
UnlockAfterSuccess(a) ==
  /\ at[a] = "unlock"
  /\ holder' = IF built[a] = "ok" THEN [holder EXCEPT ![KeyOf(a)] = Nobody] ELSE holder
  /\ at' = [at EXCEPT ![a] = "idle"]
  /\ UNCHANGED <<cache, reqKey, plan, warming, agings>>

Unlock(a) ==
  /\ at[a] = "unlock"
  /\ holder' = [holder EXCEPT ![KeyOf(a)] = Nobody]
  /\ at' = [at EXCEPT ![a] = "idle"]
  /\ UNCHANGED <<cache, reqKey, plan, warming, agings>>

-----------------------------------------------------------------------------
(* /services/data's build, and the jobs of the pool                        *)

ServicesBuilt(r, b) ==
  /\ at[r] = "scan"
  /\ at' = [at EXCEPT ![r] = IF b = "ok" THEN "store" ELSE "idle"]
  /\ UNCHANGED <<poolVars, cache, holder, reqKey, plan, built, warming, agings>>

ServicesStore(r) ==
  /\ at[r] = "store"
  /\ cache' = [cache EXCEPT ![reqKey[r]] = FreshEntry("ok")]
  /\ at' = [at EXCEPT ![r] = "idle"]
  /\ UNCHANGED <<poolVars, holder, reqKey, plan, built, warming, agings>>

\* The submission by the thread that admitted the job.
JobSubmit(j) == Submit(j) /\ UNCHANGED webVars

JobStart(j) ==
  /\ Start(j)
  /\ at' = [at EXCEPT ![j] = IF plan[j] = "flight" THEN "lock" ELSE "scan"]
  /\ UNCHANGED <<cache, holder, reqKey, plan, built, warming, agings>>

\* The bare build returns a context, with or without an error: a value.
JobBuilt(j, b) ==
  /\ at[j] = "scan"
  /\ Produced(j, TRUE)
  /\ built' = [built EXCEPT ![j] = b]
  /\ at' = [at EXCEPT ![j] = "idle"]
  /\ UNCHANGED <<cache, holder, reqKey, plan, warming, agings>>

\* A flight run by a job ends the job's producer.
JobUnlock(j) == Unlock(j) /\ Produced(j, TRUE) /\ UNCHANGED built

\* In a request thread it ends the request, which answers with the value.
RequestUnlock(r) ==
  /\ Unlock(r)
  /\ built' = [built EXCEPT ![r] = "ok"]
  /\ UNCHANGED poolVars

\* Mutant: errors are not cached here either.
JobPublishOk(j) ==
  /\ Published(j)
  /\ cache' = IF built[j] = "ok" THEN [cache EXCEPT ![jobKey[j]] = FreshEntry("ok")] ELSE cache
  /\ built' = [built EXCEPT ![j] = "ok"]
  /\ plan' = [plan EXCEPT ![j] = "direct"]
  /\ UNCHANGED <<holder, at, reqKey, warming, agings>>

\* _run: `if val is not None: cache_set(key, val)`, whatever the value says
\* and although a flight has published it already.
JobPublish(j) ==
  /\ Published(j)
  /\ cache' = [cache EXCEPT ![jobKey[j]] = FreshEntry(built[j])]
  /\ built' = [built EXCEPT ![j] = "ok"]
  /\ plan' = [plan EXCEPT ![j] = "direct"]
  /\ UNCHANGED <<holder, at, reqKey, warming, agings>>

JobRelease(j) == Release(j) /\ UNCHANGED webVars

-----------------------------------------------------------------------------
(* Time, and the cache-clear route                                         *)

Age(k) ==
  /\ agings < MaxAgings /\ cache[k] # Absent
  /\ cache' = [cache EXCEPT ![k] = IF @.age = "fresh" THEN [@ EXCEPT !.age = "stale"] ELSE Absent]
  /\ agings' = agings + 1
  /\ UNCHANGED <<poolVars, holder, at, reqKey, plan, built, warming>>

ClearCache ==
  /\ agings < MaxAgings
  /\ cache' = [k \in Keys |-> Absent]
  /\ agings' = agings + 1
  /\ UNCHANGED <<poolVars, holder, at, reqKey, plan, built, warming>>

-----------------------------------------------------------------------------
Get(r, k) == GetData(r, k) \/ GetTop(r, k) \/ GetServices(r, k)

FlightStep(a) ==
  \/ Recheck(a)
  \/ \E b \in Bodies : FlightBuilt(a, b)
  \/ FlightPublish(a)

RequestStep(r) ==
  \/ Schedule(r)
  \/ FlightStep(r) \/ RequestUnlock(r)
  \/ \E b \in Bodies : ServicesBuilt(r, b)
  \/ ServicesStore(r)

JobStep(j) ==
  \/ JobSubmit(j) \/ JobStart(j)
  \/ FlightStep(j) \/ JobUnlock(j)
  \/ \E b \in Bodies : JobBuilt(j, b)
  \/ JobPublish(j) \/ JobRelease(j)

Next ==
  \/ \E r \in Requests, k \in Keys : Get(r, k)
  \/ \E r \in Requests : RequestStep(r)
  \/ \E j \in Jobs : JobStep(j)
  \/ \E a \in Actors : Acquire(a)
  \/ \E k \in Keys : Age(k)
  \/ ClearCache

Spec == Init /\ [][Next]_vars

\* Threads are scheduled and builds end.  A lock that is free again and
\* again is obtained.  While the placeholder is shown the dashboard polls
\* /top/data every three seconds, and some request thread is free for it.
Poll(k) == k \in warming /\ \E r \in Requests : GetTop(r, k)

Fairness ==
  /\ \A r \in Requests : WF_vars(RequestStep(r))
  /\ \A j \in Jobs : WF_vars(JobStep(j))
  /\ \A a \in Actors : SF_vars(Acquire(a))
  /\ \A k \in Keys : SF_vars(Poll(k))

FairSpec == Spec /\ Fairness

-----------------------------------------------------------------------------
(* Properties                                                              *)

\* "The publish has to happen inside the lock": no cold caller starts to
\* pay, or is still paying, while another one of the same key is between its
\* re-check and its publication.
OneFlightPays ==
  \A a, b \in Actors :
    /\ at[a] \in {"build", "publish"} /\ at[b] \in {"check", "build", "publish"}
    /\ KeyOf(a) = KeyOf(b)
    => a = b

\* The dashboard does not poll for ever: after a placeholder a later answer
\* of /top/data carries the rows, or the error.
WarmingEnds == \A k \in Keys : (k \in warming) ~> (k \notin warming)

\* Every request is answered, those queued behind a cold flight too: workers
\* that wait for a request's lock and requests that wait for a worker's do
\* not wait for each other.
RequestsAnswered == \A r \in Requests : (at[r] # "idle") ~> (at[r] = "idle")

\* cold_single_flight: "an error result is returned but not cached".
ErrorsNeverCached == \A k \in Keys : cache[k] # Absent => cache[k].body = "ok"
=============================================================================

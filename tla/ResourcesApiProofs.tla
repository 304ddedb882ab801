------------------------- MODULE ResourcesApiProofs -------------------------
(***************************************************************************)
(* Proofs about RefreshPool and about ResourcesApi, which drives it, for   *)
(* any requests, keys, cap and number of workers and any finite set of     *)
(* jobs.                                                                   *)
(*                                                                         *)
(* The pool: its types, the deduplication by key, the cap, and that the    *)
(* key set and the counter account for exactly the live jobs (IInv).       *)
(* The handlers: they drive the pool as it allows, and so inherit what is  *)
(* proved there, and one cold caller of a key pays.  Mutual exclusion      *)
(* needs two facts beside the lock: a key an actor works on does not       *)
(* change under it, because a job is admitted anew only when it is free    *)
(* (JobPlaces), and whoever is past acquire holds the lock of its key      *)
(* (LockHeld).                                                             *)
(***************************************************************************)
EXTENDS ResourcesApi, FiniteSetTheorems, TLAPS

\* The queue holds submitted jobs only, and each of them once.
QueueOfQueued == \A n \in 1..Len(queue) : job[queue[n]] = "queued"
QueueOnce     == \A m, n \in 1..Len(queue) : queue[m] = queue[n] => m = n

IInv ==
  /\ PoolTypeOK
  /\ OneRefreshPerKey
  /\ BooksBalance
  /\ inflight <= MaxInflight
  /\ QueueOfQueued
  /\ QueueOnce

USE JobsAssumption, PoolAssumption

-----------------------------------------------------------------------------
(* Types                                                                   *)

LEMMA ActiveFinite == IsFiniteSet(Active) /\ Cardinality(Active) \in Nat
BY FS_Subset, FS_CardinalityType DEF Active

LEMMA InitType == PoolInit => PoolTypeOK
BY DEF PoolInit, PoolTypeOK, Stages

\* A live job counts: there is a slot to give back.
LEMMA SlotToGiveBack ==
  ASSUME IInv, NEW j \in Active PROVE inflight \in Nat \ {0}
<1>1. Active # {}
  OBVIOUS
<1>2. Cardinality(Active) # 0
  BY <1>1, ActiveFinite, FS_EmptySet
<1>3. QED
  BY <1>2 DEF IInv, BooksBalance, PoolTypeOK

LEMMA NextType == IInv /\ [PoolNext]_poolVars => PoolTypeOK'
<1> SUFFICES ASSUME IInv, [PoolNext]_poolVars PROVE PoolTypeOK'
  OBVIOUS
<1>0. PoolTypeOK
  BY DEF IInv
<1> USE <1>0 DEF PoolTypeOK, Stages
<1>1. ASSUME NEW j \in Jobs, NEW k \in Keys, Admit(j, k) PROVE PoolTypeOK'
  BY <1>1 DEF Admit
<1>2. ASSUME NEW j \in Jobs, Submit(j) PROVE PoolTypeOK'
  BY <1>2 DEF Submit
<1>3. ASSUME NEW j \in Jobs, SubmitFails(j) PROVE PoolTypeOK'
  BY <1>3 DEF SubmitFails
<1>4. ASSUME NEW j \in Jobs, job[j] # "free", GiveBack(j) PROVE PoolTypeOK'
  BY <1>4, SlotToGiveBack DEF GiveBack, Active
<1>5. ASSUME NEW j \in Jobs, Start(j) PROVE PoolTypeOK'
  BY <1>5 DEF Start
<1>6. ASSUME NEW j \in Jobs, NEW value \in BOOLEAN, Produced(j, value) PROVE PoolTypeOK'
  BY <1>6 DEF Produced
<1>7. ASSUME NEW j \in Jobs, Published(j) PROVE PoolTypeOK'
  BY <1>7 DEF Published
<1>8. CASE Close
  BY <1>8 DEF Close
<1>9. CASE UNCHANGED poolVars
  BY <1>9 DEF poolVars
<1>10. QED
  BY <1>1, <1>2, <1>3, <1>4, <1>5, <1>6, <1>7, <1>8, <1>9
  DEF PoolNext, PoolStep, Undo, Release

-----------------------------------------------------------------------------
(* The queue                                                               *)

QueueInv == QueueOfQueued /\ QueueOnce

LEMMA SubmitQueue ==
  ASSUME IInv, NEW j \in Jobs, Submit(j) PROVE QueueInv'
<1>1. /\ queue \in Seq(Jobs) /\ job \in [Jobs -> Stages] /\ job[j] = "admitted"
      /\ queue' = Append(queue, j) /\ job' = [job EXCEPT ![j] = "queued"]
  BY DEF Submit, IInv, PoolTypeOK
<1>2. /\ Len(queue') = Len(queue) + 1 /\ queue'[Len(queue) + 1] = j
      /\ \A n \in 1..Len(queue) : queue'[n] = queue[n] /\ queue[n] # j
  BY <1>1 DEF IInv, QueueOfQueued
<1>3. Len(queue) \in Nat /\ \A n \in 1..Len(queue) : queue[n] \in Jobs /\ job[queue[n]] = "queued"
  BY <1>1 DEF IInv, QueueOfQueued
<1>4. \A n \in 1..Len(queue') : n \in 1..Len(queue) \/ n = Len(queue) + 1
  BY <1>2, <1>3
<1>5. QueueOnce'
  <2>1. \A m, n \in 1..Len(queue) : queue[m] = queue[n] => m = n
    BY DEF IInv, QueueOnce
  <2> QED
    BY <1>2, <1>4, <2>1 DEF QueueOnce
<1>6. \A i \in Jobs : i = j \/ job[i] = "queued" => job'[i] = "queued"
  BY <1>1
<1>7. QueueOfQueued'
  BY <1>2, <1>3, <1>4, <1>6 DEF QueueOfQueued
<1>8. QED
  BY <1>5, <1>7 DEF QueueInv

LEMMA StartQueue ==
  ASSUME IInv, NEW j \in Jobs, Start(j) PROVE QueueInv' /\ job[j] = "queued"
<1>1. /\ queue \in Seq(Jobs) /\ job \in [Jobs -> Stages] /\ queue # <<>>
      /\ queue' = Tail(queue) /\ job' = [job EXCEPT ![j] = "running"]
  BY DEF Start, IInv, PoolTypeOK
<1>2. /\ Len(queue) \in Nat \ {0} /\ Len(queue') = Len(queue) - 1 /\ queue[1] = j
      /\ \A n \in 1..Len(queue') : queue'[n] = queue[n + 1]
  BY <1>1 DEF Start
<1>3. \A n \in 1..Len(queue') : queue'[n] # j
  BY <1>2 DEF IInv, QueueOnce
<1>4. job[j] = "queued"
  BY <1>2 DEF IInv, QueueOfQueued
<1>5. QueueOnce'
  <2>1. \A m, n \in 1..Len(queue) : queue[m] = queue[n] => m = n
    BY DEF IInv, QueueOnce
  <2>2. ASSUME NEW m \in 1..Len(queue'), NEW n \in 1..Len(queue'), queue'[m] = queue'[n]
        PROVE  m = n
    <3>1. m + 1 \in 1..Len(queue) /\ n + 1 \in 1..Len(queue)
      BY <1>2
    <3>2. queue[m + 1] = queue[n + 1]
      BY <1>2, <2>2
    <3>3. m + 1 = n + 1
      BY <2>1, <3>1, <3>2
    <3>4. QED
      BY <3>3
  <2>3. QED
    BY <2>2 DEF QueueOnce
<1>6. QueueOfQueued'
  <2>1. \A n \in 1..Len(queue') : queue'[n] \in Jobs /\ job[queue'[n]] = "queued"
    <3>1. ASSUME NEW n \in 1..Len(queue') PROVE n + 1 \in 1..Len(queue)
      BY <1>2
    <3>2. \A n \in 1..Len(queue) : queue[n] \in Jobs /\ job[queue[n]] = "queued"
      BY <1>1 DEF IInv, QueueOfQueued
    <3>3. QED
      BY <1>2, <3>1, <3>2
  <2>2. QED
    BY <1>1, <1>3, <2>1 DEF QueueOfQueued
<1>7. QED
  BY <1>4, <1>5, <1>6 DEF QueueInv

\* Every other step leaves the queue alone and moves no queued job.
LEMMA OtherQueue ==
  ASSUME IInv, queue' = queue, NEW j \in Jobs, job[j] # "queued", NEW s \in Stages,
         job' = [job EXCEPT ![j] = s]
  PROVE  QueueInv'
<1>1. \A n \in 1..Len(queue) : queue[n] \in Jobs /\ queue[n] # j
  BY DEF IInv, PoolTypeOK, QueueOfQueued
<1>2. QED
  BY <1>1 DEF IInv, PoolTypeOK, QueueInv, QueueOfQueued, QueueOnce

-----------------------------------------------------------------------------
(* The books                                                               *)

Books == OneRefreshPerKey /\ BooksBalance /\ inflight <= MaxInflight

\* An admission adds one job, one key nobody holds, one slot.
LEMMA AdmitBooks ==
  ASSUME IInv, NEW j \in Jobs, NEW k \in Keys, Admit(j, k) PROVE Books'
<1>1. /\ j \notin Active /\ Active' = Active \cup {j}
      /\ jobKey'[j] = k /\ \A i \in Active : jobKey'[i] = jobKey[i] /\ i # j
      /\ k \notin refreshing
  BY DEF Admit, Duplicate, Active, IInv, PoolTypeOK
<1>2. \A i \in Active : jobKey[i] # k
  BY <1>1 DEF IInv, BooksBalance
<1>3. OneRefreshPerKey'
  BY <1>1, <1>2 DEF IInv, OneRefreshPerKey
<1>4. refreshing' = {jobKey'[i] : i \in Active'}
  <2>1. refreshing' = {jobKey[i] : i \in Active} \cup {k}
    BY DEF Admit, IInv, BooksBalance
  <2>2. QED
    BY <1>1, <2>1
<1>5. Cardinality(Active') = Cardinality(Active) + 1
  BY <1>1, ActiveFinite, FS_AddElement
<1>6. inflight' = Cardinality(Active') /\ inflight' <= MaxInflight
  BY <1>5, ActiveFinite DEF Admit, Shed, IInv, BooksBalance, PoolTypeOK
<1>7. QED
  BY <1>3, <1>4, <1>6 DEF Books, BooksBalance

\* Giving back removes the job, its key, which no other job holds, and a slot.
LEMMA GiveBackBooks ==
  ASSUME IInv, NEW j \in Active, GiveBack(j) PROVE Books'
<1>1. /\ Active' = Active \ {j} /\ jobKey' = jobKey
  BY DEF GiveBack, Active, IInv, PoolTypeOK, Stages
<1>2. \A i \in Active \ {j} : jobKey[i] # jobKey[j]
  BY DEF IInv, OneRefreshPerKey
<1>3. OneRefreshPerKey'
  BY <1>1 DEF IInv, OneRefreshPerKey
<1>4. refreshing' = {jobKey'[i] : i \in Active'}
  <2>1. refreshing' = {jobKey[i] : i \in Active} \ {jobKey[j]}
    BY DEF GiveBack, IInv, BooksBalance
  <2>2. QED
    BY <1>1, <1>2, <2>1
<1>5. Cardinality(Active') = Cardinality(Active) - 1
  BY <1>1, ActiveFinite, FS_RemoveElement
<1>6. inflight' = Cardinality(Active') /\ inflight' <= MaxInflight
  BY <1>5, ActiveFinite DEF GiveBack, IInv, BooksBalance, PoolTypeOK
<1>7. QED
  BY <1>3, <1>4, <1>6 DEF Books, BooksBalance

\* A live job that moves to another live stage changes nothing in the books.
LEMMA MoveBooks ==
  ASSUME IInv, NEW j \in Active, NEW s \in Stages \ {"free"}, job' = [job EXCEPT ![j] = s],
         UNCHANGED <<refreshing, inflight, jobKey>>
  PROVE  Books'
<1>1. Active' = Active
  BY DEF Active, IInv, PoolTypeOK
<1>2. QED
  BY <1>1 DEF Books, IInv, OneRefreshPerKey, BooksBalance

-----------------------------------------------------------------------------
(* The inductive invariant                                                 *)

LEMMA InitInv == PoolInit => IInv
<1> SUFFICES ASSUME PoolInit PROVE IInv
  OBVIOUS
<1>1. Active = {}
  BY DEF PoolInit, Active
<1>2. Cardinality(Active) = 0
  BY <1>1, FS_EmptySet
<1>3. QED
  BY <1>1, <1>2, InitType
  DEF PoolInit, IInv, OneRefreshPerKey, BooksBalance, QueueOfQueued, QueueOnce

LEMMA NextInv == IInv /\ [PoolNext]_poolVars => IInv'
<1> SUFFICES ASSUME IInv, [PoolNext]_poolVars PROVE Books' /\ QueueInv'
  BY NextType DEF IInv, Books, QueueInv
<1>0. PoolTypeOK
  BY DEF IInv
<1>1. ASSUME NEW j \in Jobs, NEW k \in Keys, Admit(j, k) PROVE Books' /\ QueueInv'
  <2>1. QueueInv'
    <3>1. job' = [job EXCEPT ![j] = "admitted"] /\ job[j] = "free" /\ queue' = queue
      BY <1>1 DEF Admit
    <3>2. QED
      BY <3>1, OtherQueue DEF Stages
  <2>2. QED
    BY <1>1, <2>1, AdmitBooks
<1>2. ASSUME NEW j \in Jobs, Submit(j) PROVE Books' /\ QueueInv'
  BY <1>2, SubmitQueue, MoveBooks DEF Submit, Active, Stages
<1>3. ASSUME NEW j \in Jobs, SubmitFails(j) PROVE Books' /\ QueueInv'
  <2>1. job' = [job EXCEPT ![j] = "refused"] /\ job[j] = "admitted" /\ queue' = queue
        /\ UNCHANGED <<refreshing, inflight, jobKey>>
    BY <1>3 DEF SubmitFails
  <2>2. QED
    BY <2>1, OtherQueue, MoveBooks DEF Active, Stages
<1>4. ASSUME NEW j \in Jobs, job[j] \in {"refused", "release"}, GiveBack(j)
      PROVE  Books' /\ QueueInv'
  <2>1. job' = [job EXCEPT ![j] = "free"] /\ queue' = queue
    BY <1>4 DEF GiveBack
  <2>2. QED
    BY <1>4, <2>1, OtherQueue, GiveBackBooks DEF Active, Stages
<1>5. ASSUME NEW j \in Jobs, Start(j) PROVE Books' /\ QueueInv'
  BY <1>5, StartQueue, MoveBooks DEF Start, Active, Stages
<1>6. ASSUME NEW j \in Jobs, NEW value \in BOOLEAN, Produced(j, value)
      PROVE  Books' /\ QueueInv'
  <2>1. PICK s \in {"publish", "release"} : job' = [job EXCEPT ![j] = s]
    BY <1>6 DEF Produced
  <2>2. job[j] = "running" /\ queue' = queue /\ UNCHANGED <<refreshing, inflight, jobKey>>
    BY <1>6 DEF Produced
  <2>3. QED
    BY <2>1, <2>2, OtherQueue, MoveBooks DEF Active, Stages
<1>7. ASSUME NEW j \in Jobs, Published(j) PROVE Books' /\ QueueInv'
  <2>1. job' = [job EXCEPT ![j] = "release"] /\ job[j] = "publish" /\ queue' = queue
        /\ UNCHANGED <<refreshing, inflight, jobKey>>
    BY <1>7 DEF Published
  <2>2. QED
    BY <2>1, OtherQueue, MoveBooks DEF Active, Stages
<1>8. CASE UNCHANGED <<refreshing, inflight, job, jobKey, queue>>
  BY <1>8 DEF Books, QueueInv, IInv, OneRefreshPerKey, BooksBalance, Active, QueueOfQueued, QueueOnce
<1>9. QED
  BY <1>1, <1>2, <1>3, <1>4, <1>5, <1>6, <1>7, <1>8
  DEF PoolNext, PoolStep, Undo, Release, Close, poolVars

LEMMA SpecInv == PoolSpec => []IInv
BY InitInv, NextInv, PTL DEF PoolSpec

-----------------------------------------------------------------------------
\* Types; that the counter is a natural number means that no slot is ever
\* given back twice.
THEOREM PoolTypeCorrect == PoolSpec => []PoolTypeOK
<1>1. IInv => PoolTypeOK
  BY DEF IInv
<1>2. QED
  BY <1>1, SpecInv, PTL

\* Only one refresh per key is alive at a time, whatever fails.
THEOREM RefreshDeduplicated == PoolSpec => []OneRefreshPerKey
<1>1. IInv => OneRefreshPerKey
  BY DEF IInv
<1>2. QED
  BY <1>1, SpecInv, PTL

\* The key set and the counter account for exactly the live jobs: nothing
\* leaks when submit, the producer or the write fails.
THEOREM NothingLeaks == PoolSpec => []BooksBalance
<1>1. IInv => BooksBalance
  BY DEF IInv
<1>2. QED
  BY <1>1, SpecInv, PTL

\* Never more than MaxInflight refreshes are queued or running.
THEOREM CapHolds == PoolSpec => []CapRespected
<1>1. IInv => CapRespected
  BY DEF IInv, BooksBalance, CapRespected
<1>2. QED
  BY <1>1, SpecInv, PTL

-----------------------------------------------------------------------------
(* The handlers: invariant                                                 *)

Locked == {"check", "build", "publish", "unlock"}

LockHeld == \A a \in Actors : at[a] \in Locked => holder[KeyOf(a)] = a

JobPlaces ==
  \A j \in Jobs : at[j] # "idle" => job[j] = "running" /\ at[j] \in {"scan"} \cup Flight

WebTypeOK ==
  /\ cache \in [Keys -> Entry \cup {Absent}]
  /\ holder \in [Keys -> Actors \cup {Nobody}]
  /\ at \in [Actors -> Places]
  /\ reqKey \in [Requests -> Keys]
  /\ plan \in [Jobs -> {"flight", "direct"}]
  /\ built \in [Actors -> Bodies]
  /\ warming \in SUBSET Keys
  /\ agings \in 0..MaxAgings

\* The invariant of the refresh pool, and that of the handlers over it.
WebInv ==
  /\ IInv
  /\ WebTypeOK
  /\ JobPlaces
  /\ LockHeld

USE ActorsAssumption, AgingsAssumption

-----------------------------------------------------------------------------
(* The pool is used as it lets itself be used                              *)

LEMMA PoolSteps == WebInv /\ [Next]_vars => [PoolNext]_poolVars
<1> SUFFICES ASSUME WebInv, [Next]_vars PROVE [PoolNext]_poolVars
  OBVIOUS
<1>1. ASSUME NEW r \in Requests, NEW k \in Keys, Get(r, k) PROVE UNCHANGED poolVars
  BY <1>1 DEF Get, GetData, GetTop, GetServices, Arrive
<1>2. ASSUME NEW r \in Requests, Schedule(r) PROVE [PoolNext]_poolVars
  <2>1. reqKey[r] \in Keys
    BY DEF WebInv, WebTypeOK
  <2>2. UNCHANGED poolVars \/ \E j \in Jobs : Admit(j, reqKey[r])
    BY <1>2 DEF Schedule
  <2>3. QED
    BY <2>1, <2>2 DEF PoolNext
<1>3. ASSUME NEW a \in Actors, FlightStep(a) \/ Acquire(a) PROVE UNCHANGED poolVars
  BY <1>3 DEF FlightStep, Recheck, FlightBuilt, FlightPublish, Acquire
<1>4. ASSUME NEW r \in Requests, RequestUnlock(r) PROVE UNCHANGED poolVars
  BY <1>4 DEF RequestUnlock
<1>5. ASSUME NEW r \in Requests, ServicesStore(r) \/ \E b \in Bodies : ServicesBuilt(r, b)
      PROVE  UNCHANGED poolVars
  BY <1>5 DEF ServicesStore, ServicesBuilt
<1>6. ASSUME NEW j \in Jobs,
             \/ JobSubmit(j) \/ JobStart(j) \/ JobUnlock(j)
             \/ \E b \in Bodies : JobBuilt(j, b)
             \/ JobPublish(j) \/ JobRelease(j)
      PROVE  PoolNext
  <2>1. \/ Submit(j) \/ Start(j) \/ Produced(j, TRUE) \/ Published(j) \/ Release(j)
    BY <1>6 DEF JobSubmit, JobStart, JobUnlock, JobBuilt, JobPublish, JobRelease
  <2>2. QED
    BY <2>1 DEF PoolNext, PoolStep
<1>7. ASSUME NEW k \in Keys, Age(k) PROVE UNCHANGED poolVars
  BY <1>7 DEF Age
<1>8. CASE ClearCache
  BY <1>8 DEF ClearCache
<1>9. CASE UNCHANGED vars
  BY <1>9 DEF vars
<1>10. QED
  BY <1>1, <1>2, <1>3, <1>4, <1>5, <1>6, <1>7, <1>8, <1>9
     DEF Next, RequestStep, JobStep, Actors

-----------------------------------------------------------------------------
(* Types                                                                   *)

LEMMA NextWebType == WebInv /\ [Next]_vars => WebTypeOK'
<1> SUFFICES ASSUME WebInv, [Next]_vars PROVE WebTypeOK'
  OBVIOUS
<1>0. WebTypeOK /\ PoolTypeOK
  BY DEF WebInv, IInv
<1> USE <1>0 DEF WebTypeOK, PoolTypeOK, Places, Flight, Bodies, Actors
<1>k. \A a \in Actors : KeyOf(a) \in Keys
  BY DEF KeyOf
<1>e. \A b \in Bodies : FreshEntry(b) \in Entry
  BY DEF FreshEntry, Entry
<1>1. ASSUME NEW r \in Requests, NEW k \in Keys, Get(r, k) PROVE WebTypeOK'
  <2>1. warming' \in SUBSET Keys
    BY <1>1 DEF Get, GetData, GetTop, GetServices
  <2>2. at' \in [Actors -> Places] /\ reqKey' \in [Requests -> Keys]
        /\ UNCHANGED <<cache, holder, plan, built, agings>>
    <3>1. ASSUME NEW place \in Places, Arrive(r, k, place)
          PROVE  /\ at' \in [Actors -> Places] /\ reqKey' \in [Requests -> Keys]
                 /\ UNCHANGED <<cache, holder, plan, built, agings>>
      BY <3>1 DEF Arrive
    <3>2. \E place \in Places : Arrive(r, k, place)
      BY <1>1 DEF Get, GetData, GetTop, GetServices
    <3>3. QED
      BY <3>1, <3>2
  <2>3. QED
    BY <2>1, <2>2
<1>2. ASSUME NEW r \in Requests, Schedule(r) PROVE WebTypeOK'
  <2>1. plan' \in [Jobs -> {"flight", "direct"}]
    BY <1>2 DEF Schedule
  <2>2. QED
    BY <1>2, <2>1 DEF Schedule
<1>3. ASSUME NEW a \in Actors, Acquire(a) PROVE WebTypeOK'
  BY <1>3, <1>k DEF Acquire
<1>4. ASSUME NEW a \in Actors, Recheck(a) PROVE WebTypeOK'
  <2>1. IsFresh(KeyOf(a)) => cache[KeyOf(a)].body \in Bodies
    BY <1>k DEF IsFresh, Entry
  <2>2. built' \in [Actors -> Bodies]
    BY <1>4, <2>1 DEF Recheck
  <2>3. QED
    BY <1>4, <2>2 DEF Recheck
<1>5. ASSUME NEW a \in Actors, NEW b \in Bodies, FlightBuilt(a, b) PROVE WebTypeOK'
  BY <1>5 DEF FlightBuilt
<1>6. ASSUME NEW a \in Actors, FlightPublish(a) PROVE WebTypeOK'
  BY <1>6, <1>k, <1>e DEF FlightPublish
<1>7. ASSUME NEW a \in Actors, Unlock(a), built' = built \/ built' = [built EXCEPT ![a] = "ok"]
      PROVE  WebTypeOK'
  BY <1>7, <1>k DEF Unlock
<1>8. ASSUME NEW r \in Requests, NEW b \in Bodies, ServicesBuilt(r, b) PROVE WebTypeOK'
  BY <1>8 DEF ServicesBuilt
<1>9. ASSUME NEW r \in Requests, ServicesStore(r) PROVE WebTypeOK'
  BY <1>9, <1>e DEF ServicesStore
<1>10. ASSUME NEW j \in Jobs, JobSubmit(j) \/ JobRelease(j) PROVE WebTypeOK'
  BY <1>10 DEF JobSubmit, JobRelease, webVars
<1>11. ASSUME NEW j \in Jobs, JobStart(j) PROVE WebTypeOK'
  BY <1>11 DEF JobStart
<1>12. ASSUME NEW j \in Jobs, NEW b \in Bodies, JobBuilt(j, b) PROVE WebTypeOK'
  BY <1>12 DEF JobBuilt
<1>13. ASSUME NEW j \in Jobs, JobPublish(j) PROVE WebTypeOK'
  BY <1>13, <1>e DEF JobPublish
<1>14. ASSUME NEW k \in Keys, Age(k) PROVE WebTypeOK'
  <2>1. cache' \in [Keys -> Entry \cup {Absent}]
    <3>1. cache[k] \in Entry
      BY <1>14 DEF Age
    <3>2. [cache[k] EXCEPT !.age = "stale"] \in Entry
      BY <3>1 DEF Entry
    <3>3. QED
      BY <1>14, <3>2 DEF Age
  <2>2. agings' \in 0..MaxAgings
    BY <1>14 DEF Age
  <2>3. QED
    BY <1>14, <2>1, <2>2 DEF Age
<1>15. CASE ClearCache
  BY <1>15 DEF ClearCache
<1>16. CASE UNCHANGED vars
  BY <1>16 DEF vars, webVars
<1>17. ASSUME NEW a \in Actors, FlightStep(a) PROVE WebTypeOK'
  BY <1>17, <1>4, <1>5, <1>6 DEF FlightStep
<1>18. ASSUME NEW r \in Requests, RequestStep(r) PROVE WebTypeOK'
  <2>1. RequestUnlock(r) => WebTypeOK'
    BY <1>7 DEF RequestUnlock
  <2>2. QED
    BY <1>18, <2>1, <1>2, <1>8, <1>9, <1>17 DEF RequestStep
<1>19. ASSUME NEW j \in Jobs, JobStep(j) PROVE WebTypeOK'
  <2>1. JobUnlock(j) => WebTypeOK'
    BY <1>7 DEF JobUnlock
  <2>2. QED
    BY <1>19, <2>1, <1>10, <1>11, <1>12, <1>13, <1>17 DEF JobStep
<1>20. QED
  BY <1>1, <1>3, <1>14, <1>15, <1>16, <1>18, <1>19 DEF Next

-----------------------------------------------------------------------------
(* Places and locks                                                        *)

Flights == JobPlaces /\ LockHeld

LEMMA NextFlights == WebInv /\ [Next]_vars => Flights'
<1> SUFFICES ASSUME WebInv, [Next]_vars PROVE Flights'
  OBVIOUS
<1>0. WebTypeOK /\ PoolTypeOK /\ Flights
  BY DEF WebInv, IInv, Flights
<1> USE <1>0 DEF WebTypeOK, PoolTypeOK, Stages, Places, Flight, Actors, Flights, JobPlaces,
                 LockHeld, Locked, KeyOf
<1>1. ASSUME NEW r \in Requests, NEW k \in Keys, Get(r, k) PROVE Flights'
  <2>1. PICK place \in {"idle", "lock", "warm", "refresh", "scan"} : Arrive(r, k, place)
    BY <1>1 DEF Get, GetData, GetTop, GetServices
  <2>2. QED
    BY <2>1 DEF Arrive, poolVars
<1>2. ASSUME NEW r \in Requests, Schedule(r) PROVE Flights'
  <2>1. at' = [at EXCEPT ![r] = "idle"] /\ UNCHANGED <<holder, reqKey>>
    BY <1>2 DEF Schedule
  <2>2. \A j \in Jobs : job[j] = "running" => job'[j] = "running" /\ jobKey'[j] = jobKey[j]
    BY <1>2 DEF Schedule, Admit, poolVars
  <2>3. QED
    BY <2>1, <2>2
<1>3. ASSUME NEW a \in Actors, Acquire(a) PROVE Flights'
  BY <1>3 DEF Acquire, poolVars
<1>4. ASSUME NEW a \in Actors, FlightStep(a) PROVE Flights'
  <2>1. PICK place \in Locked : at' = [at EXCEPT ![a] = place]
    BY <1>4 DEF FlightStep, Recheck, FlightBuilt, FlightPublish
  <2>2. at[a] \in Locked /\ UNCHANGED <<job, jobKey, holder, reqKey>>
    BY <1>4 DEF FlightStep, Recheck, FlightBuilt, FlightPublish, poolVars
  <2>3. QED
    BY <2>1, <2>2
<1>5. ASSUME NEW r \in Requests, RequestUnlock(r) PROVE Flights'
  BY <1>5 DEF RequestUnlock, Unlock, poolVars
<1>6. ASSUME NEW r \in Requests, ServicesStore(r) \/ \E b \in Bodies : ServicesBuilt(r, b)
      PROVE  Flights'
  <2>1. PICK place \in {"idle", "store"} : at' = [at EXCEPT ![r] = place]
    BY <1>6 DEF ServicesStore, ServicesBuilt
  <2>2. UNCHANGED <<job, jobKey, holder, reqKey>>
    BY <1>6 DEF ServicesStore, ServicesBuilt, poolVars
  <2>3. QED
    BY <2>1, <2>2
<1>7. ASSUME NEW j \in Jobs, JobSubmit(j) \/ JobPublish(j) \/ JobRelease(j) PROVE Flights'
  <2>1. job[j] # "running" /\ UNCHANGED <<at, holder, reqKey, jobKey>>
    BY <1>7 DEF JobSubmit, JobPublish, JobRelease, Submit, Published, Release, GiveBack, webVars
  <2>2. \A i \in Jobs : i # j => job'[i] = job[i]
    BY <1>7 DEF JobSubmit, JobPublish, JobRelease, Submit, Published, Release, GiveBack
  <2>3. QED
    BY <2>1, <2>2
<1>8. ASSUME NEW j \in Jobs, JobStart(j) PROVE Flights'
  <2>1. PICK place \in {"lock", "scan"} : at' = [at EXCEPT ![j] = place]
    BY <1>8 DEF JobStart
  <2>2. job' = [job EXCEPT ![j] = "running"] /\ UNCHANGED <<jobKey, holder, reqKey>>
    BY <1>8 DEF JobStart, Start
  <2>3. QED
    BY <2>1, <2>2
<1>9. ASSUME NEW j \in Jobs, NEW b \in Bodies, JobBuilt(j, b) PROVE Flights'
  BY <1>9 DEF JobBuilt, Produced
<1>10. ASSUME NEW j \in Jobs, JobUnlock(j) PROVE Flights'
  BY <1>10 DEF JobUnlock, Unlock, Produced
<1>11. ASSUME NEW k \in Keys, Age(k) PROVE Flights'
  BY <1>11 DEF Age, poolVars
<1>12. CASE ClearCache
  BY <1>12 DEF ClearCache, poolVars
<1>13. CASE UNCHANGED vars
  BY <1>13 DEF vars, webVars, poolVars
<1>14. ASSUME NEW r \in Requests, RequestStep(r) PROVE Flights'
  BY <1>14, <1>2, <1>4, <1>5, <1>6 DEF RequestStep
<1>15. ASSUME NEW j \in Jobs, JobStep(j) PROVE Flights'
  BY <1>15, <1>4, <1>7, <1>8, <1>9, <1>10 DEF JobStep
<1>16. QED
  BY <1>1, <1>3, <1>11, <1>12, <1>13, <1>14, <1>15 DEF Next

-----------------------------------------------------------------------------
LEMMA WebInvInit == Init => WebInv
<1> SUFFICES ASSUME Init PROVE WebInv
  OBVIOUS
<1>1. IInv
  BY InitInv DEF Init
<1>2. WebTypeOK /\ JobPlaces /\ LockHeld
  BY DEF Init, WebTypeOK, JobPlaces, LockHeld, Locked, Actors, Places, Bodies
<1>3. QED
  BY <1>1, <1>2 DEF WebInv

LEMMA WebInvNext == WebInv /\ [Next]_vars => WebInv'
<1>1. WebInv => IInv
  BY DEF WebInv
<1>2. QED
  BY <1>1, PoolSteps, NextInv, NextWebType, NextFlights DEF WebInv, Flights

LEMMA WebInvHolds == Spec => []WebInv
BY WebInvInit, WebInvNext, PTL DEF Spec

\* The types of ResourcesApi hold whatever the numbers of actors and keys.
THEOREM WebTypeCorrect == Spec => []TypeOK
<1>1. WebInv => TypeOK
  BY DEF WebInv, IInv, WebTypeOK, TypeOK
<1>2. QED
  BY WebInvHolds, <1>1, PTL

\* What is proved of the pool holds of the server, whose steps are the pool's or
\* leave it alone: however many requests find an entry stale, one refresh per key
\* is under way, and none leaks.
THEOREM ServerRefreshesOnce == Spec => [](OneRefreshPerKey /\ BooksBalance)
<1>1. WebInv => OneRefreshPerKey /\ BooksBalance
  BY DEF WebInv, IInv
<1>2. QED
  BY WebInvHolds, <1>1, PTL

\* Of all the request threads and workers that come cold for one key, one
\* runs the producer, and nobody is past the re-check until it has published.
THEOREM ColdFlightPaysOnce == Spec => []OneFlightPays
<1>1. WebInv => OneFlightPays
  <2> SUFFICES ASSUME WebInv PROVE OneFlightPays
    OBVIOUS
  <2>1. \A a \in Actors : at[a] \in Locked => holder[KeyOf(a)] = a
    BY DEF WebInv, LockHeld
  <2>2. QED
    BY <2>1 DEF OneFlightPays, Locked
<1>2. QED
  BY WebInvHolds, <1>1, PTL
=============================================================================

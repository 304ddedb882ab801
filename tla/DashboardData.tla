---------------------------- MODULE DashboardData ----------------------------
(***************************************************************************)
(* The data layer of the dashboard in one browser tab: useAsyncData (hooks/*)
(* useAsyncData.js) runs a loader when its dependencies change, getJson    *)
(* (api.js) answers from localStorage or fetches, swrCache.js keeps what   *)
(* was fetched, and ceMeter.js adds up what the fetches cost.              *)
(*                                                                         *)
(* React runs the effect of a change after the render that shows it, so    *)
(* the old load's answer may still arrive in between.  A fetch is one      *)
(* step from the request to its answer: the request is sent, the cache     *)
(* entry captured before it is kept, and the answer is stored, metered and *)
(* shown in one turn of the event loop.  A payload is reduced to the key   *)
(* it answers, the time it was made and its kind; money to calls.          *)
(***************************************************************************)
EXTENDS Integers, FiniteSets

CONSTANTS Hooks,       \* mounted or mountable useAsyncData hooks
          Keys,        \* cache keys: path and parameters
          Oversized,   \* keys whose payload exceeds MAX_ENTRY_BYTES
          Nothing,     \* no key, no entry, no load, no data
          Ttl, Stale,  \* TTL_MS and STALE_MS
          EvictCount,  \* entries evicted at the quota
          MaxCalls,    \* Cost Explorer calls of one request, at most
          MaxRequest,  \* how long the browser keeps a request open, at most
          MaxTime, MaxMoves, MaxFaults  \* bounds: clock, user, failures

ASSUME KeysAssumption == Nothing \notin Keys /\ Oversized \subseteq Keys
ASSUME AgesAssumption == Ttl \in Nat /\ Stale \in Nat /\ Ttl <= Stale /\ MaxRequest \in Nat
ASSUME BoundsAssumption ==
  /\ EvictCount \in Nat \ {0}
  /\ MaxCalls \in Nat /\ MaxTime \in Nat /\ MaxMoves \in Nat /\ MaxFaults \in Nat

VARIABLES
  now,    \* Date.now()
  store,  \* [Keys -> an entry of localStorage or Nothing]
  want,   \* the key a hook's current render asks for; Nothing: not mounted
  due,    \* hooks whose effect is to run: mounted, new deps or a new tick
  load,   \* the load of inFlight.current, or Nothing when it has ended
  late,   \* aborted loads whose promise, or whose work at the server, goes on
  view,   \* the state of each hook
  meter,  \* ceMeter's total of calls
  spent,  \* calls the server has made for this tab since it was loaded
  reset,  \* calls cleared from the meter by a click
  moves, faults

vars == <<now, store, want, due, load, late, view, meter, spent, reset, moves, faults>>

Figures == [of: Keys, made: Nat, kind: {"figures"}]
Payload == [of: Keys, made: Nat, kind: {"figures", "error", "warming"}]
Entry   == [ts: Nat, value: Figures]
Load    == [key: Keys, cached: Figures \cup {Nothing}, hit: BOOLEAN, since: Nat]
View    == [loading: BOOLEAN, error: BOOLEAN, data: Payload \cup {Nothing},
            from: {"none", "server", "fresh", "stale"}]

ASSUME NothingAssumption == Nothing \notin Payload \cup Entry \cup Load

\* Only figures are ever kept: no error and no warming placeholder, which
\* would "poison the view for the whole SWR TTL" (getJson).
TypeOK ==
  /\ now \in 0..MaxTime
  /\ store \in [Keys -> Entry \cup {Nothing}]
  /\ want \in [Hooks -> Keys \cup {Nothing}]
  /\ due \in SUBSET Hooks
  /\ load \in [Hooks -> Load \cup {Nothing}]
  /\ late \in [Hooks -> SUBSET Load]
  /\ view \in [Hooks -> View]
  /\ meter \in Nat /\ spent \in Nat /\ reset \in Nat
  /\ moves \in 0..MaxMoves /\ faults \in 0..MaxFaults

Mounting == [loading |-> TRUE, error |-> FALSE, data |-> Nothing, from |-> "none"]

Init ==
  /\ now = 0 /\ moves = 0 /\ faults = 0
  /\ store = [k \in Keys |-> Nothing]
  /\ want = [h \in Hooks |-> Nothing]
  /\ due = {}
  /\ load = [h \in Hooks |-> Nothing]
  /\ late = [h \in Hooks |-> {}]
  /\ view = [h \in Hooks |-> Mounting]
  /\ meter = 0 /\ spent = 0 /\ reset = 0

-----------------------------------------------------------------------------
(* localStorage (swrCache.js)                                              *)

Age(e) == now - e.ts

Cached == {k \in Keys : store[k] # Nothing}

\* What readSwr finds; an entry past STALE_MS is removed by the read.
Readable(k) == store[k] # Nothing /\ Age(store[k]) <= Stale
\* Mutant: what can be read is fresh.
FreshAnyAge(k) == Readable(k)

Fresh(k) == Readable(k) /\ Age(store[k]) < Ttl
AfterRead(k) == IF Readable(k) THEN store ELSE [store EXCEPT ![k] = Nothing]

\* Without the entries in E.
Without(E) == [k \in Keys |-> IF k \in E THEN Nothing ELSE store[k]]

\* evictOldest: EvictCount of the entries, the oldest ones.
Oldest(E) ==
  /\ E \subseteq Cached
  /\ Cardinality(E) = EvictCount \/ (E = Cached /\ Cardinality(E) < EvictCount)
  /\ \A e \in E, o \in Cached \ E : store[e].ts <= store[o].ts

\* writeSwr: stored, or not: too large, storage disabled, or at the quota
\* with nothing to evict; or stored, or still not, after an eviction.  The
\* quota is the browser's, so it may be met at any write.
WriteSwr(p) ==
  LET entry == [ts |-> now, value |-> p]
  IN \/ store' = store
     \/ /\ p.of \notin Oversized
        /\ store' = [store EXCEPT ![p.of] = entry]
     \/ \E E \in SUBSET Cached :
          /\ p.of \notin Oversized /\ E # {} /\ Oldest(E)
          /\ \/ store' = Without(E)
             \/ store' = [Without(E) EXCEPT ![p.of] = entry]

-----------------------------------------------------------------------------
(* useAsyncData and getJson                                                *)

Move == moves < MaxMoves /\ moves' = moves + 1

\* A hook is mounted, or rendered with other dependencies.
Ask(h, k) ==
  /\ Move /\ want[h] # k
  /\ want' = [want EXCEPT ![h] = k]
  /\ due' = due \cup {h}
  /\ UNCHANGED <<now, store, load, late, view, meter, spent, reset, faults>>

\* reload(): a Retry button or a poll.
Reload(h) ==
  /\ Move /\ want[h] # Nothing
  /\ due' = due \cup {h}
  /\ UNCHANGED <<now, store, want, load, late, view, meter, spent, reset, faults>>

Aborted(h) == IF load[h] = Nothing THEN late[h] ELSE late[h] \cup {load[h]}

\* The page is left: the effect's cleanup aborts, and the state is gone.
Unmount(h) ==
  /\ Move /\ want[h] # Nothing
  /\ want' = [want EXCEPT ![h] = Nothing]
  /\ due' = due \ {h}
  /\ late' = [late EXCEPT ![h] = Aborted(h)]
  /\ load' = [load EXCEPT ![h] = Nothing]
  /\ view' = [view EXCEPT ![h] = Mounting]
  /\ UNCHANGED <<now, store, meter, spent, reset, faults>>

\* The effect: abort the load before, and start a new one.  What the view
\* shows stays on, and getJson reads the cache before its first await.
RunEffect(h) ==
  LET k == want[h]
  IN /\ h \in due
     /\ due' = due \ {h}
     /\ late' = [late EXCEPT ![h] = Aborted(h)]
     /\ load' = [load EXCEPT ![h] =
          [key |-> k, cached |-> IF Readable(k) THEN store[k].value ELSE Nothing,
           hit |-> Fresh(k), since |-> now]]
     /\ view' = [view EXCEPT ![h] = [@ EXCEPT !.loading = TRUE, !.error = FALSE]]
     /\ store' = AfterRead(k)
     /\ UNCHANGED <<now, want, meter, spent, reset, moves, faults>>

\* setState of the then-branch.
Shown(p, from) == [loading |-> FALSE, error |-> FALSE, data |-> p, from |-> from]

Ended(h) == load' = [load EXCEPT ![h] = Nothing]

\* Mutant: the cache would keep the answer's meta too, and it is metered again.
FreshHitMetered(h) ==
  /\ load[h] # Nothing /\ load[h].hit
  /\ view' = [view EXCEPT ![h] = Shown(load[h].cached, "fresh")]
  /\ meter' = meter + MaxCalls
  /\ Ended(h)
  /\ UNCHANGED <<now, store, want, due, late, spent, reset, moves, faults>>

\* The promise of a fresh cache hit resolves: no request, no cost.
FreshHit(h) ==
  /\ load[h] # Nothing /\ load[h].hit
  /\ view' = [view EXCEPT ![h] = Shown(load[h].cached, "fresh")]
  /\ Ended(h)
  /\ UNCHANGED <<now, store, want, due, late, meter, spent, reset, moves, faults>>

\* recordCe: a header that is no number counts as 0.
Recorded(calls) == {calls, 0}

\* Mutant: error payloads and placeholders are kept like figures.
AnsweredKept(h, kind, calls) ==
  LET p == [of |-> load[h].key, made |-> now, kind |-> kind]
  IN /\ load[h] # Nothing /\ ~load[h].hit
     /\ view' = [view EXCEPT ![h] = Shown(p, "server")]
     /\ WriteSwr(p)
     /\ spent' = spent + calls
     /\ \E c \in Recorded(calls) : meter' = meter + c
     /\ Ended(h)
     /\ UNCHANGED <<now, want, due, late, reset, moves, faults>>

\* A 200 arrives: figures, an {error} payload or a {warming} placeholder.
Answered(h, kind, calls) ==
  LET p == [of |-> load[h].key, made |-> now, kind |-> kind]
  IN /\ load[h] # Nothing /\ ~load[h].hit
     /\ view' = [view EXCEPT ![h] = Shown(p, "server")]
     /\ IF kind = "figures" THEN WriteSwr(p) ELSE store' = store
     /\ spent' = spent + calls
     /\ \E c \in Recorded(calls) : meter' = meter + c
     /\ Ended(h)
     /\ UNCHANGED <<now, want, due, late, reset, moves, faults>>

\* Mutant: the catch-branch forgets loading: false.
FailedStuck(h, calls) ==
  /\ load[h] # Nothing /\ ~load[h].hit /\ faults < MaxFaults
  /\ view' = [view EXCEPT ![h] = IF load[h].cached # Nothing
                                 THEN Shown(load[h].cached, "stale")
                                 ELSE [@ EXCEPT !.error = TRUE]]
  /\ spent' = spent + calls
  /\ faults' = faults + 1
  /\ Ended(h)
  /\ UNCHANGED <<now, store, want, due, late, meter, reset, moves>>

\* The request fails, or is answered with another status: what the cache
\* held at the start is served as stale, or the error is shown over the data
\* that is there.  The server may have made its calls.
Failed(h, calls) ==
  /\ load[h] # Nothing /\ ~load[h].hit /\ faults < MaxFaults
  /\ view' = [view EXCEPT ![h] = IF load[h].cached # Nothing
                                 THEN Shown(load[h].cached, "stale")
                                 ELSE [@ EXCEPT !.loading = FALSE, !.error = TRUE]]
  /\ spent' = spent + calls
  /\ faults' = faults + 1
  /\ Ended(h)
  /\ UNCHANGED <<now, store, want, due, late, meter, reset, moves>>

\* Mutant: the handlers do not ask whether their load was aborted.
LateEndsShown(h, l, calls) ==
  /\ l \in late[h] /\ (l.hit => calls = 0)
  /\ late' = [late EXCEPT ![h] = @ \ {l}]
  /\ spent' = spent + calls
  /\ view' = [view EXCEPT ![h] =
       IF want[h] = Nothing THEN @ ELSE Shown([of |-> l.key, made |-> now, kind |-> "figures"], "server")]
  /\ UNCHANGED <<now, store, want, due, load, meter, reset, moves, faults>>

\* An aborted load ends: its promise is ignored, or rejected at the fetch,
\* before anything is stored; the calls the server made for it are on no meter.
LateEnds(h, l, calls) ==
  /\ l \in late[h] /\ (l.hit => calls = 0)
  /\ late' = [late EXCEPT ![h] = @ \ {l}]
  /\ spent' = spent + calls
  /\ UNCHANGED <<now, store, want, due, load, view, meter, reset, moves, faults>>

-----------------------------------------------------------------------------
(* The meter's button, other tabs, a reload of the page, time              *)

ResetMeter ==
  /\ Move /\ meter > 0
  /\ reset' = reset + meter
  /\ meter' = 0
  /\ UNCHANGED <<now, store, want, due, load, late, view, spent, faults>>

\* Another tab of the dashboard stores an answer of its own, or evicts.
OtherTab(k) ==
  /\ Move
  /\ \/ k \notin Oversized
        /\ store' = [store EXCEPT ![k] =
             [ts |-> now, value |-> [of |-> k, made |-> now, kind |-> "figures"]]]
     \/ store[k] # Nothing /\ store' = Without({k})
  /\ UNCHANGED <<now, want, due, load, late, view, meter, spent, reset, faults>>

\* The page is loaded again: the modules' state is new, and sweepStale drops
\* what is past STALE_MS.
PageLoad ==
  /\ Move
  /\ store' = Without({k \in Cached : Age(store[k]) > Stale})
  /\ want' = [h \in Hooks |-> Nothing]
  /\ due' = {}
  /\ load' = [h \in Hooks |-> Nothing]
  /\ late' = [h \in Hooks |-> {}]
  /\ view' = [h \in Hooks |-> Mounting]
  /\ meter' = 0 /\ spent' = 0 /\ reset' = 0
  /\ UNCHANGED <<now, faults>>

\* Effects and resolved promises take no time on the scale of the lifetimes,
\* and no request is open longer than MaxRequest.
Tick ==
  /\ now < MaxTime /\ due = {}
  /\ \A h \in Hooks : load[h] # Nothing => ~load[h].hit /\ now - load[h].since < MaxRequest
  /\ now' = now + 1
  /\ UNCHANGED <<store, want, due, load, late, view, meter, spent, reset, moves, faults>>

-----------------------------------------------------------------------------
LoadEnds(h) ==
  \/ FreshHit(h)
  \/ \E calls \in 0..MaxCalls :
       \/ \E kind \in {"figures", "error", "warming"} : Answered(h, kind, calls)
       \/ Failed(h, calls)

User ==
  \/ \E h \in Hooks, k \in Keys : Ask(h, k)
  \/ \E h \in Hooks : Reload(h) \/ Unmount(h)
  \/ ResetMeter
  \/ \E k \in Keys : OtherTab(k)
  \/ PageLoad

Next ==
  \/ User
  \/ \E h \in Hooks : RunEffect(h) \/ LoadEnds(h)
  \/ \E h \in Hooks, calls \in 0..MaxCalls : \E l \in late[h] : LateEnds(h, l, calls)
  \/ Tick

Spec == Init /\ [][Next]_vars

\* React runs every effect it has scheduled, and a request ends, if only by
\* the network's failure; the user makes finitely many moves.
Fairness == \A h \in Hooks : WF_vars(RunEffect(h)) /\ WF_vars(LoadEnds(h))

FairSpec == Spec /\ Fairness

-----------------------------------------------------------------------------
(* Properties                                                              *)

\* "State only updates from the latest in-flight request": once its effect
\* has run, a hook that is not loading shows the payload of the key its page
\* asks for now, or an error; never that of a profile or a filter left behind,
\* in whatever order answers, aborts and effects come.
LatestLoadWins ==
  \A h \in Hooks : want[h] # Nothing /\ h \notin due =>
    /\ view[h].loading <=> load[h] # Nothing
    /\ load[h] # Nothing => load[h].key = want[h]
    /\ ~view[h].loading /\ ~view[h].error =>
         view[h].data # Nothing /\ view[h].data.of = want[h]

\* The age of a payload that is put on screen.
ShownInTime(h) ==
  LET p == view'[h].data
  IN p # Nothing /\ p # view[h].data =>
       CASE view'[h].from = "server" -> p.made = now
         [] view'[h].from = "fresh"  -> now - p.made < Ttl
         [] view'[h].from = "stale"  -> now - p.made <= Stale + MaxRequest
         [] OTHER -> FALSE

\* How old figures may be when they are put on screen: new if they come from
\* the server, under five minutes if the cache served them without asking,
\* and a day, and the request that failed, if they are marked as stale.
ServedAgeBound == [][\A h \in Hooks : ShownInTime(h)]_vars

\* The meter and what was cleared from it never exceed what the server has
\* spent for this tab: figures served from the cache are not charged again,
\* nor is one answer charged twice.
MeterNeverOvercounts == meter + reset <= spent

\* What a hook shows and loads, to the component that calls it.
ShownTo(v) ==
  [data |-> IF v.data = Nothing THEN Nothing ELSE v.data.of,
   kind |-> IF v.data = Nothing THEN "figures" ELSE v.data.kind,
   stale |-> v.from = "stale", error |-> v.error]
KeyOf(l) == IF l = Nothing THEN Nothing ELSE l.key

Hook == INSTANCE AsyncData WITH
  loading <- [h \in Hooks |-> KeyOf(load[h])],
  view    <- [h \in Hooks |-> ShownTo(view[h])]

\* To its component a hook is what AsyncData says: what is shown changes by
\* the end of the load last started, to an outcome of that load, whatever the
\* cache, aborted loads, other tabs and the server do in between.
KeepsHookPromise == Hook!Spec

\* A page that loads stops loading: neither an abort, nor a failure, nor a
\* cache hit leaves a hook in its skeleton for ever.
LoadsEnd ==
  \A h \in Hooks : (want[h] # Nothing /\ view[h].loading) ~> (want[h] = Nothing \/ ~view[h].loading)
=============================================================================

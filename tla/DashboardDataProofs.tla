------------------------- MODULE DashboardDataProofs -------------------------
(***************************************************************************)
(* Theorems about the data layer of the dashboard, for any number of hooks *)
(* and keys, any lifetimes and any bounds.                                 *)
(*                                                                         *)
(* What a hook shows is right because of what a load carries: the key its  *)
(* page asks for, and the entry found when it started, which is that key's *)
(* and of an age that is known.  IInv says so of storage and of loads.     *)
(***************************************************************************)
EXTENDS DashboardData, TLAPS

-----------------------------------------------------------------------------
(* The inductive invariant                                                 *)

\* Entries carry figures of their own key, of when they were stored.
Stored(s, t) ==
  \A k \in Keys : s[k] # Nothing =>
    s[k].value.of = k /\ s[k].ts = s[k].value.made /\ s[k].ts <= t

\* A load belongs to a mounted hook, is not open for longer than a request
\* may be, and its entry is of its key and was young enough when it started.
Sound(l, t) ==
  /\ l.since <= t /\ t - l.since <= MaxRequest
  /\ l.cached # Nothing =>
       l.cached.of = l.key /\ l.cached.made <= l.since /\ l.since - l.cached.made <= Stale
  /\ l.hit => l.cached # Nothing /\ t - l.cached.made < Ttl

LoadsSound == \A h \in Hooks : load[h] # Nothing => want[h] # Nothing /\ Sound(load[h], now)

\* Only mounted hooks have effects to run.
DueMounted == \A h \in due : want[h] # Nothing

IInv ==
  TypeOK /\ Stored(store, now) /\ LoadsSound /\ DueMounted /\ LatestLoadWins /\ MeterNeverOvercounts

-----------------------------------------------------------------------------
\* Whatever becomes of a write, localStorage holds entries, each with the
\* figures of its own key.
LEMMA WriteKeepsStore ==
  ASSUME TypeOK, Stored(store, now), NEW p \in Figures, p.made = now, WriteSwr(p)
  PROVE  store' \in [Keys -> Entry \cup {Nothing}] /\ Stored(store', now)
<1>1. now \in Nat /\ store \in [Keys -> Entry \cup {Nothing}] BY DEF TypeOK
<1> DEFINE e == [ts |-> now, value |-> p]
<1>2. e \in Entry BY <1>1 DEF Entry
<1>3. ASSUME NEW s, s \in [Keys -> Entry \cup {Nothing}], Stored(s, now)
      PROVE  /\ [s EXCEPT ![p.of] = e] \in [Keys -> Entry \cup {Nothing}]
             /\ Stored([s EXCEPT ![p.of] = e], now)
  BY <1>1, <1>2, <1>3 DEF Stored, Figures
<1>4. ASSUME NEW E \in SUBSET Cached
      PROVE  Without(E) \in [Keys -> Entry \cup {Nothing}] /\ Stored(Without(E), now)
  BY <1>1, <1>4 DEF Stored, Without
<1>5. CASE store' = store BY <1>5, <1>1
<1>6. CASE store' = [store EXCEPT ![p.of] = e] BY <1>6, <1>1, <1>3
<1>7. CASE \E E \in SUBSET Cached : store' = Without(E) \/ store' = [Without(E) EXCEPT ![p.of] = e]
  <2>1. PICK E \in SUBSET Cached : store' = Without(E) \/ store' = [Without(E) EXCEPT ![p.of] = e]
    BY <1>7
  <2>2. CASE store' = Without(E) BY <2>2, <1>4
  <2>3. CASE store' = [Without(E) EXCEPT ![p.of] = e]
    <3>1. Without(E) \in [Keys -> Entry \cup {Nothing}] /\ Stored(Without(E), now) BY <1>4
    <3>2. QED BY <3>1, <2>3, <1>3
  <2>4. QED BY <2>1, <2>2, <2>3
<1>8. QED BY <1>5, <1>6, <1>7 DEF WriteSwr

LEMMA InitIInv == ASSUME Init PROVE IInv
<1>1. 0 \in Nat /\ 0 \in 0..MaxTime /\ 0 \in 0..MaxMoves /\ 0 \in 0..MaxFaults
  BY BoundsAssumption
<1>2. Mounting \in View BY DEF Mounting, View
<1>3. TypeOK BY <1>1, <1>2 DEF Init, TypeOK
<1>4. QED BY <1>3 DEF Init, IInv, Stored, LoadsSound, DueMounted, LatestLoadWins, MeterNeverOvercounts

-----------------------------------------------------------------------------
(* What the user does                                                      *)

LEMMA AskKeeps == ASSUME IInv, NEW h \in Hooks, NEW k \in Keys, Ask(h, k) PROVE IInv'
<1> USE DEF IInv, Ask, Move
<1>1. TypeOK' BY BoundsAssumption DEF TypeOK
<1>2. Stored(store, now)' BY DEF Stored
<1>3. LoadsSound' BY KeysAssumption DEF LoadsSound, Sound, TypeOK
<1>4. DueMounted' BY KeysAssumption DEF DueMounted, TypeOK
<1>5. LatestLoadWins' BY DEF LatestLoadWins, TypeOK
<1>6. MeterNeverOvercounts' BY DEF MeterNeverOvercounts
<1>7. QED BY <1>1, <1>2, <1>3, <1>4, <1>5, <1>6

LEMMA ReloadKeeps == ASSUME IInv, NEW h \in Hooks, Reload(h) PROVE IInv'
<1> USE DEF IInv, Reload, Move
<1>1. TypeOK' BY BoundsAssumption DEF TypeOK
<1>2. Stored(store, now)' BY DEF Stored
<1>3. LoadsSound' BY DEF LoadsSound, Sound
<1>4. DueMounted' BY DEF DueMounted
<1>5. LatestLoadWins' BY DEF LatestLoadWins
<1>6. MeterNeverOvercounts' BY DEF MeterNeverOvercounts
<1>7. QED BY <1>1, <1>2, <1>3, <1>4, <1>5, <1>6

LEMMA UnmountKeeps == ASSUME IInv, NEW h \in Hooks, Unmount(h) PROVE IInv'
<1> USE DEF IInv, Unmount, Move
<1>1. Mounting \in View BY DEF Mounting, View
<1>2. Aborted(h) \in SUBSET Load BY DEF TypeOK, Aborted
<1>3. TypeOK' BY <1>1, <1>2, BoundsAssumption DEF TypeOK
<1>4. Stored(store, now)' BY DEF Stored
<1>5. LoadsSound' BY DEF LoadsSound, Sound, TypeOK
<1>6. DueMounted' BY DEF DueMounted, TypeOK
<1>7. LatestLoadWins' BY DEF LatestLoadWins, TypeOK
<1>8. MeterNeverOvercounts' BY DEF MeterNeverOvercounts
<1>9. QED BY <1>3, <1>4, <1>5, <1>6, <1>7, <1>8

LEMMA ResetKeeps == ASSUME IInv, ResetMeter PROVE IInv'
<1> USE DEF IInv, ResetMeter, Move
<1>1. TypeOK' BY BoundsAssumption DEF TypeOK
<1>2. MeterNeverOvercounts' BY DEF MeterNeverOvercounts, TypeOK
<1>3. QED BY <1>1, <1>2 DEF Stored, LoadsSound, Sound, DueMounted, LatestLoadWins

LEMMA OtherTabKeeps == ASSUME IInv, NEW k \in Keys, OtherTab(k) PROVE IInv'
<1> USE DEF IInv, OtherTab, Move
<1> DEFINE e == [ts |-> now, value |-> [of |-> k, made |-> now, kind |-> "figures"]]
<1>1. now \in Nat /\ store \in [Keys -> Entry \cup {Nothing}] BY BoundsAssumption DEF TypeOK
<1>2. e \in Entry BY <1>1 DEF Entry, Figures
<1>3. store' \in [Keys -> Entry \cup {Nothing}] /\ Stored(store', now)
  <2>1. CASE store' = [store EXCEPT ![k] = e] BY <2>1, <1>1, <1>2 DEF Stored
  <2>2. CASE store' = Without({k}) BY <2>2, <1>1 DEF Stored, Without
  <2>3. QED BY <2>1, <2>2
<1>4. TypeOK' BY <1>3, BoundsAssumption DEF TypeOK
<1>5. QED BY <1>3, <1>4 DEF Stored, LoadsSound, Sound, DueMounted, LatestLoadWins, MeterNeverOvercounts

LEMMA PageLoadKeeps == ASSUME IInv, PageLoad PROVE IInv'
<1> USE DEF IInv, PageLoad, Move
<1>1. Mounting \in View BY DEF Mounting, View
<1>2. store' \in [Keys -> Entry \cup {Nothing}] /\ Stored(store', now)
  BY DEF TypeOK, Stored, Without
<1>3. TypeOK' BY <1>1, <1>2, BoundsAssumption DEF TypeOK
<1>4. QED BY <1>2, <1>3 DEF Stored, LoadsSound, DueMounted, LatestLoadWins, MeterNeverOvercounts

-----------------------------------------------------------------------------
(* Effects, loads and time                                                 *)

LEMMA RunEffectKeeps == ASSUME IInv, NEW h \in Hooks, RunEffect(h) PROVE IInv'
<1> USE DEF IInv, RunEffect
<1> DEFINE k == want[h]
           l == [key |-> k, cached |-> IF Readable(k) THEN store[k].value ELSE Nothing,
                 hit |-> Fresh(k), since |-> now]
<1>1. k \in Keys /\ now \in Nat /\ store \in [Keys -> Entry \cup {Nothing}]
  BY DEF TypeOK, DueMounted
<1>2. Readable(k) =>
        /\ store[k].value \in Figures /\ store[k].value.of = k
        /\ store[k].value.made \in Nat /\ store[k].value.made <= now
        /\ now - store[k].value.made <= Stale
        /\ Fresh(k) => now - store[k].value.made < Ttl
  BY <1>1 DEF Readable, Fresh, Age, Stored, Entry, Figures
<1>3. Fresh(k) \in BOOLEAN /\ (Fresh(k) => Readable(k)) BY DEF Fresh, Readable
<1>4. l \in Load BY <1>1, <1>2, <1>3 DEF Load
<1>5. l # Nothing BY <1>4, NothingAssumption
<1>6. Sound(l, now)
  <2>1. l.since = now /\ l.key = k /\ l.hit = Fresh(k) OBVIOUS
  <2>2. CASE Readable(k)
    <3>1. l.cached = store[k].value BY <2>2
    <3>2. l.cached # Nothing BY <3>1, <2>2, <1>2, NothingAssumption DEF Figures, Payload
    <3>3. QED BY <2>1, <3>1, <3>2, <2>2, <1>1, <1>2, AgesAssumption DEF Sound
  <2>3. CASE ~Readable(k)
    <3>1. l.cached = Nothing /\ ~l.hit BY <2>1, <2>3, <1>3
    <3>2. QED BY <2>1, <3>1, <1>1, AgesAssumption DEF Sound
  <2>4. QED BY <2>2, <2>3
<1>7. load' = [load EXCEPT ![h] = l] OBVIOUS
<1>8. store' \in [Keys -> Entry \cup {Nothing}] /\ Stored(store', now)
  BY <1>1 DEF AfterRead, Stored
<1>9. Aborted(h) \in SUBSET Load BY DEF TypeOK, Aborted
<1>10. [view[h] EXCEPT !.loading = TRUE, !.error = FALSE] \in View BY DEF TypeOK, View
<1>11. TypeOK'
  <2>1. view' \in [Hooks -> View] BY <1>10 DEF TypeOK
  <2>2. load' \in [Hooks -> Load \cup {Nothing}] BY <1>4, <1>7 DEF TypeOK
  <2>3. late' \in [Hooks -> SUBSET Load] BY <1>9 DEF TypeOK
  <2>4. QED BY <2>1, <2>2, <2>3, <1>8 DEF TypeOK
<1>12. LoadsSound'
  <2> SUFFICES ASSUME NEW g \in Hooks, load'[g] # Nothing PROVE want'[g] # Nothing /\ Sound(load'[g], now')
    BY DEF LoadsSound
  <2>1. CASE g = h
    <3>1. load'[g] = l BY <2>1, <1>7 DEF TypeOK
    <3>2. QED BY <3>1, <2>1, <1>1, <1>6, KeysAssumption DEF Sound
  <2>2. CASE g # h
    <3>1. load'[g] = load[g] /\ want' = want /\ now' = now BY <2>2, <1>7 DEF TypeOK
    <3>2. QED BY <3>1 DEF LoadsSound, Sound
  <2>3. QED BY <2>1, <2>2
<1>13. DueMounted' BY DEF DueMounted
<1>14. LatestLoadWins'
  <2> SUFFICES ASSUME NEW g \in Hooks, want'[g] # Nothing, g \notin due'
               PROVE  /\ view'[g].loading <=> load'[g] # Nothing
                      /\ load'[g] # Nothing => load'[g].key = want'[g]
                      /\ ~view'[g].loading /\ ~view'[g].error =>
                           view'[g].data # Nothing /\ view'[g].data.of = want'[g]
    BY DEF LatestLoadWins
  <2>1. CASE g = h
    <3>1. load'[g] = l BY <2>1, <1>7 DEF TypeOK
    <3>2. view'[g].loading BY <2>1 DEF TypeOK, View
    <3>3. QED BY <2>1, <3>1, <3>2, <1>5
  <2>2. CASE g # h
    <3>1. load'[g] = load[g] /\ view'[g] = view[g] /\ want' = want /\ g \notin due
      BY <2>2, <1>7 DEF TypeOK
    <3>2. QED BY <3>1 DEF LatestLoadWins
  <2>3. QED BY <2>1, <2>2
<1>15. QED BY <1>8, <1>11, <1>12, <1>13, <1>14 DEF MeterNeverOvercounts, Stored

\* How a load ends: the hook shows v, whose payload, if it has changed or
\* there is no error, is of the load's key.
LEMMA EndKeeps ==
  ASSUME IInv, NEW h \in Hooks, load[h] # Nothing, NEW v \in View,
         ~v.loading, ~v.error => v.data # Nothing /\ v.data.of = load[h].key,
         view' = [view EXCEPT ![h] = v], Ended(h),
         UNCHANGED <<now, want, due, late, reset, moves>>
  PROVE  /\ load' \in [Hooks -> Load \cup {Nothing}] /\ view' \in [Hooks -> View]
         /\ LoadsSound' /\ DueMounted' /\ LatestLoadWins'
<1> USE DEF IInv, Ended
<1>1. load' \in [Hooks -> Load \cup {Nothing}] /\ view' \in [Hooks -> View] BY DEF TypeOK
<1>2. LoadsSound' BY DEF LoadsSound, Sound, TypeOK
<1>3. DueMounted' BY DEF DueMounted
<1>4. LatestLoadWins'
  <2> SUFFICES ASSUME NEW g \in Hooks, want'[g] # Nothing, g \notin due'
               PROVE  /\ view'[g].loading <=> load'[g] # Nothing
                      /\ load'[g] # Nothing => load'[g].key = want'[g]
                      /\ ~view'[g].loading /\ ~view'[g].error =>
                           view'[g].data # Nothing /\ view'[g].data.of = want'[g]
    BY DEF LatestLoadWins
  <2>1. CASE g = h
    <3>1. view'[g] = v /\ load'[g] = Nothing BY <2>1 DEF TypeOK
    <3>2. load[h].key = want'[g] BY <2>1 DEF LatestLoadWins
    <3>3. QED BY <3>1, <3>2
  <2>2. CASE g # h BY <2>2 DEF LatestLoadWins, TypeOK
  <2>3. QED BY <2>1, <2>2
<1>5. QED BY <1>1, <1>2, <1>3, <1>4

\* What the cache held for a load is what the load may show.
LEMMA CachedShown ==
  ASSUME IInv, NEW h \in Hooks, load[h] # Nothing, load[h].cached # Nothing,
         NEW from \in {"none", "server", "fresh", "stale"}
  PROVE  /\ Shown(load[h].cached, from) \in View
         /\ ~Shown(load[h].cached, from).loading
         /\ Shown(load[h].cached, from).data # Nothing
         /\ Shown(load[h].cached, from).data.of = load[h].key
<1>1. load[h].cached \in Figures /\ load[h].cached.of = load[h].key
  BY DEF IInv, TypeOK, Load, LoadsSound, Sound
<1>2. QED BY <1>1 DEF Shown, View, Figures, Payload

LEMMA FreshHitKeeps == ASSUME IInv, NEW h \in Hooks, FreshHit(h) PROVE IInv'
<1> USE DEF IInv
<1> DEFINE v == Shown(load[h].cached, "fresh")
<1>1. load[h] # Nothing /\ load[h].cached # Nothing BY DEF FreshHit, LoadsSound, Sound
<1>2. v \in View /\ ~v.loading /\ v.data # Nothing /\ v.data.of = load[h].key
  BY <1>1, CachedShown
<1>3. view' = [view EXCEPT ![h] = v] /\ Ended(h) /\ UNCHANGED <<now, want, due, late, reset, moves>>
  BY DEF FreshHit
<1> HIDE DEF v
<1>4. /\ load' \in [Hooks -> Load \cup {Nothing}] /\ view' \in [Hooks -> View]
      /\ LoadsSound' /\ DueMounted' /\ LatestLoadWins'
  BY <1>1, <1>2, <1>3, EndKeeps
<1>5. TypeOK' BY <1>4 DEF FreshHit, TypeOK
<1>6. QED BY <1>4, <1>5 DEF FreshHit, Stored, MeterNeverOvercounts

LEMMA AnsweredKeeps ==
  ASSUME IInv, NEW h \in Hooks, NEW kind \in {"figures", "error", "warming"},
         NEW calls \in 0..MaxCalls, Answered(h, kind, calls)
  PROVE  IInv'
<1> USE DEF IInv
<1> DEFINE p == [of |-> load[h].key, made |-> now, kind |-> kind]
           v == Shown(p, "server")
<1>1. load[h] \in Load /\ load[h] # Nothing /\ now \in Nat
  BY BoundsAssumption DEF Answered, TypeOK
<1>2. p \in Payload /\ p.of = load[h].key /\ p.made = now BY <1>1 DEF Payload, Load
<1>3. v \in View /\ ~v.loading /\ v.data # Nothing /\ v.data.of = load[h].key
  BY <1>2, NothingAssumption DEF Shown, View
<1>4. view' = [view EXCEPT ![h] = v] /\ Ended(h) /\ UNCHANGED <<now, want, due, late, reset, moves>>
  BY DEF Answered
<1>5. store' \in [Keys -> Entry \cup {Nothing}] /\ Stored(store', now)
  <2>1. CASE kind = "figures"
    <3>1. p \in Figures BY <2>1, <1>1 DEF Figures, Load
    <3>2. WriteSwr(p) BY <2>1 DEF Answered
    <3> HIDE DEF p
    <3>3. QED BY <3>1, <3>2, <1>2, WriteKeepsStore
  <2>2. CASE kind # "figures" BY <2>2 DEF Answered, TypeOK
  <2>3. QED BY <2>1, <2>2
<1>6. \E c \in {calls, 0} : meter' = meter + c BY DEF Answered, Recorded
<1>7. spent' = spent + calls BY DEF Answered
<1>8. calls \in Nat BY BoundsAssumption
<1> HIDE DEF v, p
<1>9. /\ load' \in [Hooks -> Load \cup {Nothing}] /\ view' \in [Hooks -> View]
      /\ LoadsSound' /\ DueMounted' /\ LatestLoadWins'
  BY <1>1, <1>3, <1>4, EndKeeps
<1>10. meter \in Nat /\ spent \in Nat /\ reset \in Nat BY DEF TypeOK
<1>11. meter' \in Nat /\ spent' \in Nat /\ meter' + reset <= spent'
  BY <1>6, <1>7, <1>8, <1>10 DEF MeterNeverOvercounts
<1>12. UNCHANGED <<now, want, due, late, reset, moves, faults>> BY DEF Answered
<1>13. TypeOK' BY <1>5, <1>9, <1>11, <1>12 DEF TypeOK
<1>14. QED BY <1>5, <1>9, <1>11, <1>12, <1>13 DEF Stored, MeterNeverOvercounts

LEMMA FailedKeeps ==
  ASSUME IInv, NEW h \in Hooks, NEW calls \in 0..MaxCalls, Failed(h, calls) PROVE IInv'
<1> USE DEF IInv
<1> DEFINE v == IF load[h].cached # Nothing THEN Shown(load[h].cached, "stale")
                ELSE [view[h] EXCEPT !.loading = FALSE, !.error = TRUE]
<1>1. load[h] # Nothing BY DEF Failed
<1>2. v \in View /\ ~v.loading /\ (~v.error => v.data # Nothing /\ v.data.of = load[h].key)
  <2>1. CASE load[h].cached # Nothing BY <2>1, <1>1, CachedShown
  <2>2. CASE load[h].cached = Nothing BY <2>2 DEF TypeOK, View
  <2>3. QED BY <2>1, <2>2
<1>3. view' = [view EXCEPT ![h] = v] /\ Ended(h) /\ UNCHANGED <<now, want, due, late, reset, moves>>
  BY DEF Failed
<1> HIDE DEF v
<1>4. /\ load' \in [Hooks -> Load \cup {Nothing}] /\ view' \in [Hooks -> View]
      /\ LoadsSound' /\ DueMounted' /\ LatestLoadWins'
  BY <1>1, <1>2, <1>3, EndKeeps
<1>5. calls \in Nat BY BoundsAssumption
<1>6. TypeOK' BY <1>4, <1>5, BoundsAssumption DEF Failed, TypeOK
<1>7. QED BY <1>4, <1>5, <1>6 DEF Failed, TypeOK, Stored, MeterNeverOvercounts

LEMMA LateEndsKeeps ==
  ASSUME IInv, NEW h \in Hooks, NEW calls \in 0..MaxCalls, NEW l \in late[h], LateEnds(h, l, calls)
  PROVE  IInv'
<1> USE DEF IInv, LateEnds
<1>1. calls \in Nat BY BoundsAssumption
<1>2. TypeOK' BY <1>1 DEF TypeOK
<1>3. QED BY <1>1, <1>2
     DEF TypeOK, Stored, LoadsSound, Sound, DueMounted, LatestLoadWins, MeterNeverOvercounts

LEMMA TickKeeps == ASSUME IInv, Tick PROVE IInv'
<1> USE DEF IInv, Tick
<1>1. now \in Nat /\ now' = now + 1 /\ MaxTime \in Nat BY BoundsAssumption DEF TypeOK
<1>2. TypeOK' BY <1>1 DEF TypeOK
<1>3. Stored(store, now)' BY <1>1 DEF Stored, TypeOK, Entry
<1>4. LoadsSound'
  <2> SUFFICES ASSUME NEW h \in Hooks, load[h] # Nothing
               PROVE  want[h] # Nothing /\ Sound(load[h], now + 1)
    BY <1>1 DEF LoadsSound
  <2>1. load[h] \in Load /\ ~load[h].hit /\ now - load[h].since < MaxRequest BY DEF TypeOK
  <2>2. want[h] # Nothing /\ Sound(load[h], now) BY DEF LoadsSound
  <2>3. QED BY <1>1, <2>1, <2>2, AgesAssumption DEF Sound, Load
<1>5. QED BY <1>2, <1>3, <1>4 DEF DueMounted, LatestLoadWins, MeterNeverOvercounts

LEMMA StutterKeeps == ASSUME IInv, UNCHANGED vars PROVE IInv'
BY DEF vars, IInv, TypeOK, Stored, LoadsSound, Sound, DueMounted, LatestLoadWins, MeterNeverOvercounts

LEMMA NextKeeps == ASSUME IInv, [Next]_vars PROVE IInv'
<1>1. ASSUME NEW h \in Hooks, NEW k \in Keys, Ask(h, k) PROVE IInv' BY <1>1, AskKeeps
<1>2. ASSUME NEW h \in Hooks, Reload(h) \/ Unmount(h) PROVE IInv' BY <1>2, ReloadKeeps, UnmountKeeps
<1>3. CASE ResetMeter \/ PageLoad BY <1>3, ResetKeeps, PageLoadKeeps
<1>4. ASSUME NEW k \in Keys, OtherTab(k) PROVE IInv' BY <1>4, OtherTabKeeps
<1>5. ASSUME NEW h \in Hooks, RunEffect(h) PROVE IInv' BY <1>5, RunEffectKeeps
<1>6. ASSUME NEW h \in Hooks, LoadEnds(h) PROVE IInv'
  BY <1>6, FreshHitKeeps, AnsweredKeeps, FailedKeeps DEF LoadEnds
<1>7. ASSUME NEW h \in Hooks, NEW calls \in 0..MaxCalls, NEW l \in late[h], LateEnds(h, l, calls)
      PROVE  IInv'
  BY <1>7, LateEndsKeeps
<1>8. CASE Tick BY <1>8, TickKeeps
<1>9. CASE UNCHANGED vars BY <1>9, StutterKeeps
<1>10. QED BY <1>1, <1>2, <1>3, <1>4, <1>5, <1>6, <1>7, <1>8, <1>9 DEF Next, User

-----------------------------------------------------------------------------
(* Theorems                                                                *)

\* The inductive invariant: besides what follows, every entry and every load
\* carries figures of its own key, of an age the lifetimes bound.
THEOREM Invariant == Spec => []IInv
<1>1. Init => IInv BY InitIInv
<1>2. IInv /\ [Next]_vars => IInv' BY NextKeeps
<1>3. QED BY <1>1, <1>2, PTL DEF Spec

\* Types; and localStorage never holds an error payload or a warming
\* placeholder, which would be served as figures for the whole lifetime.
THEOREM TypeCorrect == Spec => []TypeOK
<1>1. IInv => TypeOK BY DEF IInv
<1>2. QED BY <1>1, Invariant, PTL

\* "State only updates from the latest in-flight request": a hook at rest
\* shows the figures of the key its page asks for, or an error.
THEOREM LatestWins == Spec => []LatestLoadWins
<1>1. IInv => LatestLoadWins BY DEF IInv
<1>2. QED BY <1>1, Invariant, PTL

\* The session meter never shows more than was spent.
THEOREM MeterHonest == Spec => []MeterNeverOvercounts
<1>1. IInv => MeterNeverOvercounts BY DEF IInv
<1>2. QED BY <1>1, Invariant, PTL

\* Whatever a step puts on screen comes from the server now, or from a load's
\* entry, whose age the load bounds.
LEMMA ShownInTimeStep ==
  ASSUME IInv, [Next]_vars, NEW g \in Hooks
  PROVE  ShownInTime(g) \/ UNCHANGED vars
<1> USE DEF IInv
<1>1. ASSUME view'[g].data = view[g].data \/ view'[g].data = Nothing PROVE ShownInTime(g)
  BY <1>1 DEF ShownInTime
<1>2. CASE \/ \E h \in Hooks, k \in Keys : Ask(h, k)
           \/ \E h \in Hooks : Reload(h)
           \/ ResetMeter \/ Tick
           \/ \E k \in Keys : OtherTab(k)
           \/ \E h \in Hooks, calls \in 0..MaxCalls : \E l \in late[h] : LateEnds(h, l, calls)
  <2>1. view' = view BY <1>2 DEF Ask, Reload, ResetMeter, Tick, OtherTab, LateEnds
  <2>2. QED BY <2>1, <1>1
<1>3. CASE PageLoad \/ \E h \in Hooks : Unmount(h)
  <2>1. view'[g] = view[g] \/ view'[g] = Mounting BY <1>3 DEF PageLoad, Unmount, TypeOK
  <2>2. QED BY <2>1, <1>1 DEF Mounting
<1>4. ASSUME NEW h \in Hooks, RunEffect(h) PROVE ShownInTime(g)
  <2>1. view' = [view EXCEPT ![h] = [view[h] EXCEPT !.loading = TRUE, !.error = FALSE]]
    BY <1>4 DEF RunEffect
  <2>2. view'[g].data = view[g].data BY <2>1 DEF TypeOK, View
  <2>3. QED BY <2>2, <1>1
<1>5. ASSUME NEW h \in Hooks, g # h, LoadEnds(h) PROVE ShownInTime(g)
  <2>1. view'[g] = view[g] BY <1>5 DEF LoadEnds, FreshHit, Answered, Failed, TypeOK
  <2>2. QED BY <2>1, <1>1
<1>6. CASE LoadEnds(g)
  <2>1. load[g] \in Load /\ Sound(load[g], now) /\ now \in Nat
    BY <1>6, BoundsAssumption DEF LoadEnds, FreshHit, Answered, Failed, TypeOK, LoadsSound
  <2>2. CASE FreshHit(g)
    <3>1. view'[g] = Shown(load[g].cached, "fresh") BY <2>2 DEF FreshHit, TypeOK
    <3>2. now - load[g].cached.made < Ttl BY <2>1, <2>2 DEF FreshHit, Sound
    <3>3. QED BY <3>1, <3>2 DEF ShownInTime, Shown
  <2>3. ASSUME NEW kind \in {"figures", "error", "warming"}, NEW calls \in 0..MaxCalls,
               Answered(g, kind, calls)
        PROVE  ShownInTime(g)
    <3>1. view'[g] = Shown([of |-> load[g].key, made |-> now, kind |-> kind], "server")
      BY <2>3 DEF Answered, TypeOK
    <3>2. QED BY <3>1 DEF ShownInTime, Shown
  <2>4. ASSUME NEW calls \in 0..MaxCalls, Failed(g, calls) PROVE ShownInTime(g)
    <3>1. CASE load[g].cached # Nothing
      <4>1. view'[g] = Shown(load[g].cached, "stale") BY <2>4, <3>1 DEF Failed, TypeOK
      <4>2. /\ load[g].cached.made \in Nat /\ load[g].since \in Nat
            /\ load[g].since - load[g].cached.made <= Stale /\ now - load[g].since <= MaxRequest
        BY <2>1, <3>1 DEF Sound, Load, Figures
      <4>3. now - load[g].cached.made <= Stale + MaxRequest BY <4>2, <2>1, AgesAssumption
      <4>4. QED BY <4>1, <4>3 DEF ShownInTime, Shown
    <3>2. CASE load[g].cached = Nothing
      <4>1. view'[g].data = view[g].data BY <2>4, <3>2 DEF Failed, TypeOK, View
      <4>2. QED BY <4>1, <1>1
    <3>3. QED BY <3>1, <3>2
  <2>5. QED BY <1>6, <2>2, <2>3, <2>4 DEF LoadEnds
<1>7. QED BY <1>2, <1>3, <1>4, <1>5, <1>6 DEF Next, User

\* How old figures may be when they are put on screen, by where they come
\* from: the cache serves nothing as fresh that is not, and nothing older
\* than a day when the server cannot be reached.
THEOREM AgeBounded == Spec => ServedAgeBound
<1>1. IInv /\ [Next]_vars => [\A h \in Hooks : ShownInTime(h)]_vars BY ShownInTimeStep
<1>2. QED BY <1>1, Invariant, PTL DEF Spec, ServedAgeBound
-----------------------------------------------------------------------------
(* The promise kept to the page                                            *)

LEMMA SeesView ==
  ASSUME NEW v, NEW d, NEW k, NEW s \in BOOLEAN, NEW e,
         v.data = Nothing => d = Nothing /\ k = "figures",
         v.data # Nothing => d = v.data.of /\ k = v.data.kind,
         v.from = "stale" <=> s, v.error = e
  PROVE  ShownTo(v) = [data |-> d, kind |-> k, stale |-> s, error |-> e]
<1>1. (v.from = "stale") = s OBVIOUS
<1>2. d = IF v.data = Nothing THEN Nothing ELSE v.data.of OBVIOUS
<1>3. k = IF v.data = Nothing THEN "figures" ELSE v.data.kind OBVIOUS
<1>4. QED BY <1>1, <1>2, <1>3 DEF ShownTo

\* An error set or cleared changes nothing else of what is seen.
LEMMA SeesError ==
  ASSUME NEW v, NEW w, NEW e, w.data = v.data, w.from = v.from, w.error = e
  PROVE  ShownTo(w) = [ShownTo(v) EXCEPT !.error = e]
<1> DEFINE d == IF v.data = Nothing THEN Nothing ELSE v.data.of
           k == IF v.data = Nothing THEN "figures" ELSE v.data.kind
           s == v.from = "stale"
<1>1. ShownTo(v) = [data |-> d, kind |-> k, stale |-> s, error |-> v.error] BY DEF ShownTo
<1>2. ShownTo(w) = [data |-> d, kind |-> k, stale |-> s, error |-> e] BY DEF ShownTo
<1> HIDE DEF d, k, s
<1>3. QED BY <1>1, <1>2

\* What a hook waiting for its first effect shows.
LEMMA SeesMounting == ShownTo(Mounting) = Hook!Mounting
<1>1. Mounting.data = Nothing /\ Mounting.from # "stale" /\ Mounting.error = FALSE BY DEF Mounting
<1>2. ShownTo(Mounting) = [data |-> Nothing, kind |-> "figures", stale |-> FALSE, error |-> FALSE]
  BY <1>1, SeesView
<1>3. QED BY <1>2 DEF Hook!Mounting, Hook!Shown

\* A payload of key k is one of the outcomes of a load of k, over whatever is
\* there; a cached one is of figures.
LEMMA SeesPayload ==
  ASSUME NEW p, p # Nothing, NEW k, p.of = k, NEW v, NEW from,
         p.kind \in {"figures", "error", "warming"}, from = "stale" => p.kind = "figures"
  PROVE  ShownTo(Shown(p, from)) \in Hook!Outcomes(k, v)
<1> DEFINE w == Shown(p, from)
           stale == from = "stale"
<1>1. w.data = p /\ w.from = from /\ w.error = FALSE BY DEF Shown
<1>2. stale \in BOOLEAN /\ (w.from = "stale" <=> stale) BY <1>1
<1>3. stale => p.kind = "figures" OBVIOUS
<1> HIDE DEF w, stale
<1>4. ShownTo(w) = [data |-> k, kind |-> p.kind, stale |-> stale, error |-> FALSE]
  BY <1>1, <1>2, SeesView
<1>5. CASE stale
  <2>1. stale = TRUE BY <1>2, <1>5
  <2>2. ShownTo(w) = [data |-> k, kind |-> "figures", stale |-> TRUE, error |-> FALSE]
    BY <1>3, <1>4, <1>5, <2>1
  <2>3. QED BY <2>2 DEF Hook!Outcomes, Hook!Shown, w
<1>6. CASE ~stale
  <2>1. stale = FALSE BY <1>2, <1>6
  <2>2. ShownTo(w) = [data |-> k, kind |-> p.kind, stale |-> FALSE, error |-> FALSE]
    BY <1>4, <2>1
  <2>3. QED BY <2>2 DEF Hook!Outcomes, Hook!Shown, w
<1>7. QED BY <1>5, <1>6

\* A step as the page sees it.
LEMMA SeenStep ==
  ASSUME NEW h \in Hooks
  PROVE  /\ ([g \in Hooks |-> KeyOf(load[g])])[h] = KeyOf(load[h])
         /\ ([g \in Hooks |-> ShownTo(view[g])])[h] = ShownTo(view[h])
         /\ (([g \in Hooks |-> KeyOf(load[g])])')[h] = KeyOf(load'[h])
         /\ (([g \in Hooks |-> ShownTo(view[g])])')[h] = ShownTo(view'[h])
OBVIOUS

\* An end of the load of h leaves one of that load's outcomes.
LEMMA SeenEnd ==
  ASSUME IInv, NEW h \in Hooks, load[h] # Nothing, want'[h] = want[h], load'[h] = Nothing,
         ShownTo(view'[h]) \in Hook!Outcomes(load[h].key, ShownTo(view[h]))
  PROVE  Hook!Ends(h)
<1>1. load[h].key \in Keys /\ load[h].key # Nothing BY KeysAssumption DEF IInv, TypeOK, Load
<1>2. KeyOf(load'[h]) = Nothing BY DEF KeyOf
<1>3. KeyOf(load[h]) = load[h].key BY DEF KeyOf
<1>4. QED BY <1>1, <1>2, <1>3, SeenStep DEF Hook!Ends, Hook!Becomes

LEMMA SeenOutcomes ==
  ASSUME IInv, NEW h \in Hooks, LoadEnds(h)
  PROVE  /\ load[h] # Nothing /\ want'[h] = want[h] /\ load'[h] = Nothing
         /\ ShownTo(view'[h]) \in Hook!Outcomes(load[h].key, ShownTo(view[h]))
<1> USE DEF IInv
<1>1. load[h] # Nothing /\ want'[h] = want[h] /\ load'[h] = Nothing
  BY DEF LoadEnds, FreshHit, Answered, Failed, Ended, TypeOK
<1>2. load[h] \in Load /\ Sound(load[h], now) BY <1>1 DEF TypeOK, LoadsSound
<1>3. ASSUME load[h].cached # Nothing
      PROVE  load[h].cached.of = load[h].key /\ load[h].cached.kind = "figures"
  BY <1>2, <1>3 DEF Sound, Load, Figures
<1>4. CASE FreshHit(h)
  <2>1. view'[h] = Shown(load[h].cached, "fresh") BY <1>4 DEF FreshHit, TypeOK
  <2>2. load[h].cached # Nothing BY <1>2, <1>4 DEF FreshHit, Sound
  <2>3. ShownTo(Shown(load[h].cached, "fresh")) \in Hook!Outcomes(load[h].key, ShownTo(view[h]))
    BY <1>3, <2>2, SeesPayload
  <2>4. QED BY <1>1, <2>1, <2>3
<1>5. ASSUME NEW kind \in {"figures", "error", "warming"}, NEW calls \in 0..MaxCalls,
             Answered(h, kind, calls)
      PROVE  ShownTo(view'[h]) \in Hook!Outcomes(load[h].key, ShownTo(view[h]))
  <2> DEFINE p == [of |-> load[h].key, made |-> now, kind |-> kind]
  <2>1. view'[h] = Shown(p, "server") BY <1>5 DEF Answered, TypeOK
  <2>2. p \in Payload BY <1>2 DEF Payload, Load, TypeOK
  <2>3. p # Nothing BY <2>2, NothingAssumption
  <2>4. QED BY <2>1, <2>3, SeesPayload
<1>6. ASSUME NEW calls \in 0..MaxCalls, Failed(h, calls)
      PROVE  ShownTo(view'[h]) \in Hook!Outcomes(load[h].key, ShownTo(view[h]))
  <2>1. CASE load[h].cached # Nothing
    <3>1. view'[h] = Shown(load[h].cached, "stale") BY <1>6, <2>1 DEF Failed, TypeOK
    <3> DEFINE c == load[h].cached
    <3>2. c # Nothing /\ c.of = load[h].key /\ c.kind = "figures" BY <1>3, <2>1
    <3> HIDE DEF c
    <3>3. c.kind \in {"figures", "error", "warming"} BY <3>2
    <3>4. ShownTo(Shown(c, "stale")) \in Hook!Outcomes(load[h].key, ShownTo(view[h]))
      BY <3>2, <3>3, SeesPayload
    <3>5. QED BY <3>1, <3>4 DEF c
  <2>2. CASE load[h].cached = Nothing
    <3>1. view[h] \in View BY DEF TypeOK
    <3>2. view'[h] = [view[h] EXCEPT !.loading = FALSE, !.error = TRUE] BY <1>6, <2>2 DEF Failed, TypeOK
    <3>3. ShownTo(view'[h]) = [ShownTo(view[h]) EXCEPT !.error = TRUE]
      <4>1. view'[h].data = view[h].data /\ view'[h].from = view[h].from /\ view'[h].error = TRUE
        BY <3>1, <3>2 DEF View
      <4>2. QED BY <4>1, SeesError
    <3>4. QED BY <3>3 DEF Hook!Outcomes
  <2>3. QED BY <2>1, <2>2
<1>7. QED BY <1>1, <1>4, <1>5, <1>6 DEF LoadEnds

LEMMA SeenInit == Init => Hook!Init
<1> SUFFICES ASSUME Init PROVE Hook!Init OBVIOUS
<1>1. ASSUME NEW h \in Hooks PROVE ShownTo(view[h]) = Hook!Mounting /\ KeyOf(load[h]) = Nothing
  <2>1. view[h] = Mounting /\ load[h] = Nothing BY DEF Init
  <2>2. QED BY <2>1, SeesMounting DEF KeyOf
<1>2. QED BY <1>1 DEF Init, Hook!Init

\* What a hook that a step does not touch does.
LEMMA SeenSame ==
  ASSUME NEW g \in Hooks, want'[g] = want[g], load'[g] = load[g], view'[g] = view[g]
  PROVE  Hook!Stays(g)
BY DEF Hook!Stays, Hook!Becomes

LEMMA SeenNext == IInv /\ [Next]_vars => Hook!Next
<1> SUFFICES ASSUME IInv, [Next]_vars, NEW g \in Hooks
             PROVE  \/ Hook!Changes(g) \/ Hook!Starts(g) \/ Hook!Ends(g)
                    \/ Hook!Leaves(g) \/ Hook!Stays(g)
  BY DEF Hook!Next
<1>0. TypeOK /\ DueMounted BY DEF IInv
<1>1. ASSUME NEW h \in Hooks, NEW k \in Keys, Ask(h, k) PROVE Hook!Changes(g) \/ Hook!Stays(g)
  <2>1. CASE g = h
    <3>1. want'[g] = k /\ load' = load /\ view' = view BY <1>0, <1>1, <2>1 DEF Ask, TypeOK
    <3>2. QED BY <3>1 DEF Hook!Changes, Hook!Becomes
  <2>2. CASE g # h
    <3>1. want'[g] = want[g] /\ load'[g] = load[g] /\ view'[g] = view[g]
      BY <1>0, <1>1, <2>2 DEF Ask, TypeOK
    <3>2. QED BY <3>1, SeenSame
  <2>3. QED BY <2>1, <2>2
<1>2. ASSUME NEW h \in Hooks, RunEffect(h) PROVE Hook!Starts(g) \/ Hook!Stays(g)
  <2>1. CASE g = h
    <3>1. want[g] \in Keys /\ view[g] \in View BY <1>0, <1>2, <2>1 DEF RunEffect, TypeOK, DueMounted
    <3>2. view'[g] = [view[g] EXCEPT !.loading = TRUE, !.error = FALSE] /\ want'[g] = want[g]
      BY <1>0, <1>2, <2>1 DEF RunEffect, TypeOK
    <3>3. ShownTo(view'[g]) = [ShownTo(view[g]) EXCEPT !.error = FALSE]
      <4>1. view'[g].data = view[g].data /\ view'[g].from = view[g].from /\ view'[g].error = FALSE
        BY <3>1, <3>2 DEF View
      <4> DEFINE w == view'[g]
      <4>2. w.data = view[g].data /\ w.from = view[g].from /\ w.error = FALSE BY <4>1
      <4> HIDE DEF w
      <4>3. ShownTo(w) = [ShownTo(view[g]) EXCEPT !.error = FALSE] BY <4>2, SeesError
      <4>4. QED BY <4>3 DEF w
    <3> DEFINE l == [key |-> want[g], cached |-> IF Readable(want[g]) THEN store[want[g]].value ELSE Nothing,
                     hit |-> Fresh(want[g]), since |-> now]
    <3>4. load'[g] = l BY <1>0, <1>2, <2>1 DEF RunEffect, TypeOK
    <3>5. l.key = want[g] OBVIOUS
    <3> HIDE DEF l
    <3>6. IInv' BY <1>2, RunEffectKeeps
    <3>7. load'[g] # Nothing
      <4>1. want'[g] # Nothing /\ g \notin due' /\ view'[g].loading
        BY <1>2, <2>1, <3>1, <3>2, KeysAssumption DEF RunEffect, View
      <4>2. QED BY <3>6, <4>1 DEF IInv, LatestLoadWins
    <3>8. KeyOf(load'[g]) = want[g] BY <3>4, <3>5, <3>7 DEF KeyOf
    <3>9. QED BY <3>1, <3>2, <3>3, <3>8, SeenStep DEF Hook!Starts, Hook!Becomes
  <2>2. CASE g # h
    <3>1. want'[g] = want[g] /\ load'[g] = load[g] /\ view'[g] = view[g]
      BY <1>0, <1>2, <2>2 DEF RunEffect, TypeOK
    <3>2. QED BY <3>1, SeenSame
  <2>3. QED BY <2>1, <2>2
<1>3. ASSUME NEW h \in Hooks, LoadEnds(h) PROVE Hook!Ends(g) \/ Hook!Stays(g)
  <2>1. CASE g = h BY <1>3, <2>1, SeenOutcomes, SeenEnd
  <2>2. CASE g # h
    <3>1. want'[g] = want[g] /\ load'[g] = load[g] /\ view'[g] = view[g]
      BY <1>0, <1>3, <2>2 DEF LoadEnds, FreshHit, Answered, Failed, Ended, TypeOK
    <3>2. QED BY <3>1, SeenSame
  <2>3. QED BY <2>1, <2>2
<1>4. ASSUME PageLoad \/ \E h \in Hooks : Unmount(h) PROVE Hook!Leaves(g) \/ Hook!Stays(g)
  <2>1. \/ want'[g] = Nothing /\ load'[g] = Nothing /\ view'[g] = Mounting
        \/ want'[g] = want[g] /\ load'[g] = load[g] /\ view'[g] = view[g]
    BY <1>0, <1>4 DEF PageLoad, Unmount, TypeOK
  <2>2. CASE want'[g] = Nothing /\ load'[g] = Nothing /\ view'[g] = Mounting
    <3>1. KeyOf(load'[g]) = Nothing /\ ShownTo(view'[g]) = Hook!Mounting
      BY <2>2, SeesMounting DEF KeyOf
    <3>2. QED BY <2>2, <3>1, SeenStep DEF Hook!Leaves, Hook!Becomes
  <2>3. QED BY <2>1, <2>2, SeenSame
<1>5. CASE \/ \E h \in Hooks : Reload(h)
           \/ ResetMeter \/ Tick
           \/ \E k \in Keys : OtherTab(k)
           \/ \E h \in Hooks, calls \in 0..MaxCalls : \E l \in late[h] : LateEnds(h, l, calls)
           \/ UNCHANGED vars
  <2>1. want' = want /\ load' = load /\ view' = view
    BY <1>5 DEF Reload, ResetMeter, Tick, OtherTab, LateEnds, vars
  <2>2. QED BY <2>1, SeenSame
<1>6. QED BY <1>1, <1>2, <1>3, <1>4, <1>5 DEF Next, User

\* To the component that calls it a hook is what AsyncData promises: what is
\* shown changes by the end of the load last started, to an outcome of that
\* load, whatever cache, aborts, other tabs and failures there are.
THEOREM HookKeepsPromise == Spec => KeepsHookPromise
<1>1. Init => Hook!Init BY SeenInit
<1>2. IInv /\ [Next]_vars => [Hook!Next]_Hook!hookVars BY SeenNext
<1>3. QED BY <1>1, <1>2, Invariant, PTL DEF Spec, KeepsHookPromise, Hook!Spec
=============================================================================

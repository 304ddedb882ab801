-------------------------- MODULE CostRoutesProofs --------------------------
(***************************************************************************)
(* Proofs about CostRoutes, for any accounts, requests and lifetimes: how  *)
(* old the numbers of an answer can be, and for how long those of an       *)
(* account the profile has left go on being shown.                         *)
(*                                                                         *)
(* The invariant bounds the age of the numbers at each place they pass: in *)
(* a fetcher by the time it has been running, in the matrix by one request *)
(* and the matrix' own age, in a builder by one lifetime more, in a route's*)
(* entry by another request and its own age; and, the same way, the time   *)
(* since the profile left their account.                                   *)
(***************************************************************************)
EXTENDS CostRoutes, TLAPS

Building == {"matrix", "keep", "respond"}

HereNow == account \in Accounts => left[account] = 0

ListBounds == choices # NoEntry => choices.age < RouteTtl

MatrixBounds ==
  \A a \in Accounts : matrix[a] # NoEntry =>
    /\ matrix[a].age < MatrixTtl
    /\ matrix[a].old <= MaxBuild + matrix[a].age

BuilderBounds ==
  \A t \in Threads :
    /\ at[t] \notin {"keep", "respond"} => old[t] = 0
    /\ at[t] = "keep" => old[t] <= spent[t]
    /\ at[t] = "respond" => old[t] < MaxBuild + MatrixTtl + spent[t]
    /\ at[t] \in Building => acct[t] \in Accounts /\ left[acct[t]] <= spent[t]

RouteBounds ==
  \A g \in Tags : route[g] # NoEntry =>
    /\ route[g].age < RouteTtl
    /\ route[g].old < 2 * MaxBuild + MatrixTtl + route[g].age
    /\ left[route[g].acct] <= MaxBuild + route[g].age

IInv ==
  /\ TypeOK
  /\ HereNow
  /\ ListBounds
  /\ MatrixBounds
  /\ BuilderBounds
  /\ RouteBounds

USE UnknownAssumption, TtlAssumption, LongAgoAssumption, RepointsAssumption, NoEntryAssumption

LEMMA InitIInv == Init => IInv
<1> SUFFICES ASSUME Init PROVE IInv
  OBVIOUS
<1>1. TypeOK
  BY DEF Init, TypeOK, Tags, Places
<1>2. HereNow /\ ListBounds /\ MatrixBounds /\ BuilderBounds /\ RouteBounds
  BY DEF Init, HereNow, ListBounds, MatrixBounds, BuilderBounds, RouteBounds, Building
<1> QED
  BY <1>1, <1>2 DEF IInv

(* An entry a tick later.                                                  *)
LEMMA ListAged ==
  ASSUME NEW e \in ListEntry
  PROVE  Aged(e) \in ListEntry /\ Aged(e).age = e.age + 1
BY DEF Aged, ListEntry

LEMMA RouteAged ==
  ASSUME NEW e \in RouteEntry
  PROVE  /\ Aged(Older(e)) \in RouteEntry
         /\ Aged(Older(e)).age = e.age + 1
         /\ Aged(Older(e)).old = e.old + 1
         /\ Aged(Older(e)).acct = e.acct
<1>1. Older(e) \in RouteEntry /\ Older(e).age = e.age /\ Older(e).old = e.old + 1
       /\ Older(e).acct = e.acct
  BY DEF Older, RouteEntry
<1> QED
  BY <1>1 DEF Aged, RouteEntry

LEMMA MatrixAged ==
  ASSUME NEW e \in MatrixEntry
  PROVE  /\ Aged(Older(e)) \in MatrixEntry
         /\ Aged(Older(e)).age = e.age + 1
         /\ Aged(Older(e)).old = e.old + 1
<1>1. Older(e) \in MatrixEntry /\ Older(e).age = e.age /\ Older(e).old = e.old + 1
  BY DEF Older, MatrixEntry
<1> QED
  BY <1>1 DEF Aged, MatrixEntry

(* Every step of a request, and of the world, keeps the types.             *)
LEMMA NextTypeOK == TypeOK /\ BuilderBounds /\ [Next]_vars => TypeOK'
<1> SUFFICES ASSUME TypeOK, BuilderBounds, [Next]_vars PROVE TypeOK'
  OBVIOUS
<1> USE DEF TypeOK, Tags, Places
<1>1. ASSUME NEW t \in Threads, Arrive(t) \/ TagFromList(t) \/ ResolveTag(t) \/ KeepChoices(t)
      PROVE  TypeOK'
  <2>1. CASE Arrive(t)
    BY <2>1 DEF Arrive, Goto, profile, caches
  <2>2. CASE TagFromList(t)
    BY <2>2 DEF TagFromList, Goto, profile, caches, ListEntry
  <2>3. CASE ResolveTag(t)
    BY <2>3 DEF ResolveTag, Goto, profile, caches
  <2>4. CASE KeepChoices(t)
    BY <2>4 DEF KeepChoices, Goto, profile, ListEntry
  <2> QED
    BY <1>1, <2>1, <2>2, <2>3, <2>4
<1>2. ASSUME NEW t \in Threads, Hit(t) \/ Fails(t) \/ Respond(t) PROVE TypeOK'
  <2>1. CASE Hit(t)
    BY <2>1 DEF Hit, End, Goto, profile, caches
  <2>2. CASE Fails(t)
    BY <2>2 DEF Fails, End, Goto, profile, caches
  <2>3. CASE Respond(t)
    <3>1. acct[t] \in Accounts
      BY <2>3 DEF Respond, BuilderBounds, Building
    <3>2. [acct |-> acct[t], old |-> old[t], age |-> 0] \in RouteEntry
      BY <3>1 DEF RouteEntry
    <3>3. route' \in [Tags -> RouteEntry \cup {NoEntry}]
      BY <2>3, <3>2 DEF Respond
    <3>4. End(t) /\ UNCHANGED <<account, left, repoints, choices, matrix>>
      BY <2>3 DEF Respond, profile
    <3>5. /\ at' \in [Threads -> Places]
          /\ spent' \in [Threads -> 0..MaxBuild]
          /\ old' \in [Threads -> Nat]
      BY <3>4 DEF End, Goto
    <3>6. tag' \in [Threads -> Tags] /\ acct' \in [Threads -> Tags]
      BY <3>4 DEF End
    <3> QED
      BY <3>3, <3>4, <3>5, <3>6
  <2> QED
    BY <1>2, <2>1, <2>2, <2>3
<1>3. ASSUME NEW t \in Threads, Miss(t) \/ OpenSession(t) \/ MatrixCached(t) \/ Fetch(t) \/ KeepMatrix(t)
      PROVE  TypeOK'
  <2>1. CASE Miss(t)
    BY <2>1 DEF Miss, Goto, profile, caches
  <2>2. CASE OpenSession(t)
    BY <2>2 DEF OpenSession, Goto, profile, caches
  <2>3. CASE MatrixCached(t)
    <3>1. acct[t] \in Accounts
      BY <2>3 DEF MatrixCached, BuilderBounds, Building
    <3>2. matrix[acct[t]].old \in Nat
      BY <2>3, <3>1 DEF MatrixCached, MatrixEntry
    <3> QED
      BY <2>3, <3>2 DEF MatrixCached, Goto, profile, caches
  <2>4. CASE Fetch(t)
    BY <2>4 DEF Fetch, Goto, profile, caches
  <2>5. CASE KeepMatrix(t)
    BY <2>5 DEF KeepMatrix, Goto, profile, MatrixEntry
  <2> QED
    BY <1>3, <2>1, <2>2, <2>3, <2>4, <2>5
<1>4. ASSUME NEW a \in Tags, Repoint(a) PROVE TypeOK'
  BY <1>4 DEF Repoint, caches, request
<1>5. CASE Tick
  <2>1. left' \in [Accounts -> 0..LongAgo]
    <3>1. ASSUME NEW a \in Accounts
          PROVE  (IF a = account THEN 0 ELSE IF left[a] < LongAgo THEN left[a] + 1 ELSE LongAgo)
                   \in 0..LongAgo
      <4>1. left[a] \in 0..LongAgo
        OBVIOUS
      <4> QED
        BY <4>1
    <3> QED
      BY <1>5, <3>1 DEF Tick
  <2>2. choices' \in ListEntry \cup {NoEntry}
    <3>1. CASE choices \in ListEntry
      BY <1>5, <3>1, ListAged DEF Tick
    <3>2. CASE choices = NoEntry
      BY <1>5, <3>2 DEF Tick
    <3> QED
      BY <3>1, <3>2
  <2>3. route' \in [Tags -> RouteEntry \cup {NoEntry}]
    <3>1. ASSUME NEW g \in Tags
          PROVE  route[g] # NoEntry => Aged(Older(route[g])) \in RouteEntry
      BY RouteAged
    <3> QED
      BY <1>5, <3>1 DEF Tick
  <2>4. matrix' \in [Accounts -> MatrixEntry \cup {NoEntry}]
    <3>1. ASSUME NEW a \in Accounts
          PROVE  matrix[a] # NoEntry => Aged(Older(matrix[a])) \in MatrixEntry
      BY MatrixAged
    <3> QED
      BY <1>5, <3>1 DEF Tick
  <2>5. spent' \in [Threads -> 0..MaxBuild]
    <3>1. ASSUME NEW t \in Threads
          PROVE  (IF at[t] = "idle" THEN 0 ELSE spent[t] + 1) \in 0..MaxBuild
      <4>1. spent[t] \in 0..MaxBuild /\ MaxBuild \in Nat
        OBVIOUS
      <4>2. at[t] # "idle" => spent[t] < MaxBuild
        BY <1>5 DEF Tick
      <4> QED
        BY <4>1, <4>2
    <3> QED
      BY <1>5, <3>1 DEF Tick
  <2>6. old' \in [Threads -> Nat]
    <3>1. ASSUME NEW t \in Threads
          PROVE  (IF at[t] \in {"keep", "respond"} THEN old[t] + 1 ELSE 0) \in Nat
      <4>1. old[t] \in Nat
        OBVIOUS
      <4> QED
        BY <4>1
    <3> QED
      BY <1>5, <3>1 DEF Tick
  <2>7. UNCHANGED <<account, repoints, at, tag, acct>>
    BY <1>5 DEF Tick
  <2> QED
    BY <2>1, <2>2, <2>3, <2>4, <2>5, <2>6, <2>7
<1>6. CASE UNCHANGED vars
  BY <1>6 DEF vars, profile, caches, request
<1> QED
  BY <1>1, <1>2, <1>3, <1>4, <1>5, <1>6 DEF Next, Request

-----------------------------------------------------------------------------
(* The bounds.                                                             *)

\* What BuilderBounds says of one request.
Within(t) ==
  /\ at[t] \notin {"keep", "respond"} => old[t] = 0
  /\ at[t] = "keep" => old[t] <= spent[t]
  /\ at[t] = "respond" => old[t] < MaxBuild + MatrixTtl + spent[t]
  /\ at[t] \in Building => acct[t] \in Accounts /\ left[acct[t]] <= spent[t]

\* A step of one request leaves the others where they are.
OthersStay(t) ==
  \A u \in Threads \ {t} :
    /\ at'[u] = at[u] /\ spent'[u] = spent[u]
    /\ acct'[u] = acct[u] /\ old'[u] = old[u]

LEMMA OthersStayWithin ==
  ASSUME IInv, NEW t \in Threads, OthersStay(t), UNCHANGED left, Within(t)'
  PROVE  BuilderBounds'
<1>1. ASSUME NEW u \in Threads PROVE Within(u)'
  <2>1. CASE u = t
    BY <2>1
  <2>2. CASE u # t
    BY <2>2 DEF OthersStay, IInv, BuilderBounds, Within
  <2> QED
    BY <2>1, <2>2
<1> QED
  BY <1>1 DEF Within, BuilderBounds

(* A request that ends, whatever the reason.                               *)
LEMMA EndWithin ==
  ASSUME IInv, NEW t \in Threads, End(t), UNCHANGED left
  PROVE  BuilderBounds'
<1>1. OthersStay(t) /\ Within(t)'
  BY DEF IInv, TypeOK, End, Goto, OthersStay, Within, Building
<1> QED
  BY <1>1, OthersStayWithin

(* The steps that change neither the profile nor a cache.                  *)
LEMMA QuietBounds ==
  ASSUME IInv, UNCHANGED <<profile, caches>>
  PROVE  HereNow' /\ ListBounds' /\ MatrixBounds' /\ RouteBounds'
BY DEF IInv, profile, caches, HereNow, ListBounds, MatrixBounds, RouteBounds

LEMMA RequestBuilders ==
  ASSUME IInv, NEW t \in Threads, Request(t)
  PROVE  BuilderBounds'
<1> USE DEF IInv, TypeOK, Goto, profile, caches
<1>1. CASE Arrive(t)
  <2>1. OthersStay(t) /\ Within(t)' /\ UNCHANGED left
    BY <1>1 DEF Arrive, OthersStay, Within, Building, BuilderBounds
  <2> QED
    BY <2>1, OthersStayWithin
<1>2. CASE TagFromList(t)
  <2>1. OthersStay(t) /\ Within(t)' /\ UNCHANGED left
    BY <1>2 DEF TagFromList, OthersStay, Within, Building, BuilderBounds
  <2> QED
    BY <2>1, OthersStayWithin
<1>3. CASE ResolveTag(t)
  <2>1. OthersStay(t) /\ Within(t)' /\ UNCHANGED left
    BY <1>3 DEF ResolveTag, OthersStay, Within, Building, BuilderBounds
  <2> QED
    BY <2>1, OthersStayWithin
<1>4. CASE KeepChoices(t)
  <2>1. OthersStay(t) /\ Within(t)' /\ UNCHANGED left
    BY <1>4 DEF KeepChoices, OthersStay, Within, Building, BuilderBounds
  <2> QED
    BY <2>1, OthersStayWithin
<1>5. CASE Hit(t)
  BY <1>5, EndWithin DEF Hit
<1>6. CASE Miss(t)
  <2>1. OthersStay(t) /\ Within(t)' /\ UNCHANGED left
    BY <1>6 DEF Miss, OthersStay, Within, Building, BuilderBounds
  <2> QED
    BY <2>1, OthersStayWithin
<1>7. CASE OpenSession(t)
  <2>1. account \in Accounts /\ left[account] = 0 /\ acct'[t] = account
    BY <1>7 DEF OpenSession, HereNow, Tags
  <2>2. OthersStay(t) /\ UNCHANGED left
    BY <1>7 DEF OpenSession, OthersStay
  <2>3. at'[t] = "matrix" /\ old'[t] = 0 /\ spent'[t] \in Nat
    BY <1>7 DEF OpenSession, BuilderBounds
  <2>4. Within(t)'
    BY <2>1, <2>2, <2>3 DEF Within, Building
  <2> QED
    BY <2>2, <2>4, OthersStayWithin
<1>8. CASE MatrixCached(t)
  <2>1. acct[t] \in Accounts /\ left[acct[t]] <= spent[t]
    BY <1>8 DEF MatrixCached, BuilderBounds, Building
  <2> DEFINE m == matrix[acct[t]]
  <2>2. m.age \in Nat /\ m.old \in Nat /\ m.age < MatrixTtl /\ m.old <= MaxBuild + m.age
    BY <1>8, <2>1 DEF MatrixCached, MatrixBounds, MatrixEntry
  <2>3. OthersStay(t) /\ UNCHANGED <<left, acct, spent>>
    BY <1>8 DEF MatrixCached, OthersStay
  <2>4. at'[t] = "respond" /\ old'[t] = m.old /\ spent[t] \in Nat
    BY <1>8 DEF MatrixCached
  <2> HIDE DEF m
  <2>5. Within(t)'
    BY <2>1, <2>2, <2>3, <2>4 DEF Within, Building
  <2> QED
    BY <2>3, <2>5, OthersStayWithin
<1>9. CASE Fetch(t)
  <2>1. OthersStay(t) /\ UNCHANGED left
    BY <1>9 DEF Fetch, OthersStay
  <2>2. at'[t] = "keep" /\ old'[t] = 0 /\ UNCHANGED <<acct, spent>> /\ spent[t] \in Nat
    BY <1>9 DEF Fetch, BuilderBounds
  <2>3. acct[t] \in Accounts /\ left[acct[t]] <= spent[t]
    BY <1>9 DEF Fetch, BuilderBounds, Building
  <2>4. Within(t)'
    BY <2>1, <2>2, <2>3 DEF Within, Building
  <2> QED
    BY <2>1, <2>4, OthersStayWithin
<1>10. CASE KeepMatrix(t)
  <2>1. OthersStay(t) /\ UNCHANGED left
    BY <1>10 DEF KeepMatrix, OthersStay
  <2>2. /\ at'[t] = "respond" /\ UNCHANGED <<acct, spent, old>>
        /\ old[t] <= spent[t] /\ old[t] \in Nat /\ spent[t] \in Nat
    BY <1>10 DEF KeepMatrix, BuilderBounds
  <2>3. acct[t] \in Accounts /\ left[acct[t]] <= spent[t]
    BY <1>10 DEF KeepMatrix, BuilderBounds, Building
  <2>4. Within(t)'
    BY <2>1, <2>2, <2>3 DEF Within, Building
  <2> QED
    BY <2>1, <2>4, OthersStayWithin
<1>11. CASE Fails(t)
  BY <1>11, EndWithin DEF Fails
<1>12. CASE Respond(t)
  BY <1>12, EndWithin DEF Respond
<1> QED
  BY <1>1, <1>2, <1>3, <1>4, <1>5, <1>6, <1>7, <1>8, <1>9, <1>10, <1>11, <1>12 DEF Request

(* What a request writes into the caches is within the bounds.             *)
LEMMA RequestCaches ==
  ASSUME IInv, NEW t \in Threads, Request(t)
  PROVE  HereNow' /\ ListBounds' /\ MatrixBounds' /\ RouteBounds'
<1>1. CASE Arrive(t) \/ TagFromList(t) \/ ResolveTag(t) \/ Hit(t) \/ Miss(t)
           \/ OpenSession(t) \/ MatrixCached(t) \/ Fetch(t) \/ Fails(t)
  <2>1. UNCHANGED <<profile, caches>>
    BY <1>1 DEF Arrive, TagFromList, ResolveTag, Hit, Miss, OpenSession, MatrixCached, Fetch, Fails
  <2> QED
    BY <2>1, QuietBounds
<1>2. CASE KeepChoices(t)
  <2>1. choices' = [tag |-> tag[t], age |-> 0] /\ UNCHANGED <<profile, route, matrix>>
    BY <1>2 DEF KeepChoices
  <2> QED
    BY <2>1 DEF IInv, profile, HereNow, ListBounds, MatrixBounds, RouteBounds
<1>3. CASE KeepMatrix(t)
  <2> DEFINE m == [old |-> old[t], age |-> 0]
  <2>1. matrix' = [matrix EXCEPT ![acct[t]] = m] /\ UNCHANGED <<profile, choices, route>>
    BY <1>3 DEF KeepMatrix
  <2>2. old[t] <= spent[t] /\ old[t] \in Nat /\ spent[t] \in 0..MaxBuild
    BY <1>3 DEF KeepMatrix, IInv, TypeOK, BuilderBounds
  <2>3. m.age < MatrixTtl /\ m.old <= MaxBuild + m.age
    BY <2>2
  <2> HIDE DEF m
  <2>4. MatrixBounds'
    BY <2>1, <2>3 DEF IInv, TypeOK, MatrixBounds
  <2> QED
    BY <2>1, <2>4 DEF IInv, profile, HereNow, ListBounds, RouteBounds
<1>4. CASE Respond(t)
  <2> DEFINE e == [acct |-> acct[t], old |-> old[t], age |-> 0]
  <2>1. route' = [route EXCEPT ![tag[t]] = e] \/ UNCHANGED route
    BY <1>4 DEF Respond
  <2>2. UNCHANGED <<profile, choices, matrix>>
    BY <1>4 DEF Respond
  <2>3. /\ old[t] < MaxBuild + MatrixTtl + spent[t] /\ old[t] \in Nat
        /\ spent[t] \in 0..MaxBuild
        /\ acct[t] \in Accounts /\ left[acct[t]] <= spent[t] /\ left[acct[t]] \in Nat
    BY <1>4 DEF Respond, IInv, TypeOK, BuilderBounds, Building
  <2>4. /\ e.age < RouteTtl
        /\ e.old < 2 * MaxBuild + MatrixTtl + e.age
        /\ left[e.acct] <= MaxBuild + e.age
    BY <2>3
  <2> HIDE DEF e
  <2>5. RouteBounds'
    BY <2>1, <2>2, <2>4 DEF IInv, TypeOK, RouteBounds, profile
  <2> QED
    BY <2>2, <2>5 DEF IInv, profile, HereNow, ListBounds, MatrixBounds
<1> QED
  BY <1>1, <1>2, <1>3, <1>4 DEF Request

LEMMA RepointBounds ==
  ASSUME IInv, NEW a \in Tags, Repoint(a)
  PROVE  HereNow' /\ ListBounds' /\ MatrixBounds' /\ BuilderBounds' /\ RouteBounds'
<1>1. account' = a /\ UNCHANGED <<choices, route, matrix, at, spent, tag, acct, old>>
  BY DEF Repoint, caches, request
<1>2. \A b \in Accounts : left'[b] = IF b = a THEN 0 ELSE left[b]
  BY DEF Repoint
<1>3. \A b \in Accounts : left'[b] \in Nat /\ left[b] \in Nat /\ left'[b] <= left[b]
  BY <1>2 DEF IInv, TypeOK
<1>4. HereNow' /\ ListBounds' /\ MatrixBounds'
  BY <1>1, <1>2 DEF IInv, HereNow, ListBounds, MatrixBounds
<1>5. BuilderBounds'
  <2>1. ASSUME NEW t \in Threads, at[t] \in Building
        PROVE  acct[t] \in Accounts /\ left'[acct[t]] <= spent[t]
    BY <1>3, <2>1 DEF IInv, TypeOK, BuilderBounds
  <2> QED
    BY <1>1, <2>1 DEF IInv, BuilderBounds
<1>6. RouteBounds'
  <2>1. ASSUME NEW g \in Tags, route[g] # NoEntry
        PROVE  left'[route[g].acct] <= MaxBuild + route[g].age
    <3>1. route[g].acct \in Accounts /\ route[g].age \in Nat
      BY <2>1 DEF IInv, TypeOK, RouteEntry
    <3>2. left[route[g].acct] <= MaxBuild + route[g].age
      BY <2>1 DEF IInv, RouteBounds
    <3> QED
      BY <1>3, <3>1, <3>2
  <2> QED
    BY <1>1, <2>1 DEF IInv, RouteBounds
<1> QED
  BY <1>4, <1>5, <1>6

(* A tick later everything is a tick older, or gone.                       *)
LEMMA TickBounds ==
  ASSUME IInv, Tick
  PROVE  HereNow' /\ ListBounds' /\ MatrixBounds' /\ BuilderBounds' /\ RouteBounds'
<1>1. UNCHANGED <<account, at, tag, acct>>
  BY DEF Tick
<1>2. \A a \in Accounts :
        /\ left[a] \in Nat /\ left'[a] \in Nat
        /\ left'[a] <= left[a] + 1
        /\ a = account => left'[a] = 0
  BY DEF Tick, IInv, TypeOK
<1>3. HereNow'
  BY <1>1, <1>2 DEF HereNow
<1>4. ListBounds'
  <2>1. CASE choices' = NoEntry
    BY <2>1 DEF ListBounds
  <2>2. CASE choices' # NoEntry
    <3>1. choices # NoEntry /\ choices' = Aged(choices) /\ choices.age + 1 < RouteTtl
      BY <2>2 DEF Tick
    <3>2. choices \in ListEntry
      BY <3>1 DEF IInv, TypeOK
    <3> QED
      BY <3>1, <3>2, ListAged DEF ListBounds
  <2> QED
    BY <2>1, <2>2
<1>5. MatrixBounds'
  <2>1. ASSUME NEW a \in Accounts, matrix'[a] # NoEntry
        PROVE  matrix'[a].age < MatrixTtl /\ matrix'[a].old <= MaxBuild + matrix'[a].age
    <3>1. /\ matrix[a] # NoEntry /\ matrix'[a] = Aged(Older(matrix[a]))
          /\ matrix[a].age + 1 < MatrixTtl
      BY <2>1 DEF Tick
    <3>2. matrix[a] \in MatrixEntry
      BY <3>1 DEF IInv, TypeOK
    <3>3. matrix[a].old \in Nat /\ matrix[a].age \in Nat
      BY <3>2 DEF MatrixEntry
    <3>4. matrix[a].old <= MaxBuild + matrix[a].age
      BY <3>1 DEF IInv, MatrixBounds
    <3> QED
      BY <3>1, <3>2, <3>3, <3>4, MatrixAged
  <2> QED
    BY <2>1 DEF MatrixBounds
<1>6. BuilderBounds'
  <2>1. ASSUME NEW t \in Threads PROVE Within(t)'
    <3>1. /\ at[t] # "idle" => spent'[t] = spent[t] + 1
          /\ old'[t] = IF at[t] \in {"keep", "respond"} THEN old[t] + 1 ELSE 0
      BY DEF Tick, IInv, TypeOK
    <3>2. spent[t] \in Nat /\ old[t] \in Nat
      BY DEF IInv, TypeOK
    <3>3. Within(t)
      BY DEF IInv, BuilderBounds, Within
    <3>4. CASE at[t] \in Building
      <4>1. acct[t] \in Accounts /\ left'[acct[t]] <= spent[t] + 1
        BY <1>2, <3>2, <3>3, <3>4 DEF Within
      <4> QED
        BY <1>1, <3>1, <3>2, <3>3, <3>4, <4>1 DEF Within, Building
    <3>5. CASE at[t] \notin Building
      BY <1>1, <3>1, <3>5 DEF Within, Building
    <3> QED
      BY <3>4, <3>5
  <2> QED
    BY <2>1 DEF Within, BuilderBounds
<1>7. RouteBounds'
  <2>1. ASSUME NEW g \in Tags, route'[g] # NoEntry
        PROVE  /\ route'[g].age < RouteTtl
               /\ route'[g].old < 2 * MaxBuild + MatrixTtl + route'[g].age
               /\ left'[route'[g].acct] <= MaxBuild + route'[g].age
    <3>1. /\ route[g] # NoEntry /\ route'[g] = Aged(Older(route[g]))
          /\ route[g].age + 1 < RouteTtl
      BY <2>1 DEF Tick
    <3>2. route[g] \in RouteEntry
      BY <3>1 DEF IInv, TypeOK
    <3>3. route[g].old \in Nat /\ route[g].age \in Nat /\ route[g].acct \in Accounts
      BY <3>2 DEF RouteEntry
    <3>4. /\ route[g].old < 2 * MaxBuild + MatrixTtl + route[g].age
          /\ left[route[g].acct] <= MaxBuild + route[g].age
      BY <3>1 DEF IInv, RouteBounds
    <3>5. left'[route[g].acct] <= MaxBuild + route[g].age + 1
      BY <1>2, <3>3, <3>4
    <3> QED
      BY <3>1, <3>2, <3>3, <3>4, <3>5, RouteAged
  <2> QED
    BY <2>1 DEF RouteBounds
<1> QED
  BY <1>3, <1>4, <1>5, <1>6, <1>7

LEMMA NextIInv == IInv /\ [Next]_vars => IInv'
<1> SUFFICES ASSUME IInv, [Next]_vars PROVE IInv'
  OBVIOUS
<1>1. TypeOK'
  BY NextTypeOK DEF IInv
<1>2. ASSUME NEW t \in Threads, Request(t)
      PROVE  HereNow' /\ ListBounds' /\ MatrixBounds' /\ BuilderBounds' /\ RouteBounds'
  BY <1>2, RequestBuilders, RequestCaches
<1>3. ASSUME NEW a \in Tags, Repoint(a)
      PROVE  HereNow' /\ ListBounds' /\ MatrixBounds' /\ BuilderBounds' /\ RouteBounds'
  BY <1>3, RepointBounds
<1>4. CASE Tick
  BY <1>1, <1>4, TickBounds DEF IInv
<1>5. CASE UNCHANGED vars
  <2>1. UNCHANGED <<profile, caches>> /\ UNCHANGED <<at, spent, acct, old>>
    BY <1>5 DEF vars, request
  <2>2. BuilderBounds'
    BY <2>1 DEF IInv, BuilderBounds, profile
  <2> QED
    BY <1>1, <2>1, <2>2, QuietBounds DEF IInv
<1> QED
  BY <1>1, <1>2, <1>3, <1>4, <1>5 DEF Next, IInv

LEMMA Invariant == Spec => []IInv
BY InitIInv, NextIInv, PTL DEF Spec

-----------------------------------------------------------------------------

\* Whatever the profile does, the caches and the requests keep their types.
THEOREM CostRoutesTypeCorrect == Spec => []TypeOK
<1>1. IInv => TypeOK
  BY DEF IInv
<1> QED
  BY <1>1, Invariant, PTL

\* Stacked caches add up their ages and no more: no answer of a cost route
\* carries numbers older than two lifetimes and two requests.
THEOREM NumbersAreRecent == Spec => []NumbersAgeBound
<1>1. ASSUME IInv PROVE NumbersAgeBound
  <2>1. ASSUME NEW t \in Threads, NEW n \in Answers(t)
        PROVE  n.old < RouteTtl + MatrixTtl + 2 * MaxBuild
    <3>1. CASE at[t] = "lookup"
      <4>1. route[tag[t]] # NoEntry /\ n.old = route[tag[t]].old /\ tag[t] \in Tags
        BY <1>1, <2>1, <3>1 DEF Answers, IInv, TypeOK
      <4>2. route[tag[t]] \in RouteEntry
        BY <1>1, <4>1 DEF IInv, TypeOK
      <4>3. /\ route[tag[t]].age < RouteTtl
            /\ route[tag[t]].old < 2 * MaxBuild + MatrixTtl + route[tag[t]].age
        BY <1>1, <4>1 DEF IInv, RouteBounds
      <4>4. route[tag[t]].age \in Nat /\ route[tag[t]].old \in Nat
        BY <4>2 DEF RouteEntry
      <4> QED
        BY <4>1, <4>3, <4>4
    <3>2. CASE at[t] = "respond"
      <4>1. n.old = old[t]
        BY <2>1, <3>2 DEF Answers
      <4>2. old[t] < MaxBuild + MatrixTtl + spent[t] /\ old[t] \in Nat /\ spent[t] \in 0..MaxBuild
        BY <1>1, <3>2 DEF IInv, TypeOK, BuilderBounds
      <4> QED
        BY <4>1, <4>2
    <3> QED
      BY <2>1, <3>1, <3>2 DEF Answers
  <2> QED
    BY <2>1 DEF NumbersAgeBound
<1> QED
  BY <1>1, Invariant, PTL

\* Numbers of an account the profile has left are shown for one lifetime of an
\* answer and one request at most, whatever tag they were stored under.
THEOREM LeftAccountsFade == Spec => []LeftAccountFadesOut
<1>1. ASSUME IInv PROVE LeftAccountFadesOut
  <2>1. ASSUME NEW t \in Threads, NEW n \in Answers(t)
        PROVE  left[n.acct] < RouteTtl + MaxBuild
    <3>1. CASE at[t] = "lookup"
      <4>1. route[tag[t]] # NoEntry /\ n.acct = route[tag[t]].acct /\ tag[t] \in Tags
        BY <1>1, <2>1, <3>1 DEF Answers, IInv, TypeOK
      <4>2. route[tag[t]] \in RouteEntry
        BY <1>1, <4>1 DEF IInv, TypeOK
      <4>3. /\ route[tag[t]].age < RouteTtl
            /\ left[route[tag[t]].acct] <= MaxBuild + route[tag[t]].age
        BY <1>1, <4>1 DEF IInv, RouteBounds
      <4>4. route[tag[t]].age \in Nat /\ route[tag[t]].acct \in Accounts
        BY <4>2 DEF RouteEntry
      <4>5. left[route[tag[t]].acct] \in Nat
        BY <1>1, <4>4 DEF IInv, TypeOK
      <4> QED
        BY <4>1, <4>3, <4>4, <4>5
    <3>2. CASE at[t] = "respond"
      <4>1. n.acct = acct[t]
        BY <2>1, <3>2 DEF Answers
      <4>2. acct[t] \in Accounts /\ left[acct[t]] <= spent[t]
        BY <1>1, <3>2 DEF IInv, BuilderBounds, Building
      <4>3. left[acct[t]] \in Nat /\ spent[t] \in 0..MaxBuild
        BY <1>1, <4>2 DEF IInv, TypeOK
      <4> QED
        BY <4>1, <4>2, <4>3
    <3> QED
      BY <2>1, <3>1, <3>2 DEF Answers
  <2> QED
    BY <2>1 DEF LeftAccountFadesOut
<1> QED
  BY <1>1, Invariant, PTL
=============================================================================

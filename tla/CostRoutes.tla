----------------------------- MODULE CostRoutes -----------------------------
(***************************************************************************)
(* The cost endpoints (web/routes/cost.py) over the caches they stack: the *)
(* list of profiles with their account ids (web/context.py), the answer of *)
(* each route, keyed by the account id that list gives for the profile,    *)
(* and the cost matrix of each account (aws/cost_store.py), keyed by the   *)
(* account id STS gives to the builder.                                    *)
(*                                                                         *)
(* One profile, one period, and the summary: /services is the same without *)
(* a forecast, and the trend and composition routes without the matrix.    *)
(* The profile can be repointed to another account, or lose its            *)
(* credentials, at any moment; a request reads the account twice, for its  *)
(* key and for its session.  Numbers are reduced to the account they are   *)
(* of and their age, counted from the moment Cost Explorer gave them.  The *)
(* routes read with cache_get, so an entry past its TTL is as good as      *)
(* absent, and is taken out of the model.  No CUR warehouse is configured, *)
(* so that every matrix comes from Cost Explorer.                          *)
(***************************************************************************)
EXTENDS Naturals

CONSTANTS Threads, Accounts,
          Unknown,     \* "na", the tag of a profile whose account is not known
          NoEntry,
          RouteTtl,    \* _TTL of deps.py, for answers and for the profile list
          MatrixTtl,   \* that of an open window in cost_store.py
          MaxBuild,    \* ticks a request may take: every AWS call times out
          LongAgo,     \* where the model stops to count the ticks
          MaxRepoints  \* bound on the changes of the profile, for model checking

ASSUME UnknownAssumption == Unknown \notin Accounts
ASSUME TtlAssumption == RouteTtl \in Nat \ {0} /\ MatrixTtl \in Nat \ {0} /\ MaxBuild \in Nat
ASSUME LongAgoAssumption == LongAgo \in Nat /\ LongAgo > RouteTtl + MaxBuild
ASSUME RepointsAssumption == MaxRepoints \in Nat

Tags == Accounts \cup {Unknown}

VARIABLES
  account,   \* what the profile resolves to: an account, or Unknown
  left,      \* how long ago it last resolved to each account (history)
  choices,   \* the cached profile list: the profile's tag, and its age
  route,     \* the cached answer under each tag
  matrix,    \* the cached matrix of each account
  at,        \* where each request is in its handler
  spent,     \* for how long it has been running
  tag,       \* the account id in its cache key
  acct, old, \* the account of its session, and the age of its numbers
  repoints

caches == <<choices, route, matrix>>
profile == <<account, left, repoints>>
request == <<at, spent, tag, acct, old>>
vars == <<profile, caches, request>>

Places == {"idle", "tag", "choose", "lookup", "session", "matrix", "keep", "respond"}

ListEntry   == [tag: Tags, age: Nat]
RouteEntry  == [acct: Accounts, old: Nat, age: Nat]
MatrixEntry == [old: Nat, age: Nat]

ASSUME NoEntryAssumption == NoEntry \notin ListEntry \cup RouteEntry \cup MatrixEntry

TypeOK ==
  /\ account \in Tags
  /\ left \in [Accounts -> 0..LongAgo]
  /\ choices \in ListEntry \cup {NoEntry}
  /\ route \in [Tags -> RouteEntry \cup {NoEntry}]
  /\ matrix \in [Accounts -> MatrixEntry \cup {NoEntry}]
  /\ at \in [Threads -> Places]
  /\ spent \in [Threads -> 0..MaxBuild]
  /\ tag \in [Threads -> Tags]
  /\ acct \in [Threads -> Tags]
  /\ old \in [Threads -> Nat]
  /\ repoints \in 0..MaxRepoints

Init ==
  /\ account \in Accounts
  /\ left = [a \in Accounts |-> IF a = account THEN 0 ELSE LongAgo]
  /\ choices = NoEntry
  /\ route = [g \in Tags |-> NoEntry]
  /\ matrix = [a \in Accounts |-> NoEntry]
  /\ at = [t \in Threads |-> "idle"]
  /\ spent = [t \in Threads |-> 0]
  /\ tag = [t \in Threads |-> Unknown]
  /\ acct = [t \in Threads |-> Unknown]
  /\ old = [t \in Threads |-> 0]
  /\ repoints = 0

Goto(t, place) == at' = [at EXCEPT ![t] = place]

\* The request is over; what it knew is gone.
End(t) ==
  /\ Goto(t, "idle")
  /\ spent' = [spent EXCEPT ![t] = 0]
  /\ tag' = [tag EXCEPT ![t] = Unknown]
  /\ acct' = [acct EXCEPT ![t] = Unknown]
  /\ old' = [old EXCEPT ![t] = 0]

-----------------------------------------------------------------------------
(* _account_tag and get_profile_choices                                    *)

Arrive(t) ==
  /\ at[t] = "idle"
  /\ Goto(t, "tag")
  /\ UNCHANGED <<profile, caches, spent, tag, acct, old>>

TagFromList(t) ==
  /\ at[t] = "tag" /\ choices # NoEntry
  /\ tag' = [tag EXCEPT ![t] = choices.tag]
  /\ Goto(t, "lookup")
  /\ UNCHANGED <<profile, caches, spent, acct, old>>

\* load_profile_bundle asks STS; a profile that fails is listed with None.
ResolveTag(t) ==
  /\ at[t] = "tag" /\ choices = NoEntry
  /\ \E found \in {account, Unknown} : tag' = [tag EXCEPT ![t] = found]
  /\ Goto(t, "choose")
  /\ UNCHANGED <<profile, caches, spent, acct, old>>

KeepChoices(t) ==
  /\ at[t] = "choose"
  /\ choices' = [tag |-> tag[t], age |-> 0]
  /\ Goto(t, "lookup")
  /\ UNCHANGED <<profile, route, matrix, spent, tag, acct, old>>

-----------------------------------------------------------------------------
(* The handler                                                             *)

\* Mutant: an answer that is asked for again is kept for longer.
HitRenews(t) ==
  /\ at[t] = "lookup" /\ route[tag[t]] # NoEntry
  /\ route' = [route EXCEPT ![tag[t]].age = 0]
  /\ End(t)
  /\ UNCHANGED <<profile, choices, matrix>>

Hit(t) ==
  /\ at[t] = "lookup" /\ route[tag[t]] # NoEntry
  /\ End(t)
  /\ UNCHANGED <<profile, caches>>

Miss(t) ==
  /\ at[t] = "lookup" /\ route[tag[t]] = NoEntry
  /\ Goto(t, "session")
  /\ UNCHANGED <<profile, caches, spent, tag, acct, old>>

\* Mutant: the builder takes the account id from the tag.
OpenTagged(t) ==
  /\ at[t] = "session" /\ account # Unknown
  /\ acct' = [acct EXCEPT ![t] = IF tag[t] = Unknown THEN account ELSE tag[t]]
  /\ Goto(t, "matrix")
  /\ UNCHANGED <<profile, caches, spent, tag, old>>

\* get_session and get_caller_identity.
OpenSession(t) ==
  /\ at[t] = "session" /\ account # Unknown
  /\ acct' = [acct EXCEPT ![t] = account]
  /\ Goto(t, "matrix")
  /\ UNCHANGED <<profile, caches, spent, tag, old>>

MatrixCached(t) ==
  /\ at[t] = "matrix" /\ matrix[acct[t]] # NoEntry
  /\ old' = [old EXCEPT ![t] = matrix[acct[t]].old]
  /\ Goto(t, "respond")
  /\ UNCHANGED <<profile, caches, spent, tag, acct>>

\* Cost Explorer answers, and the matrix is written.
Fetch(t) ==
  /\ at[t] = "matrix" /\ matrix[acct[t]] = NoEntry
  /\ Goto(t, "keep")
  /\ UNCHANGED <<profile, caches, spent, tag, acct, old>>

KeepMatrix(t) ==
  /\ at[t] = "keep"
  /\ matrix' = [matrix EXCEPT ![acct[t]] = [old |-> old[t], age |-> 0]]
  /\ Goto(t, "respond")
  /\ UNCHANGED <<profile, choices, route, spent, tag, acct, old>>

\* No credentials, or a call that raises (a second matrix of the view, once
\* the first is cached): an error, which is not cached.
Fails(t) ==
  /\ at[t] \in {"session", "matrix", "respond"}
  /\ End(t)
  /\ UNCHANGED <<profile, caches>>

\* The answer is cached under the tag read at the beginning, unless its
\* forecast is missing for a transient reason (_no_cache).
Respond(t) ==
  /\ at[t] = "respond"
  /\ \/ route' = [route EXCEPT ![tag[t]] = [acct |-> acct[t], old |-> old[t], age |-> 0]]
     \/ UNCHANGED route
  /\ End(t)
  /\ UNCHANGED <<profile, choices, matrix>>

-----------------------------------------------------------------------------
(* The world                                                               *)

\* The profile is edited, its role changes, its credentials expire or return.
Repoint(a) ==
  /\ repoints < MaxRepoints /\ a # account
  /\ account' = a
  /\ left' = [b \in Accounts |-> IF b = a THEN 0 ELSE left[b]]
  /\ repoints' = repoints + 1
  /\ UNCHANGED <<caches, request>>

Aged(e) == [e EXCEPT !.age = @ + 1]

Older(e) == [e EXCEPT !.old = @ + 1]

\* A tick later: entries that reach their TTL are gone.
Tick ==
  /\ \A t \in Threads : at[t] # "idle" => spent[t] < MaxBuild
  /\ left' = [a \in Accounts |-> IF a = account THEN 0
                                 ELSE IF left[a] < LongAgo THEN left[a] + 1 ELSE LongAgo]
  /\ choices' = IF choices # NoEntry /\ choices.age + 1 < RouteTtl
                  THEN Aged(choices) ELSE NoEntry
  /\ route' = [g \in Tags |->
       IF route[g] # NoEntry /\ route[g].age + 1 < RouteTtl
         THEN Aged(Older(route[g])) ELSE NoEntry]
  /\ matrix' = [a \in Accounts |->
       IF matrix[a] # NoEntry /\ matrix[a].age + 1 < MatrixTtl
         THEN Aged(Older(matrix[a])) ELSE NoEntry]
  /\ spent' = [t \in Threads |-> IF at[t] = "idle" THEN 0 ELSE spent[t] + 1]
  /\ old' = [t \in Threads |-> IF at[t] \in {"keep", "respond"} THEN old[t] + 1 ELSE 0]
  /\ UNCHANGED <<account, repoints, at, tag, acct>>

Request(t) ==
  \/ Arrive(t)
  \/ TagFromList(t) \/ ResolveTag(t) \/ KeepChoices(t)
  \/ Hit(t) \/ Miss(t) \/ OpenSession(t)
  \/ MatrixCached(t) \/ Fetch(t) \/ KeepMatrix(t)
  \/ Fails(t) \/ Respond(t)

Next ==
  \/ \E t \in Threads : Request(t)
  \/ \E a \in Tags : Repoint(a)
  \/ Tick

Spec == Init /\ [][Next]_vars

-----------------------------------------------------------------------------
(* Properties                                                              *)

\* The numbers a request is about to answer with: a fresh entry it has found
\* under its key, or what it has built.
Answers(t) ==
  {[acct |-> e.acct, old |-> e.old] :
     e \in IF at[t] = "lookup" THEN {route[tag[t]]} \ {NoEntry} ELSE {}}
  \cup IF at[t] = "respond" THEN {[acct |-> acct[t], old |-> old[t]]} ELSE {}

\* The ages of stacked caches add up, and no more than that: numbers are never
\* older than both lifetimes and the two requests that carried them.
NumbersAgeBound ==
  \A t \in Threads : \A n \in Answers(t) : n.old < RouteTtl + MatrixTtl + 2 * MaxBuild

\* Whatever the tags say by the time they are used, numbers of an account the
\* profile has left are shown for one lifetime of an answer at most.
LeftAccountFadesOut ==
  \A t \in Threads : \A n \in Answers(t) : left[n.acct] < RouteTtl + MaxBuild
=============================================================================

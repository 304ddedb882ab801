------------------------- MODULE ResourcesPageProofs -------------------------
(***************************************************************************)
(* Theorems about the resources page, for any accounts, filters, totals,   *)
(* limits and bounds.                                                      *)
(***************************************************************************)
EXTENDS ResourcesPage, TLAPS

-----------------------------------------------------------------------------
(* The inductive invariant                                                 *)

\* The load in flight, or the list at rest, is of the debounced filter, and
\* that is the chip's when the timer is off.
Current ==
  /\ ~timer => service = debounced
  /\ loading # Nothing => loading = Ask(account, debounced, limit)
  /\ loading = Nothing /\ ~Fatal => data # Nothing /\ data.asked = Ask(account, debounced, limit)

\* Without an error payload, the list is what the server has of it.
Served ==
  data # Nothing =>
    /\ data.asked.limit >= FetchLimit
    /\ "backend" \notin errors =>
         data.rows = Rows(data.asked) /\ data.total = Total[data.asked.account][data.asked.of]

\* The limit is above the list's only if the list was cut.
Raised ==
  data # Nothing /\ limit > data.asked.limit =>
    /\ data.rows = Least(data.asked.limit, ServerCap)
    /\ data.rows < Total[data.asked.account][data.asked.of]

SmallLimit == limit = FetchLimit \/ loadedMore

IInv == TypeOK /\ Current /\ Served /\ Raised /\ SmallLimit

-----------------------------------------------------------------------------
LEMMA AskType == ASSUME NEW a \in Accounts, NEW f \in Filters, NEW l \in Nat
                 PROVE  Ask(a, f, l) \in Asked /\ Ask(a, f, l) # Nothing
BY NothingAssumption DEF Ask, Asked

\* The rows of an answer are those of the filter, cut at the limit and at the cap.
LEMMA RowsCut ==
  ASSUME NEW q \in Asked
  PROVE  /\ Rows(q) \in Nat /\ Total[q.account][q.of] \in Nat
         /\ Rows(q) <= Total[q.account][q.of]
         /\ Rows(q) < Total[q.account][q.of] => Rows(q) = Least(q.limit, ServerCap)
<1> DEFINE t == Total[q.account][q.of]
<1>1. t \in Nat BY FiltersAssumption DEF Asked
<1>2. q.limit \in Nat /\ ServerCap \in Nat BY SizesAssumption DEF Asked
<1>3. Rows(q) = Least(Least(q.limit, ServerCap), t) BY DEF Rows
<1> HIDE DEF t
<1>4. /\ Rows(q) \in Nat /\ Rows(q) <= t
      /\ Rows(q) < t => Rows(q) = Least(q.limit, ServerCap)
  BY <1>1, <1>2, <1>3 DEF Least
<1>5. QED BY <1>1, <1>4 DEF t

LEMMA InitIInv == ASSUME Init PROVE IInv
<1>1. FetchLimit \in Nat /\ PageSize \in Nat BY SizesAssumption
<1>2. loading \in Asked /\ loading # Nothing BY <1>1, AskType, FiltersAssumption DEF Init
<1>3. TypeOK
  <2>1. timer \in BOOLEAN /\ loadedMore \in BOOLEAN /\ errors \in SUBSET {"error", "backend"} BY DEF Init
  <2>2. limit \in Nat /\ limit >= FetchLimit /\ visible \in Nat BY <1>1 DEF Init
  <2>3. moves \in 0..MaxMoves /\ faults \in 0..MaxFaults BY BoundsAssumption DEF Init
  <2>4. QED BY <1>2, <2>1, <2>2, <2>3, FiltersAssumption DEF Init, TypeOK
<1>4. Current BY <1>2 DEF Init, Current
<1>5. Served /\ Raised /\ SmallLimit BY DEF Init, Served, Raised, SmallLimit
<1>6. QED BY <1>3, <1>4, <1>5 DEF IInv

LEMMA SelectKeeps == ASSUME IInv, NEW s \in Filters, Select(s) PROVE IInv'
<1> USE DEF IInv, Select, Move
<1>1. FetchLimit \in Nat /\ PageSize \in Nat /\ limit \in Nat BY SizesAssumption DEF TypeOK
<1>2. data' = data /\ account' = account /\ debounced' = debounced BY DEF Load
<1>3. Ask(account, debounced, FetchLimit) \in Asked /\ Ask(account, debounced, FetchLimit) # Nothing
  BY <1>1, AskType DEF TypeOK
<1>4. TypeOK'
  <2>1. timer' \in BOOLEAN BY DEF TypeOK
  <2>2. limit' \in Nat /\ limit' >= FetchLimit /\ visible' \in Nat BY <1>1
  <2>3. /\ loading' \in Asked \cup {Nothing} /\ data' \in Answer \cup {Nothing}
        /\ errors' \in SUBSET {"error", "backend"} /\ faults' \in 0..MaxFaults
    BY <1>3 DEF TypeOK, Load
  <2>4. moves' \in 0..MaxMoves BY BoundsAssumption DEF TypeOK
  <2>5. QED BY <1>2, <2>1, <2>2, <2>3, <2>4 DEF TypeOK
<1>5. Current'
  <2>1. CASE limit # FetchLimit BY <2>1, <1>3 DEF Current, Load, TypeOK
  <2>2. CASE limit = FetchLimit BY <2>2 DEF Current, Fatal, TypeOK
  <2>3. QED BY <2>1, <2>2
<1>6. Served' BY <1>2 DEF Served, Load
<1>7. Raised' BY <1>1, <1>2 DEF Raised, Served, TypeOK, Answer, Asked
<1>8. QED BY <1>4, <1>5, <1>6, <1>7 DEF SmallLimit

LEMMA DebounceKeeps == ASSUME IInv, DebounceFires PROVE IInv'
<1> USE DEF IInv, DebounceFires
<1>1. PageSize \in Nat /\ limit \in Nat BY SizesAssumption DEF TypeOK
<1>2. data' = data /\ account' = account /\ limit' = limit BY DEF Load
<1>3. Ask(account, service, limit) \in Asked /\ Ask(account, service, limit) # Nothing
  BY <1>1, AskType DEF TypeOK
<1>4. TypeOK' BY <1>1, <1>3 DEF TypeOK, Load
<1>5. Current'
  <2>1. CASE service # debounced BY <2>1, <1>3 DEF Current, Load
  <2>2. CASE service = debounced BY <2>2 DEF Current, Fatal
  <2>3. QED BY <2>1, <2>2
<1>6. Served' /\ Raised' BY <1>2 DEF Served, Raised, Load
<1>7. QED BY <1>4, <1>5, <1>6 DEF SmallLimit

LEMMA ShowMoreKeeps == ASSUME IInv, ShowMore PROVE IInv'
<1> USE DEF IInv, ShowMore, Move
<1>1. TypeOK' BY SizesAssumption, BoundsAssumption DEF TypeOK
<1>2. QED BY <1>1 DEF Current, Fatal, Served, Raised, SmallLimit

LEMMA LoadMoreKeeps == ASSUME IInv, LoadMore PROVE IInv'
<1> USE DEF IInv, LoadMore, Move
<1> DEFINE ask == Ask(account, debounced, limit + FetchLimit)
<1>1. limit \in Nat /\ limit + FetchLimit \in Nat /\ limit + FetchLimit >= FetchLimit
  BY SizesAssumption DEF TypeOK
<1>2. ask \in Asked /\ ask # Nothing BY <1>1, AskType DEF TypeOK
<1>3. TypeOK' BY <1>1, <1>2, BoundsAssumption DEF TypeOK, Load
<1>4. Current' BY <1>2 DEF Current, Load
<1>5. Served' BY DEF Served, Load
<1>6. Raised'
  <2>1. data \in Answer /\ data # Nothing /\ errors = {} BY DEF List, Fatal, TypeOK
  <2>2. data.rows = Rows(data.asked) /\ data.total = Total[data.asked.account][data.asked.of]
    BY <2>1 DEF Served
  <2>3. data.asked \in Asked /\ data.rows < data.total BY <2>1 DEF Answer
  <2>4. data.rows = Least(data.asked.limit, ServerCap) BY <2>2, <2>3, RowsCut
  <2>5. QED BY <2>2, <2>3, <2>4 DEF Raised, Load
<1>7. QED BY <1>3, <1>4, <1>5, <1>6 DEF SmallLimit

LEMMA RetryKeeps == ASSUME IInv, Retry PROVE IInv'
<1> USE DEF IInv, Retry, Move
<1>1. Ask(account, debounced, limit) \in Asked /\ Ask(account, debounced, limit) # Nothing
  BY AskType DEF TypeOK
<1>2. TypeOK' BY <1>1, BoundsAssumption DEF TypeOK, Load
<1>3. Current' BY <1>1 DEF Current, Load
<1>4. QED BY <1>2, <1>3 DEF Served, Raised, SmallLimit, Load

LEMMA SwitchKeeps == ASSUME IInv, NEW a \in Accounts, Switch(a) PROVE IInv'
<1> USE DEF IInv, Switch, Move
<1>1. Ask(a, debounced, limit) \in Asked /\ Ask(a, debounced, limit) # Nothing
  BY AskType DEF TypeOK
<1>2. TypeOK' BY <1>1, BoundsAssumption DEF TypeOK, Load
<1>3. Current' BY <1>1 DEF Current, Load
<1>4. QED BY <1>2, <1>3 DEF Served, Raised, SmallLimit, Load

\* A load that ends with an answer leaves the list of what it asked for.
LEMMA EndsKeeps ==
  ASSUME IInv, NEW rows \in Nat, NEW total \in Nat, Ends(rows, total)
  PROVE  /\ data' \in Answer /\ data' # Nothing /\ data'.asked = loading
         /\ data'.rows = rows /\ data'.total = total
         /\ loading \in Asked /\ loading.limit = limit /\ limit \in Nat /\ limit >= FetchLimit
         /\ Current' /\ Raised'
<1> USE DEF IInv, Ends
<1>1. loading \in Asked /\ loading = Ask(account, debounced, limit) /\ limit \in Nat /\ limit >= FetchLimit
  BY DEF TypeOK, Current
<1>2. data' \in Answer /\ data'.asked = loading /\ data'.rows = rows /\ data'.total = total
  BY <1>1 DEF Answer
<1>3. data' # Nothing BY <1>2, NothingAssumption
<1>4. loading.limit = limit BY <1>1 DEF Ask
<1>5. Current' BY <1>1, <1>2, <1>3 DEF Current
<1>6. Raised' BY <1>1, <1>2, <1>4 DEF Raised
<1>7. QED BY <1>1, <1>2, <1>3, <1>4, <1>5, <1>6

LEMMA AnsweredKeeps == ASSUME IInv, Answered PROVE IInv'
<1> DEFINE rows == Rows(loading)
           total == Total[loading.account][loading.of]
<1>1. loading \in Asked BY DEF Answered, IInv, TypeOK
<1>2. rows \in Nat /\ total \in Nat BY <1>1, RowsCut
<1>3. Ends(rows, total) BY DEF Answered
<1> HIDE DEF rows, total
<1>4. /\ data' \in Answer /\ data' # Nothing /\ data'.asked = loading
      /\ data'.rows = rows /\ data'.total = total
      /\ loading.limit = limit /\ limit >= FetchLimit /\ Current' /\ Raised'
  BY <1>2, <1>3, EndsKeeps
<1>5. TypeOK' BY <1>4 DEF Answered, Ends, IInv, TypeOK
<1>6. Served' BY <1>4 DEF Served, Answered, rows, total
<1>7. SmallLimit' BY DEF Answered, Ends, IInv, SmallLimit
<1>8. QED BY <1>4, <1>5, <1>6, <1>7 DEF IInv

LEMMA AnsweredErrorKeeps == ASSUME IInv, AnsweredError PROVE IInv'
<1>1. Ends(0, 0) /\ errors' = {"backend"} /\ faults' \in 0..MaxFaults
  BY BoundsAssumption DEF AnsweredError, IInv, TypeOK
<1>2. /\ data' \in Answer /\ data' # Nothing /\ data'.asked = loading
      /\ loading.limit = limit /\ limit >= FetchLimit /\ Current' /\ Raised'
  BY <1>1, EndsKeeps
<1>3. TypeOK' BY <1>1, <1>2 DEF Ends, IInv, TypeOK
<1>4. Served' BY <1>1, <1>2 DEF Served
<1>5. SmallLimit' BY <1>1 DEF Ends, IInv, SmallLimit
<1>6. QED BY <1>2, <1>3, <1>4, <1>5 DEF IInv

LEMMA FailedKeeps == ASSUME IInv, Failed PROVE IInv'
<1> USE DEF IInv, Failed
<1>1. TypeOK' BY BoundsAssumption DEF TypeOK
<1>2. Current' BY DEF Current, Fatal
<1>3. QED BY <1>1, <1>2 DEF Served, Raised, SmallLimit

LEMMA NextKeeps == ASSUME IInv, [Next]_vars PROVE IInv'
<1>1. ASSUME NEW s \in Filters, Select(s) PROVE IInv' BY <1>1, SelectKeeps
<1>2. CASE DebounceFires BY <1>2, DebounceKeeps
<1>3. CASE ShowMore BY <1>3, ShowMoreKeeps
<1>4. CASE LoadMore BY <1>4, LoadMoreKeeps
<1>5. CASE Retry BY <1>5, RetryKeeps
<1>6. ASSUME NEW a \in Accounts, Switch(a) PROVE IInv' BY <1>6, SwitchKeeps
<1>7. CASE Answered BY <1>7, AnsweredKeeps
<1>8. CASE AnsweredError BY <1>8, AnsweredErrorKeeps
<1>9. CASE Failed BY <1>9, FailedKeeps
<1>10. CASE UNCHANGED vars
  BY <1>10 DEF vars, IInv, TypeOK, Current, Fatal, Served, Raised, SmallLimit
<1>11. QED BY <1>1, <1>2, <1>3, <1>4, <1>5, <1>6, <1>7, <1>8, <1>9, <1>10 DEF Next

-----------------------------------------------------------------------------
(* Theorems                                                                *)

\* The inductive invariant: what is in flight or at rest is of the debounced
\* filter, and a limit above the list's means that the list was cut.
THEOREM Invariant == Spec => []IInv
<1>1. Init => IInv BY InitIInv
<1>2. IInv /\ [Next]_vars => IInv' BY NextKeeps
<1>3. QED BY <1>1, <1>2, PTL DEF Spec

\* Types; the limit never falls below that of the first request.
THEOREM TypeCorrect == Spec => []TypeOK
<1>1. IInv => TypeOK BY DEF IInv
<1>2. QED BY <1>1, Invariant, PTL

\* A list at rest is that of the chip, the account and the limit on screen.
THEOREM ListRight == Spec => []ListIsOfItsFilter
<1>1. IInv => ListIsOfItsFilter BY DEF IInv, Current, ListIsOfItsFilter
<1>2. QED BY <1>1, Invariant, PTL

\* "Load more" brings rows until the server's cap.
THEOREM LoadMoreHelps == Spec => LoadMoreBringsRows
<1> DEFINE More ==
      data # Nothing /\ data' # data /\ errors' = {}
        /\ data'.asked.account = data.asked.account /\ data'.asked.of = data.asked.of
        /\ data'.asked.limit > data.asked.limit
      => data'.rows > data.rows \/ data.rows = ServerCap
<1>1. ASSUME IInv, [Next]_vars PROVE More \/ UNCHANGED vars
  <2> SUFFICES ASSUME data # Nothing, data' # data, errors' = {},
                      data'.asked.account = data.asked.account, data'.asked.of = data.asked.of,
                      data'.asked.limit > data.asked.limit
               PROVE  data'.rows > data.rows \/ data.rows = ServerCap
    OBVIOUS
  <2>1. Answered
    BY <1>1 DEF Next, vars, Select, DebounceFires, ShowMore, LoadMore, Retry, Switch, Load,
                AnsweredError, Failed
  <2>2. data \in Answer /\ loading \in Asked /\ data.asked \in Asked
    BY <1>1, <2>1 DEF IInv, TypeOK, Answered, Answer
  <2>3. data'.asked = loading /\ data'.rows = Rows(loading) BY <2>1 DEF Answered, Ends
  <2>4. loading.limit = limit /\ limit > data.asked.limit
    BY <1>1, <2>1, <2>3 DEF IInv, Current, Answered, Ask
  <2>5. /\ data.rows = Least(data.asked.limit, ServerCap)
        /\ data.rows < Total[data.asked.account][data.asked.of]
    BY <1>1, <2>4 DEF IInv, Raised
  <2>6. Total[data.asked.account][data.asked.of] \in Nat BY <2>2, RowsCut
  <2>7. data.asked.limit \in Nat /\ loading.limit \in Nat BY <2>2 DEF Asked
  <2>8. QED BY <2>3, <2>4, <2>5, <2>6, <2>7, SizesAssumption DEF Rows, Least
<1>2. IInv /\ [Next]_vars => [More]_vars BY <1>1
<1>3. QED BY <1>2, Invariant, PTL DEF Spec, LoadMoreBringsRows

\* No large request for a new filter, unless "Load more" came in between.
THEOREM StartsSmall == Spec => NewFilterStartsSmall
<1> DEFINE Small == debounced' # debounced => loading'.limit = FetchLimit \/ loadedMore
<1>1. ASSUME IInv, [Next]_vars, debounced' # debounced PROVE loading'.limit = FetchLimit \/ loadedMore
  <2>1. DebounceFires
    BY <1>1 DEF Next, vars, Select, ShowMore, LoadMore, Retry, Switch, Answered, AnsweredError,
                Ends, Failed
  <2>2. loading' = Ask(account, service, limit) BY <1>1, <2>1 DEF DebounceFires, Load
  <2>3. QED BY <1>1, <2>2 DEF IInv, SmallLimit, Ask
<1>2. IInv /\ [Next]_vars => [Small]_vars BY <1>1
<1>3. QED BY <1>2, Invariant, PTL DEF Spec, NewFilterStartsSmall

-----------------------------------------------------------------------------
(* The hook of the list is what useAsyncData promises                      *)

\* What the hook has, as AsyncData tells it: of which request, whether with an
\* error in its payload, and whether the last load failed.
Seen ==
  [data |-> IF data = Nothing THEN Nothing ELSE data.asked,
   kind |-> IF "backend" \in errors THEN "error" ELSE "figures",
   stale |-> FALSE,
   error |-> "error" \in errors]

\* The page depends on profile and period, on the debounced chip and on the
\* limit; it begins with the load of its mount.
Hook == INSTANCE AsyncData WITH
  Hooks   <- {"resources"},
  Keys    <- Asked,
  want    <- [h \in {"resources"} |-> Ask(account, debounced, limit)],
  loading <- [h \in {"resources"} |-> loading],
  view    <- [h \in {"resources"} |-> Seen]

\* The list knows no more than its hook's loads: chips, debounce, limits,
\* banners and failures move the hook as AsyncData lets it move.
ListIsAsync == [][Hook!Next]_(Hook!hookVars)

\* The one hook in a step that asks for k, loads l and shows v.
LEMMA HookBecomes ==
  ASSUME NEW k, NEW l, NEW v
  PROVE  Hook!Becomes("resources", k, l, v)
           <=> Ask(account', debounced', limit') = k /\ loading' = l /\ Seen' = v
BY DEF Hook!Becomes, Ask

\* An error that comes or goes, over the same answer.
LEMMA SeenWithError ==
  ASSUME NEW e, data' = data,
         ("backend" \in errors') = ("backend" \in errors), ("error" \in errors') = e
  PROVE  Seen' = [Seen EXCEPT !.error = e]
<1> DEFINE d == IF data = Nothing THEN Nothing ELSE data.asked
           k == IF "backend" \in errors THEN "error" ELSE "figures"
           s == FALSE
           f == "error" \in errors
<1>1. Seen = [data |-> d, kind |-> k, stale |-> s, error |-> f]
  BY DEF Seen
<1>2. Seen' = [data |-> d, kind |-> k, stale |-> s, error |-> e]
  BY Zenon DEF Seen
<1> HIDE DEF d, k, s, f
<1>3. QED
  BY <1>1, <1>2

\* An effect: another request in place of the one in flight.
LEMMA HookStarts ==
  ASSUME IInv', loading' = Ask(account', debounced', limit'), loading' # Nothing,
         data' = data, errors' = errors \ {"error"}
  PROVE  Hook!Starts("resources")
<1>1. Ask(account', debounced', limit') \in Asked
  BY DEF IInv, TypeOK, Ask, Asked
<1>2. Seen' = [Seen EXCEPT !.error = FALSE]
  <2>1. ("backend" \in errors') = ("backend" \in errors) /\ ("error" \in errors') = FALSE
    OBVIOUS
  <2>2. QED
    BY <2>1, SeenWithError
<1>3. QED
  BY <1>1, <1>2, HookBecomes DEF Hook!Starts

\* An end: the answer to what was asked, or the failure over what there is.
LEMMA HookEnds ==
  ASSUME loading # Nothing, loading' = Nothing,
         UNCHANGED <<account, debounced, limit>>,
         Seen' \in Hook!Outcomes(loading, Seen)
  PROVE  Hook!Ends("resources")
BY HookBecomes DEF Hook!Ends

LEMMA HookStays ==
  ASSUME UNCHANGED <<account, debounced, limit, loading, data, errors>>
  PROVE  Hook!Stays("resources")
<1>1. Seen' = Seen
  BY DEF Seen
<1>2. QED
  BY <1>1, HookBecomes DEF Hook!Stays

LEMMA HookAnswers ==
  ASSUME IInv, loading # Nothing, data' # Nothing, data'.asked = loading,
         errors' = {} \/ errors' = {"backend"}
  PROVE  Seen' \in Hook!Outcomes(loading, Seen)
<1> DEFINE kind == IF errors' = {} THEN "figures" ELSE "error"
<1>1. /\ ("error" \in errors') = FALSE
      /\ (IF "backend" \in errors' THEN "error" ELSE "figures") = kind
  OBVIOUS
<1>2. Seen' = Hook!Shown(loading, kind, FALSE)
  BY <1>1, Zenon DEF Seen, Hook!Shown
<1>3. kind \in {"figures", "error", "warming"}
  OBVIOUS
<1>4. QED
  BY <1>2, <1>3 DEF Hook!Outcomes

LEMMA HookNext == IInv /\ [Next]_vars => Hook!Next
<1> SUFFICES ASSUME IInv, [Next]_vars
             PROVE  \/ Hook!Starts("resources") \/ Hook!Ends("resources")
                    \/ Hook!Stays("resources")
  BY DEF Hook!Next
<1>0. IInv' BY NextKeeps
<1>1. ASSUME NEW ask, Load(ask), ask = Ask(account', debounced', limit')
      PROVE  Hook!Starts("resources")
  <2>1. ask # Nothing
    BY <1>0, <1>1, AskType DEF IInv, TypeOK
  <2>2. QED
    BY <1>0, <1>1, <2>1, HookStarts DEF Load
<1>2. ASSUME NEW s \in Filters, Select(s)
      PROVE  Hook!Starts("resources") \/ Hook!Stays("resources")
  <2>1. CASE limit # FetchLimit
    BY <1>1, <1>2, <2>1 DEF Select
  <2>2. CASE limit = FetchLimit
    BY <1>2, <2>2, HookStays DEF Select
  <2>3. QED
    BY <2>1, <2>2
<1>3. CASE DebounceFires
  <2>1. CASE service # debounced
    BY <1>1, <1>3, <2>1 DEF DebounceFires
  <2>2. CASE service = debounced
    BY <1>3, <2>2, HookStays DEF DebounceFires
  <2>3. QED
    BY <2>1, <2>2
<1>4. CASE ShowMore
  BY <1>4, HookStays DEF ShowMore
<1>5. CASE LoadMore
  BY <1>1, <1>5 DEF LoadMore
<1>6. CASE Retry
  BY <1>1, <1>6 DEF Retry
<1>7. ASSUME NEW a \in Accounts, Switch(a) PROVE Hook!Starts("resources")
  BY <1>1, <1>7 DEF Switch
<1>8. CASE Answered \/ AnsweredError
  <2>1. /\ loading # Nothing /\ loading' = Nothing /\ UNCHANGED <<account, debounced, limit>>
        /\ data'.asked = loading /\ (errors' = {} \/ errors' = {"backend"})
    BY <1>8 DEF Answered, AnsweredError, Ends
  <2>2. data' # Nothing
    <3>1. loading \in Asked
      BY <2>1 DEF IInv, TypeOK
    <3>2. Rows(loading) \in Nat /\ Total[loading.account][loading.of] \in Nat
      BY <3>1, RowsCut
    <3>3. data' \in Answer
      BY <1>8, <3>1, <3>2 DEF Answered, AnsweredError, Ends, Answer
    <3>4. QED
      BY <3>3, NothingAssumption
  <2>3. QED
    BY <2>1, <2>2, HookAnswers, HookEnds
<1>9. CASE Failed
  <2>1. /\ ("backend" \in errors') = ("backend" \in errors) /\ ("error" \in errors') = TRUE
        /\ data' = data
    BY <1>9 DEF Failed
  <2>2. Seen' \in Hook!Outcomes(loading, Seen)
    BY <2>1, SeenWithError DEF Hook!Outcomes
  <2>3. QED
    BY <1>9, <2>2, HookEnds DEF Failed
<1>10. CASE UNCHANGED vars
  BY <1>10, HookStays DEF vars
<1>11. QED
  BY <1>2, <1>3, <1>4, <1>5, <1>6, <1>7, <1>8, <1>9, <1>10 DEF Next

\* What the page of resources is shown to do rests on no more than what the
\* data layer keeps: no answer but that of the last request changes the list.
THEOREM ListUsesHook == Spec => ListIsAsync
<1>1. IInv /\ [Next]_vars => [Hook!Next]_(Hook!hookVars)
  BY HookNext
<1>2. QED
  BY <1>1, Invariant, PTL DEF Spec, ListIsAsync
=============================================================================

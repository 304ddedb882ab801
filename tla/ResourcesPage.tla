---------------------------- MODULE ResourcesPage ----------------------------
(***************************************************************************)
(* The resources page (ResourcesPage in App.jsx): a list that is filtered  *)
(* by service behind a debounce, fetched up to a limit that "Load more"    *)
(* raises, and cut by the server at a cap of its own.  An answer is        *)
(* reduced to what was asked and to how many rows it brought of how many.  *)
(* The hook is useAsyncData: a new load replaces the one in flight.        *)
(***************************************************************************)
EXTENDS Integers

CONSTANTS
  Accounts,    \* pairs of profile and period the bar may choose
  Filters,     \* services with a chip, and All
  All,         \* the chip "All services", service = ""
  Total,       \* [Accounts -> [Filters -> Nat]]: rows the server has, total_count
  FetchLimit,  \* RESOURCE_FETCH_LIMIT
  PageSize,    \* RESOURCE_PAGE_SIZE
  ServerCap,   \* _MAX_ROW_CAP
  Nothing,
  MaxMoves, MaxFaults   \* bounds on the user's moves and on failed loads

ASSUME FiltersAssumption == All \in Filters /\ Total \in [Accounts -> [Filters -> Nat]]
ASSUME SizesAssumption ==
  /\ FetchLimit \in Nat \ {0} /\ PageSize \in Nat \ {0} /\ ServerCap \in Nat \ {0}
ASSUME BoundsAssumption == MaxMoves \in Nat /\ MaxFaults \in Nat

Asked  == [account: Accounts, of: Filters, limit: Nat]
Answer == [asked: Asked, rows: Nat, total: Nat]

ASSUME NothingAssumption == Nothing \notin Asked \cup Answer

VARIABLES
  account,    \* profile and period of the shell
  service,    \* the chip that is on
  debounced,  \* debouncedService
  timer,      \* the debounce timer is armed
  limit, visible,
  data,       \* the answer the list renders
  loading,    \* what the load in flight asks for
  errors,     \* of the hook: "error", "backend"
  loadedMore, \* "Load more" was pressed since a chip was last
  moves, faults

vars == <<account, service, debounced, timer, limit, visible, data, loading, errors,
          loadedMore, moves, faults>>

TypeOK ==
  /\ account \in Accounts
  /\ service \in Filters /\ debounced \in Filters
  /\ timer \in BOOLEAN
  /\ limit \in Nat /\ limit >= FetchLimit /\ visible \in Nat
  /\ data \in Answer \cup {Nothing}
  /\ loading \in Asked \cup {Nothing}
  /\ errors \in SUBSET {"error", "backend"}
  /\ loadedMore \in BOOLEAN
  /\ moves \in 0..MaxMoves /\ faults \in 0..MaxFaults

Ask(a, f, l) == [account |-> a, of |-> f, limit |-> l]

Init ==
  /\ account \in Accounts
  /\ service = All /\ debounced = All
  /\ timer = TRUE
  /\ limit = FetchLimit /\ visible = PageSize
  /\ data = Nothing
  /\ loading = Ask(account, All, FetchLimit)
  /\ errors = {}
  /\ loadedMore = FALSE
  /\ moves = 0 /\ faults = 0

-----------------------------------------------------------------------------
(* What is on screen                                                       *)

\* A failed read shows its banner and nothing else.
Fatal == errors # {}

\* "All services", and the services of the answer.
Chips == IF data = Nothing THEN {All} ELSE Filters

List == ~Fatal /\ loading = Nothing /\ data # Nothing /\ data.rows > 0

-----------------------------------------------------------------------------
(* Loads                                                                   *)

\* The effect of useAsyncData: aborts the load before; an error of the
\* payload stays until the next answer.
Load(ask) == loading' = ask /\ errors' = errors \ {"error"} /\ UNCHANGED <<data, faults>>

Least(m, n) == IF m < n THEN m ELSE n

\* Rows of an answer: _apply_row_cap of those of the filter.
Rows(ask) == Least(Least(ask.limit, ServerCap), Total[ask.account][ask.of])

Ends(rows, total) ==
  /\ loading # Nothing
  /\ loading' = Nothing
  /\ data' = [asked |-> loading, rows |-> rows, total |-> total]
  /\ UNCHANGED <<account, service, debounced, timer, limit, visible, loadedMore, moves>>

Answered ==
  /\ loading # Nothing
  /\ Ends(Rows(loading), Total[loading.account][loading.of])
  /\ errors' = {} /\ UNCHANGED faults

\* A 200 whose payload carries an error and no rows.
AnsweredError ==
  /\ faults < MaxFaults /\ faults' = faults + 1
  /\ Ends(0, 0) /\ errors' = {"backend"}

\* The server is not reached and the browser has no copy; the hook keeps its data.
Failed ==
  /\ loading # Nothing /\ faults < MaxFaults
  /\ loading' = Nothing /\ errors' = errors \cup {"error"} /\ faults' = faults + 1
  /\ UNCHANGED <<account, service, debounced, timer, limit, visible, data, loadedMore, moves>>

-----------------------------------------------------------------------------
(* The user and the timer                                                  *)

Move == moves < MaxMoves /\ moves' = moves + 1

\* Mutant: the limit is left to an effect that runs after the fetch.
SelectLimitLater(s) ==
  /\ Move /\ ~Fatal
  /\ s \in Chips
  /\ service' = s /\ visible' = PageSize /\ loadedMore' = FALSE
  /\ timer' = (timer \/ s # service)
  /\ UNCHANGED <<account, debounced, limit, data, loading, errors, faults>>

\* Mutant: a chip pressed while the timer runs disarms it.
SelectDisarms(s) ==
  /\ Move /\ ~Fatal
  /\ s \in Chips
  /\ service' = s /\ limit' = FetchLimit /\ visible' = PageSize /\ loadedMore' = FALSE
  /\ timer' = (~timer /\ s # service)
  /\ IF limit # FetchLimit THEN Load(Ask(account, debounced, FetchLimit))
     ELSE UNCHANGED <<data, loading, errors, faults>>
  /\ UNCHANGED <<account, debounced>>

\* selectService: a chip, "All services" before there is an answer; the timer
\* starts again, and a limit that was raised falls at once, which loads the
\* old filter again.
Select(s) ==
  /\ Move /\ ~Fatal
  /\ s \in Chips
  /\ service' = s /\ limit' = FetchLimit /\ visible' = PageSize /\ loadedMore' = FALSE
  /\ timer' = (timer \/ s # service)
  /\ IF limit # FetchLimit THEN Load(Ask(account, debounced, FetchLimit))
     ELSE UNCHANGED <<data, loading, errors, faults>>
  /\ UNCHANGED <<account, debounced>>

DebounceFires ==
  /\ timer /\ timer' = FALSE
  /\ debounced' = service
  /\ IF service # debounced
     THEN visible' = PageSize /\ Load(Ask(account, service, limit))
     ELSE UNCHANGED <<visible, data, loading, errors, faults>>
  /\ UNCHANGED <<account, service, limit, loadedMore, moves>>

ShowMore ==
  /\ Move /\ List /\ visible < data.rows
  /\ visible' = visible + PageSize
  /\ UNCHANGED <<account, service, debounced, timer, limit, data, loading, errors, loadedMore, faults>>

\* Mutant: the fetch does not depend on the limit.
LoadMoreInPlace ==
  /\ Move /\ List /\ visible >= data.rows /\ data.total > data.rows
  /\ limit' = limit + FetchLimit /\ loadedMore' = TRUE
  /\ UNCHANGED <<account, service, debounced, timer, visible, data, loading, errors, faults>>

\* Mutant: the button does not compare with the total.
LoadMoreAlways ==
  /\ Move /\ List /\ visible >= data.rows
  /\ limit' = limit + FetchLimit /\ loadedMore' = TRUE
  /\ Load(Ask(account, debounced, limit + FetchLimit))
  /\ UNCHANGED <<account, service, debounced, timer, visible>>

\* "Load more from server": the filter the list has, with a higher limit.
LoadMore ==
  /\ Move /\ List /\ visible >= data.rows /\ data.total > data.rows
  /\ limit' = limit + FetchLimit /\ loadedMore' = TRUE
  /\ Load(Ask(account, debounced, limit + FetchLimit))
  /\ UNCHANGED <<account, service, debounced, timer, visible>>

\* Of the banner in place of the list, or of the one over it when the answer
\* has warnings, as any answer may.
Retry ==
  /\ Move /\ (Fatal \/ data # Nothing)
  /\ Load(Ask(account, debounced, limit))
  /\ UNCHANGED <<account, service, debounced, timer, limit, visible, loadedMore>>

\* Another profile or period: filter and limit stay.
Switch(a) ==
  /\ Move /\ a # account
  /\ account' = a
  /\ Load(Ask(a, debounced, limit))
  /\ UNCHANGED <<service, debounced, timer, limit, visible, loadedMore>>

-----------------------------------------------------------------------------
Next ==
  \/ \E s \in Filters : Select(s)
  \/ DebounceFires \/ ShowMore \/ LoadMore \/ Retry
  \/ \E a \in Accounts : Switch(a)
  \/ Answered \/ AnsweredError \/ Failed

Spec == Init /\ [][Next]_vars

\* The timer fires and a load is answered in the end (failures are finitely
\* many); the user owes nothing.
FairSpec == Spec /\ WF_vars(DebounceFires) /\ WF_vars(Answered)

-----------------------------------------------------------------------------
(* Properties                                                              *)

\* A list at rest is that of the chip that is on, of the profile and period
\* on screen and of the limit reached, whatever was pressed, switched and
\* failed before.  (For the 300 ms of the debounce it is the old filter's, and
\* the row of unattributed charges under it goes by the new one.)
ListIsOfItsFilter ==
  ~timer /\ loading = Nothing /\ ~Fatal => data.asked = Ask(account, service, limit)

\* "Load more" brings more: when an answer of the same list with a higher
\* limit comes in, it has more rows, unless the server's cap was reached.
\* (There the button stays, and brings nothing.)
LoadMoreBringsRows ==
  [][/\ data # Nothing /\ data' # data /\ errors' = {}
     /\ data'.asked.account = data.asked.account /\ data'.asked.of = data.asked.of
     /\ data'.asked.limit > data.asked.limit
     => data'.rows > data.rows \/ data.rows = ServerCap]_vars

\* "Avoids firing a wasted large-limit request for the new filter": the first
\* load of a new filter has the base limit, unless "Load more" was pressed
\* between the chip and the debounce.
NewFilterStartsSmall ==
  [][debounced' # debounced => loading'.limit = FetchLimit \/ loadedMore]_vars

\* A chip that stays on gets its list, or the page a banner.
FilterArrives ==
  \A s \in Filters :
    (service = s) ~> (service # s \/ Fatal \/ (data # Nothing /\ data.asked.of = s))
=============================================================================

------------------------------ MODULE AsyncData ------------------------------
(***************************************************************************)
(* What useAsyncData promises the component that calls it (hooks/          *)
(* useAsyncData.js).  A hook asks for a key; it shows nothing but the      *)
(* outcomes of its own loads, each under the key it was started with, and  *)
(* of those only that of the last one started: no answer to a load before  *)
(* it, or to a load of a page that was left, ever changes what is shown.   *)
(*                                                                         *)
(* DashboardData implements this with aborts, localStorage and a server    *)
(* that fails.  DashboardPages, whose hooks are taken to be no more than   *)
(* this, implements it too: what the pages are shown to do rests on        *)
(* nothing that the data layer does not give them.                         *)
(***************************************************************************)
CONSTANTS
  Hooks,
  Keys,      \* what a hook may ask for
  Nothing    \* no key

VARIABLES
  want,      \* the key each hook asks for; Nothing: not mounted
  loading,   \* the key of the load in flight, or Nothing
  view       \* what each hook shows: of which key, of what kind, how old, and
             \* whether the last load failed

hookVars == <<want, loading, view>>

Shown(k, kind, stale) == [data |-> k, kind |-> kind, stale |-> stale, error |-> FALSE]
Mounting == Shown(Nothing, "figures", FALSE)

Init ==
  /\ want = [h \in Hooks |-> Nothing]
  /\ loading = [h \in Hooks |-> Nothing]
  /\ view = [h \in Hooks |-> Mounting]

\* What a load of k may leave, over v: figures, an {error} payload or a
\* {warming} placeholder; the figures of a cache; or the error over v.
Outcomes(k, v) ==
  {Shown(k, kind, FALSE) : kind \in {"figures", "error", "warming"}}
  \cup {Shown(k, "figures", TRUE), [v EXCEPT !.error = TRUE]}

Becomes(h, k, l, v) == want'[h] = k /\ loading'[h] = l /\ view'[h] = v

\* A render with other dependencies, whose effect has not run.
Changes(h) == \E k \in Keys : Becomes(h, k, loading[h], view[h])

\* The effect of a mount, of a change or of reload(): a load, in place of the
\* one before.  What is shown stays on.
Starts(h) == \E k \in Keys : Becomes(h, k, k, [view[h] EXCEPT !.error = FALSE])

Ends(h) ==
  /\ loading[h] # Nothing
  /\ \E v \in Outcomes(loading[h], view[h]) : Becomes(h, want[h], Nothing, v)

\* The hook's page is left, or the app is loaded again.
Leaves(h) == Becomes(h, Nothing, Nothing, Mounting)

Stays(h) == Becomes(h, want[h], loading[h], view[h])

\* A commit of the app is a step of several hooks.
Next == \A h \in Hooks : Changes(h) \/ Starts(h) \/ Ends(h) \/ Leaves(h) \/ Stays(h)

Spec == Init /\ [][Next]_hookVars
=============================================================================

------------------------------ MODULE AppShell ------------------------------
(***************************************************************************)
(* The shell of the dashboard (App in App.jsx): which page, profile and    *)
(* period are shown, kept in React state, in the query of the URL with the *)
(* browser's history, and in localStorage, and snapped onto what the       *)
(* backend offers.                                                         *)
(*                                                                         *)
(* React 18 commits the update of a click, a select or a popstate at once, *)
(* with its effects; those of an update made by an effect (the snap) run   *)
(* later, and before the next event's update.  The actions here say what   *)
(* becomes of the shell's variables; DashboardPages joins to each what the *)
(* hooks of the pages do in the same commit.                               *)
(***************************************************************************)
EXTENDS Integers, Sequences

CONSTANTS
  Pages,            \* the keys of TITLES
  Profiles,         \* profile names that a URL or localStorage may hold
  Offered,          \* context.profiles
  FirstProfile,     \* validProfiles[0]
  Periods,          \* periods that a URL or localStorage may hold
  OfferedPeriods,   \* values of context.periods
  FirstPeriod,      \* validPeriods[0]
  NoValue,          \* a parameter or an item that is not there
  Bogus,            \* a page the URL names and TITLES does not have
  FirstOpens,       \* what the address bar and localStorage may hold at first
  MaxMoves          \* bound on the user's moves

ASSUME OfferAssumption ==
  /\ FirstProfile \in Offered /\ Offered \subseteq Profiles
  /\ FirstPeriod \in OfferedPeriods /\ OfferedPeriods \subseteq Periods
ASSUME NamesAssumption ==
  /\ "dashboard" \in Pages /\ "default" \in Profiles /\ "mtd" \in Periods
  /\ NoValue \notin Pages \cup Profiles \cup Periods /\ Bogus \notin Pages
  /\ Bogus # NoValue

State == [page: Pages, profile: Profiles, period: Periods]
Url   == [page: Pages \cup {NoValue, Bogus}, profile: Profiles \cup {NoValue},
          period: Periods \cup {NoValue}]

Saved == [profile: Profiles \cup {NoValue}, period: Periods \cup {NoValue}]

ASSUME OpensAssumption == FirstOpens \subseteq [url: Url, saved: Saved]
ASSUME MovesAssumption == MaxMoves \in Nat

VARIABLES
  ui,       \* page, profile and period of the render on screen
  hist,     \* the entries of the tab's history
  at,       \* the entry the address bar shows
  saved,    \* acu:profile and acu:period of localStorage
  pending,  \* whose effects are still to run: "no", "first" (the mount), "snap"
  moves

shellVars == <<ui, hist, at, saved, pending, moves>>

ShellTypeOK ==
  /\ ui \in State
  /\ hist \in Seq(Url) /\ at \in 1..Len(hist)
  /\ saved \in Saved
  /\ pending \in {"no", "first", "snap"}
  /\ moves \in 0..MaxMoves

\* The first of two values that is there, as `||` picks it.
Or(x, y) == IF x # NoValue THEN x ELSE y

\* Mutant: the page of the URL is taken as it is.
OpenedAsIs(url, store) ==
  [page    |-> Or(url.page, "dashboard"),
   profile |-> Or(url.profile, Or(store.profile, "default")),
   period  |-> Or(url.period, Or(store.period, "mtd"))]

\* The state the app is mounted with: the URL's, or what was saved, or the
\* defaults; a page that does not exist is the dashboard.
Opened(url, store) ==
  [page    |-> IF url.page \in Pages THEN url.page ELSE "dashboard",
   profile |-> Or(url.profile, Or(store.profile, "default")),
   period  |-> Or(url.period, Or(store.period, "mtd"))]

ShellInit ==
  /\ \E o \in FirstOpens : hist = <<o.url>> /\ saved = o.saved /\ ui = Opened(o.url, o.saved)
  /\ at = 1
  /\ pending = "first"
  /\ moves = 0

-----------------------------------------------------------------------------
(* The URL                                                                 *)

\* Mutant: every change is pushed, dropdowns too.
UrlEffectPushed(b, u) ==
  IF b.hist[b.at] # u
  THEN [hist |-> Append(SubSeq(b.hist, 1, b.at), u), at |-> b.at + 1]
  ELSE b

\* Mutant: the effect depends on the page only.
UrlEffectOfPage(b, u) ==
  IF b.hist[b.at].page \notin {NoValue, u.page}
  THEN [hist |-> Append(SubSeq(b.hist, 1, b.at), u), at |-> b.at + 1]
  ELSE b

\* The effect that keeps the URL shareable: a page change is pushed, which
\* drops the entries ahead, and anything else replaces the entry.
UrlEffect(b, u) ==
  IF b.hist[b.at].page \notin {NoValue, u.page}
  THEN [hist |-> Append(SubSeq(b.hist, 1, b.at), u), at |-> b.at + 1]
  ELSE [b EXCEPT !.hist = [b.hist EXCEPT ![b.at] = u]]

\* Effects of a commit that waits, then those of a commit of u: each runs if
\* something it depends on has changed.  i is where the address bar is now.
AfterEffects(i, u) ==
  LET bar == [hist |-> hist, at |-> i]
      first == IF pending # "no" THEN UrlEffect(bar, ui) ELSE bar
  IN IF u # ui THEN UrlEffect(first, u) ELSE first

\* A commit of u with its effects.
Commit(i, u) ==
  /\ ui' = u
  /\ hist' = AfterEffects(i, u).hist /\ at' = AfterEffects(i, u).at
  /\ saved' = [profile |-> u.profile, period |-> u.period]
  /\ pending' = "no"

\* The effects of a mount, which set up the listeners, run before the user's
\* first move.
Move == pending # "first" /\ moves < MaxMoves /\ moves' = moves + 1

-----------------------------------------------------------------------------
(* The user                                                                *)

\* A button of the rail, or of the sheet on narrow screens.
GoTo(p) == Move /\ p # ui.page /\ Commit(at, [ui EXCEPT !.page = p])

\* The selects of the bar offer what the context has brought.
ChooseProfile(x) == Move /\ x # ui.profile /\ Commit(at, [ui EXCEPT !.profile = x])
ChoosePeriod(x) == Move /\ x # ui.period /\ Commit(at, [ui EXCEPT !.period = x])

\* Back or Forward: onPop takes from the entry what is there and valid.
Pop(i) ==
  /\ Move /\ i \in {at - 1, at + 1} \cap 1..Len(hist)
  /\ Commit(i, [page    |-> IF hist[i].page \in Pages THEN hist[i].page ELSE ui.page,
                profile |-> Or(hist[i].profile, ui.profile),
                period  |-> Or(hist[i].period, ui.period)])

\* The tab is loaded again at its address.
Reopen ==
  /\ Move
  /\ ui' = Opened(hist[at], saved)
  /\ pending' = "first"
  /\ UNCHANGED <<hist, at, saved>>

-----------------------------------------------------------------------------
(* The shell's own steps                                                   *)

RunEffects ==
  /\ pending # "no"
  /\ Commit(at, ui)
  /\ UNCHANGED moves

OnOffer(u) == u.profile \in Offered /\ u.period \in OfferedPeriods

\* Mutant: the profile is read from a key the context does not have.
SnappedPeriod(u) == [u EXCEPT !.period = IF @ \in OfferedPeriods THEN @ ELSE FirstPeriod]

Snapped(u) ==
  [u EXCEPT !.profile = IF @ \in Offered THEN @ ELSE FirstProfile,
            !.period  = IF @ \in OfferedPeriods THEN @ ELSE FirstPeriod]

\* The effect that snaps an unknown profile or period onto one the backend
\* offers, and the commit of what it set.
Snap ==
  /\ pending = "no" /\ ~OnOffer(ui)
  /\ ui' = Snapped(ui)
  /\ pending' = "snap"
  /\ UNCHANGED <<hist, at, saved, moves>>

-----------------------------------------------------------------------------
(* Properties                                                              *)

\* "Keep the URL shareable": whatever the user did, with Back, dropdowns and
\* snaps in any order, the address bar tells the page, profile and period on
\* screen, unless it names a page that does not exist.
UrlTellsState == pending = "no" => hist[at].page = Bogus \/ hist[at] = ui

\* "pushState for page changes so Back navigates pages, not every dropdown
\* touch": two entries in a row are never of one page.
BackNavigatesPages == \A i \in 1..Len(hist) - 1 : hist[i].page # hist[i + 1].page
=============================================================================

--------------------------- MODULE DashboardPages ---------------------------
(***************************************************************************)
(* The pages of the dashboard (App.jsx) under its shell: which hooks a     *)
(* page mounts, what they load when page, profile or period change, what   *)
(* each panel shows of them, the banners with their Retry, the warming     *)
(* poll, the export and the cue line.                                      *)
(*                                                                         *)
(* A hook is what DashboardData shows it to be: it is busy with the load   *)
(* of its last effect and keeps what it showed before.  A payload is       *)
(* reduced to the dependencies it was asked with and its kind.             *)
(***************************************************************************)
EXTENDS AppShell

CONSTANTS
  Followed,         \* the hooks an instance follows
  Nothing,
  MaxFaults, MaxWarmings   \* bounds on failures and on answers "warming"

ASSUME LimitsAssumption == MaxFaults \in Nat /\ MaxWarmings \in Nat

VARIABLES
  view,        \* what each hook has to show
  busy,        \* hooks with a load in flight
  ran,         \* dependencies of each hook's last effect
  compNeeded,  \* a row of the services page has been opened
  cue,         \* kind of the cue line
  running,     \* an export of the export page on screen is being made
  others,      \* exports whose page has been left
  faults, warmings

pageVars == <<view, busy, ran, compNeeded, cue, running, others, faults, warmings>>
vars == <<shellVars, pageVars>>

DashboardHooks == {"summary", "services", "trend", "top"}
ServicesHooks  == {"list", "composition"}
ResourcesHooks == {"resources"}
AuditHooks     == {"audit", "budgets"}

AllPageHooks == [dashboard |-> DashboardHooks, services |-> ServicesHooks,
                 resources |-> ResourcesHooks, audit |-> AuditHooks, export |-> {}]
PageHooks == [p \in DOMAIN AllPageHooks |-> AllPageHooks[p] \cap Followed]
Hooks == {"context"} \cup UNION {PageHooks[p] : p \in DOMAIN PageHooks}

ASSUME PagesAssumption == Pages = DOMAIN AllPageHooks

\* The hooks whose loads the actions themselves look at; an instance may leave
\* out the others.
ASSUME FollowedAssumption ==
  {"summary", "top", "list", "composition", "resources", "audit"} \subseteq Followed
ASSUME NothingAssumption == Nothing \notin (Profiles \X Periods) \cup (Profiles \X {"any"})

\* Dependencies: audit and budgets do not depend on the period.
Deps == (Profiles \X Periods) \cup (Profiles \X {"any"})
DepsOf(h, u) == IF h \in {"audit", "budgets"} THEN <<u.profile, "any">> ELSE <<u.profile, u.period>>

View == [data: Deps \cup {Nothing}, kind: {"figures", "error", "warming"},
         stale: BOOLEAN, error: BOOLEAN]
Mounting == [data |-> Nothing, kind |-> "figures", stale |-> FALSE, error |-> FALSE]

Cues == {"ready", "working", "stale", "fault"}

TypeOK ==
  /\ ShellTypeOK
  /\ view \in [Hooks -> View]
  /\ busy \in SUBSET Hooks
  /\ ran \in [Hooks -> Deps \cup {Nothing}]
  /\ compNeeded \in BOOLEAN
  /\ cue \in Cues
  /\ running \in BOOLEAN /\ others \in 0..MaxMoves
  /\ faults \in 0..MaxFaults /\ warmings \in 0..MaxWarmings

Unloaded ==
  /\ view = [h \in Hooks |-> Mounting]
  /\ busy = {}
  /\ ran = [h \in Hooks |-> Nothing]
  /\ compNeeded = FALSE
  /\ cue = "ready"
  /\ running = FALSE /\ others = 0

Init == ShellInit /\ Unloaded /\ faults = 0 /\ warmings = 0

-----------------------------------------------------------------------------
(* Commits: what the hooks do when the shell renders u                     *)

\* Hooks mounted in u; the services page does not load its composition
\* before a row is opened.
Mounted(u, comp) == {"context"} \cup (PageHooks[u.page] \ IF comp THEN {} ELSE {"composition"})

Stays(u) == u.page = ui.page
CompNeeded(u) == compNeeded /\ Stays(u)

\* Hooks whose effect runs: mounted by this commit, or with dependencies that
\* differ from those of its last effect, or differed in a commit before.
Starting(u) ==
  {h \in Mounted(u, CompNeeded(u)) :
     \/ h # "context" /\ ~Stays(u)
     \/ ran[h] # DepsOf(h, u)
     \/ pending # "no" /\ ran[h] # DepsOf(h, ui)}

\* usePageCues: which hooks it watches, and what it has to say of them.
CueHooks(p) == PageHooks[p] \ {"composition"}

Outcome(v, p) ==
  IF \E h \in CueHooks(p) : v[h].error \/ v[h].kind = "error" THEN "fault"
  ELSE IF \E h \in CueHooks(p) : v[h].stale THEN "stale" ELSE "ready"

\* After the handler has announced c: the effect of usePageCues runs if
\* `where` has changed, and speaks unless the render it belongs to is loading.
CueAfter(c, u) ==
  IF /\ Stays(u) /\ pending # "first"
     /\ CueHooks(u.page) \cap Starting(u) # {}
     /\ CueHooks(u.page) \cap busy = {}
  THEN Outcome(view, u.page) ELSE c

\* Mutant: the dashboard's effects do not depend on the period.
PagesCommitProfile(c, u) ==
  LET start == {h \in Starting(u) : ~Stays(u) \/ ran[h] = Nothing \/ ran[h][1] # u.profile}
      kept  == {"context"} \cup (IF Stays(u) THEN Hooks ELSE {})
  IN /\ view' = [h \in Hooks |-> IF h \in kept
                                 THEN IF h \in start THEN [view[h] EXCEPT !.error = FALSE] ELSE view[h]
                                 ELSE Mounting]
     /\ busy' = (busy \cap kept) \cup start
     /\ ran' = [h \in Hooks |-> IF h \in Mounted(u, CompNeeded(u)) THEN DepsOf(h, u) ELSE Nothing]
     /\ compNeeded' = CompNeeded(u)
     /\ cue' = CueAfter(c, u)
     /\ running' = (running /\ Stays(u))
     /\ others' = IF running /\ ~Stays(u) THEN others + 1 ELSE others
     /\ UNCHANGED <<faults, warmings>>

\* What a commit of u, before which c was announced, does to the page: hooks
\* of a page left are gone, with the loads they had; those whose effect runs
\* load, and keep what they show.
PagesCommit(c, u) ==
  LET start == Starting(u)
      kept  == {"context"} \cup (IF Stays(u) THEN Hooks ELSE {})
  IN /\ view' = [h \in Hooks |-> IF h \in kept
                                 THEN IF h \in start THEN [view[h] EXCEPT !.error = FALSE] ELSE view[h]
                                 ELSE Mounting]
     /\ busy' = (busy \cap kept) \cup start
     /\ ran' = [h \in Hooks |-> IF h \in Mounted(u, CompNeeded(u)) THEN DepsOf(h, u) ELSE Nothing]
     /\ compNeeded' = CompNeeded(u)
     /\ cue' = CueAfter(c, u)
     /\ running' = (running /\ Stays(u))
     /\ others' = IF running /\ ~Stays(u) THEN others + 1 ELSE others
     /\ UNCHANGED <<faults, warmings>>

HasContext == view["context"].data # Nothing

Navigate(p) == GoTo(p) /\ PagesCommit(cue, ui')

PickProfile(x) ==
  /\ HasContext /\ x \in Offered
  /\ ChooseProfile(x) /\ PagesCommit("working", ui')

PickPeriod(x) ==
  /\ HasContext /\ x \in OfferedPeriods
  /\ ChoosePeriod(x) /\ PagesCommit("working", ui')

Travel(i) == Pop(i) /\ PagesCommit(cue, ui')

\* The effects of the mount, or of the commit of a snap.
FlushEffects == RunEffects /\ PagesCommit(cue, ui)

SnapToOffer == HasContext /\ Snap /\ UNCHANGED pageVars

Reload ==
  /\ Reopen
  /\ view' = [h \in Hooks |-> Mounting]
  /\ busy' = {}
  /\ ran' = [h \in Hooks |-> Nothing]
  /\ compNeeded' = FALSE
  /\ cue' = "ready"
  /\ running' = FALSE /\ others' = 0
  /\ UNCHANGED <<faults, warmings>>

-----------------------------------------------------------------------------
(* Loads                                                                   *)

Ends(h, v) ==
  /\ h \in busy
  /\ view' = [view EXCEPT ![h] = v]
  /\ busy' = busy \ {h}
  /\ cue' = IF h \in CueHooks(ui.page) /\ CueHooks(ui.page) \cap busy \subseteq {h}
            THEN Outcome(view', ui.page) ELSE cue
  /\ UNCHANGED <<shellVars, ran, compNeeded, running, others>>

\* Mutant: an answer counts as one to what is on screen when it comes.
PayloadOfNow(h, kind, stale) ==
  [data |-> DepsOf(h, ui), kind |-> kind, stale |-> stale, error |-> FALSE]

Payload(h, kind, stale) == [data |-> ran[h], kind |-> kind, stale |-> stale, error |-> FALSE]

Fault == faults < MaxFaults /\ faults' = faults + 1 /\ UNCHANGED warmings

Answer(h) == Ends(h, Payload(h, "figures", FALSE)) /\ UNCHANGED <<faults, warmings>>

\* A 200 with an error in it; the context has none.
AnswerError(h) == h # "context" /\ Fault /\ Ends(h, Payload(h, "error", FALSE))

\* The server is not reached: cached figures, or the error over what is there.
AnswerStale(h) == Fault /\ Ends(h, Payload(h, "figures", TRUE))
AnswerFails(h) == Fault /\ Ends(h, [view[h] EXCEPT !.error = TRUE])

\* The placeholder of /top/data.
AnswerWarming ==
  /\ warmings < MaxWarmings /\ warmings' = warmings + 1
  /\ Ends("top", Payload("top", "warming", FALSE))
  /\ UNCHANGED faults

LoadAgain(H) ==
  /\ busy' = busy \cup H
  /\ view' = [h \in Hooks |-> IF h \in H THEN [view[h] EXCEPT !.error = FALSE] ELSE view[h]]
  /\ UNCHANGED <<ui, hist, at, saved, pending, ran, compNeeded, cue, running, others, faults, warmings>>

\* Mutant: the poll does not ask whether the answer is a placeholder.
PollAlways ==
  /\ ui.page = "dashboard" /\ view["top"].data # Nothing
  /\ LoadAgain({"top"}) /\ UNCHANGED moves

\* Mutant: no timer once a load has failed.
PollAfterAnswer ==
  /\ ui.page = "dashboard" /\ view["top"].kind = "warming"
  /\ ~view["top"].error
  /\ LoadAgain({"top"}) /\ UNCHANGED moves

\* The timer that is there while the placeholder is shown: it is set again
\* with every tick, whether the load before has ended, failed or goes on.
Poll ==
  /\ ui.page = "dashboard" /\ view["top"].kind = "warming"
  /\ LoadAgain({"top"}) /\ UNCHANGED moves

Failing(h) == view[h].error \/ view[h].kind = "error"

\* The page's one error banner, in place of everything else.
Fatal ==
  CASE ui.page = "dashboard" -> IF Failing("summary") THEN {"summary"} ELSE {}
    [] ui.page = "services"  -> IF Failing("list") THEN {"list"} ELSE {}
    [] ui.page = "resources" -> IF Failing("resources") THEN {"resources"} ELSE {}
    [] ui.page = "audit"     -> IF view["audit"].error THEN {"audit"} ELSE {}
    [] OTHER -> {}

\* The hooks that each banner with a Retry reloads.  An answer of resources may
\* carry warnings, whose banner has one too.
Banners ==
  IF Fatal # {} THEN {Fatal}
  ELSE CASE ui.page = "dashboard" ->
              {H \in {{"services", "trend"} \cap Hooks} : \E h \in H : view[h].kind = "error"}
              \cup {H \in {{"top"}} : "top" \notin busy /\ Failing("top")}
         [] ui.page = "resources" -> {H \in {{"resources"}} : view["resources"].data # Nothing}
         [] ui.page = "audit" -> {H \in {{"audit"}, {"budgets"} \cap Hooks} : \E h \in H : Failing(h)}
         [] OTHER -> {}

\* A Retry; it reloads without an announcement.
Retry(H) == Move /\ H \in Banners /\ LoadAgain(H)

OpenRow ==
  /\ Move /\ ui.page = "services" /\ Fatal = {} /\ ~compNeeded
  /\ "list" \notin busy /\ view["list"].data # Nothing
  /\ compNeeded' = TRUE
  /\ busy' = busy \cup {"composition"}
  /\ ran' = [ran EXCEPT !["composition"] = DepsOf("composition", ui)]
  /\ UNCHANGED <<view, cue, running, others, faults, warmings, ui, hist, at, saved, pending>>

-----------------------------------------------------------------------------
(* Export                                                                  *)

ExportStart ==
  /\ Move /\ ui.page = "export" /\ ~running
  /\ running' = TRUE
  /\ cue' = "working"
  /\ UNCHANGED <<view, busy, ran, compNeeded, others, faults, warmings, ui, hist, at, saved, pending>>

\* The download ends, on the page that asked for it or after it was left.
ExportEnds(ok) ==
  /\ \/ running /\ running' = FALSE /\ others' = others
     \/ others > 0 /\ others' = others - 1 /\ running' = running
  /\ cue' = IF ok THEN "ready" ELSE "fault"
  /\ IF ok THEN UNCHANGED faults ELSE faults < MaxFaults /\ faults' = faults + 1
  /\ UNCHANGED <<shellVars, view, busy, ran, compNeeded, warmings>>

-----------------------------------------------------------------------------
(* What is on screen                                                       *)

\* A place on the page that renders what a hook has to show, and the hooks
\* whose loading hides it.  Most wait for their own hook, but not all.
Panel(name, hook, waits) == [name |-> name, hook |-> hook, waits |-> waits]
Guarded(hook, names) == {Panel(n, hook, {hook}) : n \in names}
Bare(hook, names)    == {Panel(n, hook, {}) : n \in names}

\* The drift is the ink of the figure in the cross-check.
DashboardBoard ==
  Bare("summary", {"cost basis", "change"}) \cup Guarded("summary", {"total", "previous and forecast"})
  \cup Bare("top", {"drift", "cross-check note"}) \cup Guarded("top", {"cross-check"})
  \cup Guarded("services", {"departures"})

DashboardPanels ==
  Bare("trend", {"peak and average", "failure banner", "stale banner"})
  \cup Guarded("trend", {"trend bars"})
  \cup Bare("top", {"attribution", "stale banner"}) \cup Guarded("top", {"top resources"})
  \cup Bare("services", {"failure banner", "stale banner"}) \cup Guarded("services", {"service mix"})
  \cup Bare("summary", {"stale banner"})

\* ServiceComposition, in an open row of the list.
Breakdown == Panel("breakdown", "composition", {"list", "composition"})

ServicesPanels == {Breakdown} \cup Guarded("list", {"services"}) \cup Bare("list", {"stale banner"})

ResourcesPanels ==
  Bare("resources", {"reconciliation", "warnings", "filters", "stale banner"})
  \cup Guarded("resources", {"rows"})

\* The notices are the NoticeList of idle and that of untagged resources.
AuditPanels ==
  Bare("audit", {"regions scanned", "regions not scanned", "failure banner", "stale banner"})
  \cup Guarded("audit", {"waste", "counts", "notices"})
  \cup Bare("budgets", {"failure banner", "stale banner"})
  \cup Guarded("budgets", {"budgets tracked", "budgets"})

AllPanels ==
  [dashboard |-> DashboardBoard \cup DashboardPanels, services |-> ServicesPanels,
   resources |-> ResourcesPanels, audit |-> AuditPanels, export |-> {}]

Panels == {p \in AllPanels[ui.page] : p.hook \in Hooks}

Hidden(p) ==
  \/ Fatal # {}
  \/ p.waits \cap busy # {}
  \/ p.name = "top resources" /\ Failing("top")

\* Whether the panel says anything of a payload like the hook's: figures, as a
\* rule.  An audit with an error in it has its findings all the same.
Tells(p) ==
  LET v == view[p.hook] IN
  CASE p.name = "stale banner"     -> v.stale
    [] p.name = "failure banner"   -> v.kind = "error" /\ (p.hook = "budgets" => ~v.error)
    [] p.name = "cross-check note" -> v.kind = "warming"
    [] p.name = "attribution"      -> TRUE
    [] p.hook = "audit"            -> TRUE
    [] OTHER                       -> v.kind = "figures"

\* The dependencies of what a panel shows; Nothing: a skeleton, a note, zeroes.
ShowsOf(p) == IF Hidden(p) \/ ~Tells(p) THEN Nothing ELSE view[p.hook].data

-----------------------------------------------------------------------------
Next ==
  \/ \E p \in Pages : Navigate(p)
  \/ \E x \in Profiles : PickProfile(x)
  \/ \E x \in Periods : PickPeriod(x)
  \/ \E i \in {at - 1, at + 1} : Travel(i)
  \/ FlushEffects \/ SnapToOffer \/ Reload
  \/ \E h \in Hooks : Answer(h) \/ AnswerError(h) \/ AnswerStale(h) \/ AnswerFails(h)
  \/ AnswerWarming
  \/ Poll
  \/ \E H \in Banners : Retry(H)
  \/ OpenRow
  \/ ExportStart
  \/ \E ok \in BOOLEAN : ExportEnds(ok)

Spec == Init /\ [][Next]_vars

\* React runs the effects and renders it has scheduled, timers fire, and some
\* load in flight is answered with figures in the end: failures, placeholders
\* and moves are finitely many.  The user owes nothing.
Fairness ==
  /\ WF_vars(FlushEffects) /\ WF_vars(SnapToOffer) /\ WF_vars(Poll)
  /\ WF_vars(\E h \in Hooks : Answer(h))
  /\ WF_vars(\E ok \in BOOLEAN : ExportEnds(ok))

FairSpec == Spec /\ Fairness

-----------------------------------------------------------------------------
(* Properties                                                              *)

\* What the page says without asking whether the hook is loading.
AskNothing ==
  {"cost basis", "change", "drift", "cross-check note", "peak and average", "attribution",
   "reconciliation", "warnings", "filters", "regions scanned", "regions not scanned",
   "failure banner", "stale banner"}

\* What stays when a load has failed: no banner takes the page's place, as it
\* does for the summary, the lists and the audit.
OutliveFailure ==
  {"departures", "service mix", "trend bars", "peak and average", "cross-check", "drift",
   "cross-check note", "attribution", "breakdown", "budgets tracked", "budgets",
   "failure banner", "stale banner"}

\* Which figures stand under a caption that is not theirs.  Once the effects of
\* a change have run, what a page says is said of the profile and period on
\* screen, except in the panels named: those that do not wait for their hook,
\* while it loads, and those that keep what they had when its load has failed.
\* The total, the lists, the rows, the waste and its notices never do.
FiguresUnderOwnName ==
  pending = "no" =>
    \A p \in Panels :
      ShowsOf(p) \notin {Nothing, DepsOf(p.hook, ui)} =>
        \/ p.name \in AskNothing /\ p.hook \in busy
        \/ p.name \in OutliveFailure /\ view[p.hook].error

Hook == INSTANCE AsyncData WITH
  Keys    <- Deps,
  want    <- ran,
  loading <- [h \in Hooks |-> IF h \in busy THEN ran[h] ELSE Nothing]

\* The hooks of the pages do nothing that useAsyncData, as DashboardData has
\* it, does not: through commits, polls, retries and pages left, a hook shows
\* outcomes of its own loads, each under the dependencies it was asked with.
HooksAreAsync == Hook!Spec

\* Once the backend's lists are there, a profile or a period it does not
\* offer does not stay, whether it came from a link, from localStorage or
\* from an old entry of the history.
StateSnaps == HasContext ~> (OnOffer(ui) \/ ~HasContext)

\* Once the user leaves the app alone (moves are finitely many), loading ends
\* for good, whatever was left, retried, polled or failed: the effects do not
\* set each other off for ever, and the poll stops.
PageSettles == <>[](busy = {})

\* The placeholder of the top resources goes without the user's help: the
\* poll outlives slow and failed answers.
WarmingEnds == (view["top"].kind = "warming") ~> (view["top"].kind # "warming")

\* cues.js: "WORKING: a fetch is in flight".  The cue that announces work is
\* replaced by the work's outcome.
WorkingCueEnds == (cue = "working") ~> (cue # "working")
=============================================================================

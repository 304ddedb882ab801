------------------------ MODULE DashboardPagesProofs ------------------------
(***************************************************************************)
(* Proofs about the shell of the dashboard (AppShell) and the pages under  *)
(* it (DashboardPages), for any profiles, periods, first addresses, hooks  *)
(* followed and bounds.                                                    *)
(*                                                                         *)
(* The shell first, by its own operations; the pages drive it only by      *)
(* those (ShellStep), so that what is proved of the shell holds under      *)
(* them.  Then the hooks: what each has loaded is what it was last asked,  *)
(* and once the effects have run it was last asked what is on screen.      *)
(***************************************************************************)
EXTENDS DashboardPages, SequenceTheorems, TLAPS

USE OfferAssumption, NamesAssumption, MovesAssumption

-----------------------------------------------------------------------------
(* The shell: its steps and its invariant                                  *)

\* A move of the user that is not the shell's.
OtherMove == Move /\ UNCHANGED <<ui, hist, at, saved, pending>>

ShellNext ==
  \/ \E p \in Pages : GoTo(p)
  \/ \E x \in Profiles : ChooseProfile(x)
  \/ \E x \in Periods : ChoosePeriod(x)
  \/ \E i \in {at - 1, at + 1} : Pop(i)
  \/ RunEffects \/ Snap \/ Reopen
  \/ OtherMove

\* An entry the app has written; the first may still be the address that the
\* tab was opened at, if that names a page that does not exist.
Written(h, i) == h[i] \in State \/ (i = 1 /\ h[1].page = Bogus)
Settled(h) == \A i \in 1..Len(h) : Written(h, i)

\* Before the effects of the first mount the history is the address it was
\* opened at.
JustOpened == Len(hist) = 1 /\ pending = "first"

\* The entry on show tells the page, if not the profile and the period, in
\* all the states between a change and its effects.
PageTold ==
  /\ pending = "first" => hist[at].page \in {NoValue, Bogus, ui.page}
  /\ pending = "snap" => hist[at].page \in {Bogus, ui.page}

\* localStorage holds what is on screen.
SavedTold == pending = "no" => saved = [profile |-> ui.profile, period |-> ui.period]

ShellInv ==
  /\ ShellTypeOK
  /\ Settled(hist) \/ JustOpened
  /\ BackNavigatesPages
  /\ UrlTellsState
  /\ PageTold
  /\ SavedTold

-----------------------------------------------------------------------------
(* The pages: their invariant                                              *)

OnPage(h) == h \in Mounted(ui, compNeeded)

\* Nothing is left of a hook that is not mounted.
GoneIsGone ==
  \A h \in Hooks : ~OnPage(h) => view[h] = Mounting /\ h \notin busy /\ ran[h] = Nothing

\* Before the effects of a mount no hook has loaded.
NothingYet ==
  pending = "first" => busy = {} /\ \A h \in Hooks : view[h] = Mounting /\ ran[h] = Nothing

\* Every mounted hook has run its effect since, and once the effects of a
\* change have run, with the dependencies on screen.
EffectsRan ==
  \A h \in Hooks : OnPage(h) =>
    /\ pending # "first" => ran[h] # Nothing
    /\ pending = "no" => ran[h] = DepsOf(h, ui)

\* What a hook shows, unless it loads or its load failed, is what it asked.
ShowsWhatItAsked ==
  \A h \in Hooks : h \in busy \/ view[h].error \/ view[h].data \in {Nothing, ran[h]}

\* No skeleton stays without a load behind it: a mounted hook loads, or has
\* loaded, or tells that it failed.
NoIdleSkeleton ==
  pending # "first" =>
    \A h \in Hooks : OnPage(h) => h \in busy \/ view[h].error \/ view[h].data # Nothing

\* Each export under way was started by a move of its own, on its page.
ExportsCounted ==
  /\ running => ui.page = "export"
  /\ others + (IF running THEN 1 ELSE 0) <= moves

PagesTypeOK ==
  /\ view \in [Hooks -> View] /\ busy \in SUBSET Hooks
  /\ ran \in [Hooks -> Deps \cup {Nothing}]
  /\ compNeeded \in BOOLEAN /\ cue \in Cues /\ running \in BOOLEAN /\ others \in Nat
  /\ faults \in 0..MaxFaults /\ warmings \in 0..MaxWarmings

PagesInv ==
  /\ PagesTypeOK
  /\ GoneIsGone
  /\ NothingYet
  /\ EffectsRan
  /\ ShowsWhatItAsked
  /\ NoIdleSkeleton
  /\ ExportsCounted

IInv == ShellInv /\ PagesInv

-----------------------------------------------------------------------------
(* Action properties                                                       *)

\* A page change leaves the state it left behind it, as the last entry but one.
PushesWhatItLeaves ==
  \A p \in Pages : GoTo(p) /\ (hist[at].page # Bogus \/ pending # "no") =>
    Len(hist') = at' /\ at' > 1 /\ hist'[at' - 1] = ui

\* Back and Forward show the entry they reach and keep the history.
ShowsWhatItReaches ==
  \A i \in {at - 1, at + 1} : Pop(i) /\ pending = "no" /\ hist[i].page # Bogus =>
    ui' = hist[i] /\ hist' = hist /\ at' = i

Dropdown == (\E x \in Profiles : ChooseProfile(x)) \/ (\E x \in Periods : ChoosePeriod(x))

\* A dropdown touches no entry but the one on show.
ReplacesItsEntry ==
  Dropdown /\ hist[at].page # Bogus =>
    /\ Len(hist') = Len(hist) /\ at' = at
    /\ \A i \in 1..Len(hist) \ {at} : hist'[i] = hist[i]

\* A tab loaded again shows what it showed.
ShowsTheSame == Reopen /\ pending = "no" /\ hist[at].page # Bogus => UNCHANGED ui

\* In every behaviour: a page change pushes what it leaves.
NavigatePushes == [][PushesWhatItLeaves]_vars

\* Back and Forward land on what the entry tells, and drop nothing.
TravelReturns == [][ShowsWhatItReaches]_vars

\* Profiles and periods tried out leave no trail in the history.
DropdownsReplace == [][ReplacesItsEntry]_vars

\* The address and localStorage bring back what was on screen.
ReloadShowsTheSame == [][ShowsTheSame]_vars

-----------------------------------------------------------------------------
(* The effect that writes the address                                      *)

IsBar(b) ==
  /\ b = [hist |-> b.hist, at |-> b.at]
  /\ b.hist \in Seq(Url) /\ b.at \in 1..Len(b.hist)

Alternates(h) == \A i \in 1..Len(h) - 1 : h[i].page # h[i + 1].page

\* What the effect may be given to show u.
Shows(b, u) ==
  \/ Settled(b.hist)
  \/ Len(b.hist) = 1 /\ b.hist[1].page \in {NoValue, Bogus, u.page}

\* What it makes of it.
Told(b, u) ==
  /\ IsBar(b) /\ Settled(b.hist) /\ Alternates(b.hist)
  /\ b.hist[b.at] = u

LEMMA StateIsUrl == State \subseteq Url
BY DEF State, Url

LEMMA UrlPushed ==
  ASSUME NEW b, NEW u \in State, IsBar(b), Alternates(b.hist), Shows(b, u),
         b.hist[b.at].page \notin {NoValue, u.page}
  PROVE  LET e == UrlEffect(b, u)
         IN /\ Told(e, u)
            /\ e.at = b.at + 1 /\ Len(e.hist) = b.at + 1
            /\ \A i \in 1..b.at : e.hist[i] = b.hist[i]
<1> DEFINE e == UrlEffect(b, u)
           cut == SubSeq(b.hist, 1, b.at)
<1>1. e = [hist |-> Append(cut, u), at |-> b.at + 1]
  BY DEF UrlEffect
<1>2. /\ b.at \in Nat \ {0} /\ b.at <= Len(b.hist) /\ Len(b.hist) \in Nat
      /\ \A i \in 1..b.at : b.hist[i] \in Url
  BY ElementOfSeq DEF IsBar
<1>3. /\ cut \in Seq(Url) /\ Len(cut) = b.at
      /\ \A i \in 1..b.at : cut[i] = b.hist[i]
  BY <1>2, SubSeqProperties
<1> HIDE DEF cut
<1>4. /\ e.hist \in Seq(Url) /\ Len(e.hist) = b.at + 1 /\ e.hist[b.at + 1] = u
      /\ \A i \in 1..b.at : e.hist[i] = b.hist[i]
  BY <1>1, <1>2, <1>3, AppendProperties, StateIsUrl
<1>5. Settled(e.hist)
  <2>1. \A i \in 1..b.at : Written(b.hist, i)
    BY <1>2 DEF Shows, Settled, Written, State, IsBar
  <2>2. QED
    BY <1>2, <1>4, <2>1 DEF Settled, Written
<1>6. Alternates(e.hist)
  <2>1. \A i \in 1..b.at - 1 : b.hist[i].page # b.hist[i + 1].page
    BY <1>2 DEF Alternates
  <2>2. b.hist[b.at].page # u.page
    OBVIOUS
  <2>3. ASSUME NEW i \in 1..b.at PROVE e.hist[i].page # e.hist[i + 1].page
    <3>1. CASE i = b.at
      BY <1>2, <1>4, <2>2, <3>1
    <3>2. CASE i # b.at
      <4>1. i \in 1..b.at - 1 /\ i + 1 \in 1..b.at
        BY <1>2, <3>2
      <4>2. e.hist[i] = b.hist[i] /\ e.hist[i + 1] = b.hist[i + 1]
        BY <1>4, <4>1
      <4>3. QED
        BY <2>1, <4>1, <4>2
    <3>3. QED
      BY <3>1, <3>2
  <2>4. 1..Len(e.hist) - 1 = 1..b.at
    BY <1>2, <1>4
  <2>5. QED
    BY <2>3, <2>4 DEF Alternates
<1>7. QED
  BY <1>1, <1>2, <1>4, <1>5, <1>6 DEF Told, IsBar

LEMMA UrlReplaced ==
  ASSUME NEW b, NEW u \in State, IsBar(b), Alternates(b.hist), Shows(b, u),
         b.hist[b.at].page \in {NoValue, u.page}
  PROVE  LET e == UrlEffect(b, u)
         IN /\ Told(e, u)
            /\ e.at = b.at /\ Len(e.hist) = Len(b.hist)
            /\ \A i \in 1..Len(b.hist) \ {b.at} : e.hist[i] = b.hist[i]
<1> DEFINE e == UrlEffect(b, u)
<1>1. e = [hist |-> [b.hist EXCEPT ![b.at] = u], at |-> b.at]
  BY DEF UrlEffect, IsBar
<1>2. /\ b.at \in Nat \ {0} /\ b.at <= Len(b.hist) /\ Len(b.hist) \in Nat
      /\ \A i \in 1..Len(b.hist) : b.hist[i] \in Url
  BY ElementOfSeq DEF IsBar
<1>3. /\ e.hist \in Seq(Url) /\ Len(e.hist) = Len(b.hist) /\ e.hist[b.at] = u
      /\ \A i \in 1..Len(b.hist) \ {b.at} : e.hist[i] = b.hist[i]
  BY <1>1, ExceptSeq, StateIsUrl DEF IsBar
<1>4. Settled(e.hist)
  BY <1>2, <1>3 DEF Shows, Settled, Written
\* Either the page of the entry stays as it is, or the entry is the only one.
<1>5. b.hist[b.at].page = u.page \/ Len(b.hist) = 1
  BY <1>2 DEF Shows, Settled, Written, State
<1>6. Alternates(e.hist)
  <2>1. ASSUME NEW i \in 1..Len(b.hist) - 1 PROVE e.hist[i].page # e.hist[i + 1].page
    <3>1. i \in 1..Len(b.hist) /\ i + 1 \in 1..Len(b.hist) /\ Len(b.hist) # 1
      BY <1>2
    <3>2. b.hist[i].page # b.hist[i + 1].page
      BY DEF Alternates
    <3>3. \A j \in {i, i + 1} : e.hist[j].page = b.hist[j].page
      <4> TAKE j \in {i, i + 1}
      <4>1. CASE j = b.at
        BY <1>3, <1>5, <3>1, <4>1
      <4>2. CASE j # b.at
        BY <1>3, <3>1, <4>2
      <4>3. QED
        BY <4>1, <4>2
    <3>4. QED
      BY <3>2, <3>3
  <2>2. QED
    BY <1>3, <2>1 DEF Alternates
<1>7. QED
  BY <1>1, <1>2, <1>3, <1>4, <1>6 DEF Told, IsBar

\* Whatever it finds in the bar, the effect makes it tell u.
LEMMA UrlTold ==
  ASSUME NEW b, NEW u \in State, IsBar(b), Alternates(b.hist), Shows(b, u)
  PROVE  Told(UrlEffect(b, u), u)
BY UrlPushed, UrlReplaced

-----------------------------------------------------------------------------
(* Commits                                                                 *)

Bar(i) == [hist |-> hist, at |-> i]

LEMMA BarHere ==
  ASSUME ShellInv, NEW i \in 1..Len(hist)
  PROVE  IsBar(Bar(i)) /\ Alternates(Bar(i).hist) /\ (Settled(hist) \/ JustOpened)
BY DEF ShellInv, ShellTypeOK, BackNavigatesPages, IsBar, Alternates, Bar

\* The effects of a commit write its state into the bar, unless there is
\* nothing to do.
LEMMA CommitTold ==
  ASSUME ShellInv, NEW i \in 1..Len(hist), NEW u \in State
  PROVE  IF pending = "no" /\ u = ui THEN AfterEffects(i, u) = Bar(i)
                                     ELSE Told(AfterEffects(i, u), u)
<1> DEFINE first == IF pending # "no" THEN UrlEffect(Bar(i), ui) ELSE Bar(i)
<1>0. ui \in State /\ IsBar(Bar(i)) /\ Alternates(Bar(i).hist) /\ Bar(i).hist = hist
  BY BarHere DEF ShellInv, ShellTypeOK, Bar
<1>1. AfterEffects(i, u) = IF u # ui THEN UrlEffect(first, u) ELSE first
  BY DEF AfterEffects, Bar
<1>2. CASE pending = "no"
  <2>1. Shows(Bar(i), u)
    BY <1>2, <1>0, BarHere DEF Shows, JustOpened
  <2>2. QED
    BY <1>0, <1>1, <1>2, <2>1, UrlTold
<1>3. CASE pending # "no"
  <2>1. Shows(Bar(i), ui)
    <3>1. CASE Settled(hist)
      BY <1>0, <3>1 DEF Shows
    <3>2. CASE JustOpened
      <4>1. at = 1 /\ hist[at].page \in {NoValue, Bogus, ui.page} /\ Len(hist) = 1
        BY <3>2 DEF ShellInv, ShellTypeOK, PageTold, JustOpened
      <4>2. QED
        BY <1>0, <4>1 DEF Shows
    <3>3. QED
      BY <3>1, <3>2, BarHere
  <2>2. Told(first, ui)
    BY <1>0, <1>3, <2>1, UrlTold
  <2>3. u # ui => Told(UrlEffect(first, u), u)
    <3>1. IsBar(first) /\ Alternates(first.hist) /\ Shows(first, u)
      BY <2>2 DEF Told, Shows
    <3>2. QED
      BY <3>1, UrlTold
  <2>4. QED
    BY <1>1, <1>3, <2>2, <2>3
<1>4. QED
  BY <1>2, <1>3

LEMMA CommitInv ==
  ASSUME ShellInv, NEW i \in 1..Len(hist), NEW u \in State, Commit(i, u),
         moves' \in 0..MaxMoves,
         pending = "no" /\ u = ui => hist[i].page = Bogus \/ hist[i] = u
  PROVE  ShellInv'
<1>1. /\ ui' = u /\ hist' = AfterEffects(i, u).hist /\ at' = AfterEffects(i, u).at
      /\ saved' = [profile |-> u.profile, period |-> u.period] /\ pending' = "no"
  BY DEF Commit
<1>2. saved' \in Saved
  BY <1>1 DEF Saved, State
<1>3. SavedTold' /\ PageTold'
  BY <1>1 DEF SavedTold, PageTold
<1>4. CASE pending = "no" /\ u = ui
  <2>1. hist' = hist /\ at' = i
    BY <1>1, <1>4, CommitTold DEF Bar
  <2>2. Settled(hist') /\ BackNavigatesPages'
    BY <1>4, <2>1 DEF ShellInv, JustOpened, BackNavigatesPages
  <2>3. UrlTellsState'
    BY <1>1, <1>4, <2>1 DEF UrlTellsState
  <2>4. QED
    BY <1>1, <1>2, <1>3, <2>1, <2>2, <2>3 DEF ShellInv, ShellTypeOK
<1>5. CASE ~(pending = "no" /\ u = ui)
  <2>1. Told(AfterEffects(i, u), u)
    BY <1>5, CommitTold
  <2>2. /\ hist' \in Seq(Url) /\ at' \in 1..Len(hist') /\ hist'[at'] = u
        /\ Settled(hist') /\ BackNavigatesPages'
    BY <1>1, <2>1 DEF Told, IsBar, Alternates, BackNavigatesPages
  <2>3. UrlTellsState'
    BY <1>1, <2>2 DEF UrlTellsState
  <2>4. QED
    BY <1>1, <1>2, <1>3, <2>2, <2>3 DEF ShellInv, ShellTypeOK
<1>6. QED
  BY <1>4, <1>5

-----------------------------------------------------------------------------
(* The shell keeps its invariant                                           *)

\* What the app is mounted with is a state, and of the page of the address
\* if that exists.
LEMMA OpenedState ==
  ASSUME NEW url \in Url, NEW store \in Saved
  PROVE  /\ Opened(url, store) \in State
         /\ url.page \in {NoValue, Bogus, Opened(url, store).page}
         /\ url \in State => Opened(url, store) = url
BY DEF Url, Saved, Opened, State, Or

LEMMA ShellInitInv == ShellInit => ShellInv
<1> SUFFICES ASSUME ShellInit PROVE ShellInv
  OBVIOUS
<1>1. PICK o \in FirstOpens : hist = <<o.url>> /\ saved = o.saved /\ ui = Opened(o.url, o.saved)
  BY DEF ShellInit
<1>2. o.url \in Url /\ o.saved \in Saved
  BY OpensAssumption
<1>3. hist \in Seq(Url) /\ Len(hist) = 1 /\ hist[1] = o.url /\ at = 1
  BY <1>1, <1>2 DEF ShellInit
<1>4. ui \in State /\ o.url.page \in {NoValue, Bogus, ui.page}
  BY <1>1, <1>2, OpenedState
<1>5. pending = "first" /\ moves = 0
  BY DEF ShellInit
<1>6. QED
  BY <1>1, <1>2, <1>3, <1>4, <1>5
  DEF ShellInv, ShellTypeOK, JustOpened, BackNavigatesPages, UrlTellsState, PageTold, SavedTold

LEMMA MoveCounts == ShellTypeOK /\ Move => moves' \in 0..MaxMoves /\ pending # "first"
BY DEF ShellTypeOK, Move

\* Back and Forward take a state from the entry.
LEMMA PoppedState ==
  ASSUME ShellInv, pending # "first", NEW i \in 1..Len(hist)
  PROVE  LET u == [page    |-> IF hist[i].page \in Pages THEN hist[i].page ELSE ui.page,
                   profile |-> Or(hist[i].profile, ui.profile),
                   period  |-> Or(hist[i].period, ui.period)]
         IN u \in State /\ (hist[i].page = Bogus \/ (hist[i] \in State /\ u = hist[i]))
<1>1. hist[i] \in Url /\ ui \in State /\ Written(hist, i)
  BY ElementOfSeq DEF ShellInv, ShellTypeOK, Settled, JustOpened
<1>2. QED
  BY <1>1 DEF Written, Url, State, Or

LEMMA SnappedState == ASSUME NEW u \in State PROVE Snapped(u) \in State /\ Snapped(u).page = u.page
BY DEF State, Snapped

LEMMA ShellNextInv == ShellInv /\ [ShellNext]_shellVars => ShellInv'
<1> SUFFICES ASSUME ShellInv, [ShellNext]_shellVars PROVE ShellInv'
  OBVIOUS
<1>0. ShellTypeOK /\ ui \in State /\ at \in 1..Len(hist)
  BY DEF ShellInv, ShellTypeOK
<1>1. ASSUME NEW p \in Pages, GoTo(p) PROVE ShellInv'
  <2>1. [ui EXCEPT !.page = p] \in State /\ [ui EXCEPT !.page = p] # ui
    BY <1>0, <1>1 DEF GoTo, State
  <2>2. QED
    BY <1>0, <1>1, <2>1, MoveCounts, CommitInv DEF GoTo
<1>2. ASSUME NEW x \in Profiles, ChooseProfile(x) PROVE ShellInv'
  <2>1. [ui EXCEPT !.profile = x] \in State /\ [ui EXCEPT !.profile = x] # ui
    BY <1>0, <1>2 DEF ChooseProfile, State
  <2>2. QED
    BY <1>0, <1>2, <2>1, MoveCounts, CommitInv DEF ChooseProfile
<1>3. ASSUME NEW x \in Periods, ChoosePeriod(x) PROVE ShellInv'
  <2>1. [ui EXCEPT !.period = x] \in State /\ [ui EXCEPT !.period = x] # ui
    BY <1>0, <1>3 DEF ChoosePeriod, State
  <2>2. QED
    BY <1>0, <1>3, <2>1, MoveCounts, CommitInv DEF ChoosePeriod
<1>4. ASSUME NEW i \in {at - 1, at + 1}, Pop(i) PROVE ShellInv'
  <2>1. i \in 1..Len(hist) /\ Move
    BY <1>4 DEF Pop
  <2>2. QED
    BY <1>0, <1>4, <2>1, MoveCounts, PoppedState, CommitInv DEF Pop
<1>5. CASE RunEffects
  BY <1>0, <1>5, CommitInv DEF RunEffects, ShellTypeOK
<1>6. CASE Snap
  <2>1. ui' \in State /\ ui'.page = ui.page /\ pending = "no" /\ pending' = "snap"
    BY <1>0, <1>6, SnappedState DEF Snap
  <2>2. hist' = hist /\ at' = at /\ saved' = saved /\ moves' = moves
    BY <1>6 DEF Snap
  <2>3. hist[at].page \in {Bogus, ui.page}
    BY <2>1 DEF ShellInv, UrlTellsState
  <2>4. QED
    BY <2>1, <2>2, <2>3
    DEF ShellInv, ShellTypeOK, JustOpened, BackNavigatesPages, UrlTellsState, PageTold, SavedTold
<1>7. CASE Reopen
  <2>1. /\ Move /\ pending # "first" /\ ui' = Opened(hist[at], saved) /\ pending' = "first"
        /\ hist' = hist /\ at' = at /\ saved' = saved
    BY <1>7, <1>0, MoveCounts DEF Reopen
  <2>2. ui' \in State /\ hist[at].page \in {NoValue, Bogus, ui'.page}
    BY <1>0, <2>1, OpenedState, ElementOfSeq DEF ShellTypeOK
  <2>3. QED
    BY <1>0, <2>1, <2>2, MoveCounts
    DEF ShellInv, ShellTypeOK, JustOpened, BackNavigatesPages, UrlTellsState, PageTold, SavedTold
<1>8. CASE OtherMove
  BY <1>0, <1>8, MoveCounts
  DEF OtherMove, ShellInv, ShellTypeOK, JustOpened, BackNavigatesPages, UrlTellsState, PageTold, SavedTold
<1>9. CASE UNCHANGED shellVars
  BY <1>9 DEF shellVars, ShellInv, ShellTypeOK, JustOpened, BackNavigatesPages, UrlTellsState, PageTold, SavedTold
<1>10. QED
  BY <1>1, <1>2, <1>3, <1>4, <1>5, <1>6, <1>7, <1>8, <1>9 DEF ShellNext

-----------------------------------------------------------------------------
(* What the shell's steps do to the history                                *)

\* Before a move the entry on show tells the page on screen, if it tells one.
LEMMA PageOnShow ==
  ASSUME ShellInv, Move, hist[at].page # Bogus
  PROVE  /\ pending \in {"no", "snap"} /\ hist[at].page = ui.page
         /\ pending = "no" => hist[at] = ui
BY DEF ShellInv, ShellTypeOK, Move, UrlTellsState, PageTold

LEMMA PushesStep == ShellInv => PushesWhatItLeaves
<1> SUFFICES ASSUME ShellInv, NEW p \in Pages, GoTo(p), hist[at].page # Bogus \/ pending # "no"
             PROVE  Len(hist') = at' /\ at' > 1 /\ hist'[at' - 1] = ui
  BY DEF PushesWhatItLeaves
<1> DEFINE u == [ui EXCEPT !.page = p]
<1>1. /\ ui \in State /\ at \in 1..Len(hist) /\ Move /\ p # ui.page
      /\ hist' = AfterEffects(at, u).hist /\ at' = AfterEffects(at, u).at
  BY DEF ShellInv, ShellTypeOK, GoTo, Commit
<1>2. u \in State /\ u # ui /\ u.page = p /\ ui.page # NoValue
  BY <1>1 DEF State
<1>3. IsBar(Bar(at)) /\ Alternates(Bar(at).hist) /\ (Settled(hist) \/ JustOpened)
  BY <1>1, BarHere
<1> HIDE DEF u
\* The bar that the push finds shows the state that is left.
<1>4. PICK b : /\ AfterEffects(at, u) = UrlEffect(b, u)
               /\ IsBar(b) /\ Alternates(b.hist) /\ Settled(b.hist) /\ b.hist[b.at] = ui
  <2>1. CASE pending = "no"
    <3>1. Settled(hist) /\ hist[at] = ui
      BY <1>1, <1>3, <2>1, PageOnShow DEF JustOpened
    <3>2. AfterEffects(at, u) = UrlEffect(Bar(at), u)
      BY <1>2, <2>1 DEF AfterEffects, Bar
    <3>3. QED
      BY <1>3, <3>1, <3>2 DEF Bar
  <2>2. CASE pending # "no"
    <3>1. AfterEffects(at, ui) = UrlEffect(Bar(at), ui)
      BY <2>2 DEF AfterEffects, Bar
    <3>2. Told(UrlEffect(Bar(at), ui), ui)
      BY <1>1, <2>2, <3>1, CommitTold
    <3>3. AfterEffects(at, u) = UrlEffect(UrlEffect(Bar(at), ui), u)
      BY <1>2, <2>2 DEF AfterEffects, Bar
    <3>4. QED
      BY <3>2, <3>3 DEF Told
  <2>3. QED
    BY <2>1, <2>2
<1>5. /\ AfterEffects(at, u).at = b.at + 1 /\ Len(AfterEffects(at, u).hist) = b.at + 1
      /\ \A i \in 1..b.at : AfterEffects(at, u).hist[i] = b.hist[i]
  <2>1. Shows(b, u) /\ b.hist[b.at].page \notin {NoValue, u.page}
    BY <1>1, <1>2, <1>4 DEF Shows
  <2>2. QED
    BY <1>2, <1>4, <2>1, UrlPushed
<1>6. b.at \in Nat \ {0} /\ b.at \in 1..b.at
  BY <1>4 DEF IsBar
<1>7. QED
  BY <1>1, <1>4, <1>5, <1>6

LEMMA ReachesStep == ShellInv => ShowsWhatItReaches
<1> SUFFICES ASSUME ShellInv, NEW i \in {at - 1, at + 1}, Pop(i), pending = "no",
                    hist[i].page # Bogus
             PROVE  ui' = hist[i] /\ hist' = hist /\ at' = i
  BY DEF ShowsWhatItReaches
<1>1. i \in 1..Len(hist) /\ hist \in Seq(Url)
  BY DEF Pop, ShellInv, ShellTypeOK
<1>2. hist[i] \in State /\ Commit(i, hist[i])
  BY <1>1, PoppedState DEF Pop
<1>3. ui' = hist[i] /\ hist' = AfterEffects(i, hist[i]).hist /\ at' = AfterEffects(i, hist[i]).at
  BY <1>2 DEF Commit
<1>4. CASE hist[i] = ui
  BY <1>1, <1>2, <1>3, <1>4, CommitTold DEF Bar
<1>5. CASE hist[i] # ui
  <2>1. AfterEffects(i, hist[i]) = UrlEffect(Bar(i), hist[i])
    BY <1>5 DEF AfterEffects, Bar
  <2>2. /\ IsBar(Bar(i)) /\ Alternates(Bar(i).hist) /\ Shows(Bar(i), hist[i])
        /\ Bar(i).hist = hist /\ Bar(i).at = i
    BY <1>1, BarHere DEF Bar, Shows, JustOpened
  <2>3. /\ Told(UrlEffect(Bar(i), hist[i]), hist[i]) /\ at' = i /\ Len(hist') = Len(hist)
        /\ \A j \in 1..Len(hist) \ {i} : hist'[j] = hist[j]
    BY <1>2, <1>3, <2>1, <2>2, UrlReplaced
  <2>4. hist' \in Seq(Url) /\ hist'[i] = hist[i]
    BY <1>3, <2>1, <2>3 DEF Told, IsBar
  <2>5. hist' = hist
    BY <1>1, <2>3, <2>4, SeqEqual
  <2>6. QED
    BY <1>3, <2>3, <2>5
<1>6. QED
  BY <1>4, <1>5

\* A change of profile or period, and the snap before it whose effects still
\* wait, each replace the entry.
LEMMA ReplacesStep == ShellInv => ReplacesItsEntry
<1> SUFFICES ASSUME ShellInv, Dropdown, hist[at].page # Bogus
             PROVE  /\ Len(hist') = Len(hist) /\ at' = at
                    /\ \A i \in 1..Len(hist) \ {at} : hist'[i] = hist[i]
  BY DEF ReplacesItsEntry
<1>1. PICK u \in State : Move /\ u # ui /\ u.page = ui.page /\ Commit(at, u)
  BY DEF Dropdown, ChooseProfile, ChoosePeriod, ShellInv, ShellTypeOK, State
<1>2. /\ ui \in State /\ at \in 1..Len(hist) /\ hist[at].page = ui.page
      /\ hist' = AfterEffects(at, u).hist /\ at' = AfterEffects(at, u).at
      /\ pending \in {"no", "snap"}
  BY <1>1, PageOnShow DEF ShellInv, ShellTypeOK, Commit
<1>3. /\ IsBar(Bar(at)) /\ Alternates(Bar(at).hist) /\ Settled(hist)
      /\ Bar(at).hist = hist /\ Bar(at).at = at
  BY <1>2, BarHere DEF Bar, JustOpened
<1>4. CASE pending = "no"
  <2>1. AfterEffects(at, u) = UrlEffect(Bar(at), u) /\ Shows(Bar(at), u)
    BY <1>1, <1>3, <1>4 DEF AfterEffects, Bar, Shows
  <2>2. QED
    BY <1>1, <1>2, <1>3, <2>1, UrlReplaced
<1>5. CASE pending = "snap"
  <2> DEFINE b == UrlEffect(Bar(at), ui)
  <2>1. AfterEffects(at, u) = UrlEffect(b, u) /\ Shows(Bar(at), ui)
    BY <1>1, <1>3, <1>5 DEF AfterEffects, Bar, Shows
  <2>2. /\ Told(b, ui) /\ b.at = at /\ Len(b.hist) = Len(hist)
        /\ \A i \in 1..Len(hist) \ {at} : b.hist[i] = hist[i]
    BY <1>2, <1>3, <2>1, UrlReplaced
  <2> HIDE DEF b
  <2>3. IsBar(b) /\ Alternates(b.hist) /\ Shows(b, u) /\ b.hist[b.at].page = u.page
    BY <1>1, <2>2 DEF Told, Shows
  <2>4. /\ UrlEffect(b, u).at = b.at /\ Len(UrlEffect(b, u).hist) = Len(b.hist)
        /\ \A i \in 1..Len(b.hist) \ {b.at} : UrlEffect(b, u).hist[i] = b.hist[i]
    BY <1>1, <2>3, UrlReplaced
  <2>5. QED
    BY <1>2, <2>1, <2>2, <2>4
<1>6. QED
  BY <1>2, <1>4, <1>5

LEMMA SameStep == ShellInv => ShowsTheSame
<1> SUFFICES ASSUME ShellInv, Reopen, pending = "no", hist[at].page # Bogus PROVE ui' = ui
  BY DEF ShowsTheSame
<1>1. hist[at] = ui /\ ui \in State /\ saved \in Saved
  BY DEF ShellInv, ShellTypeOK, UrlTellsState
<1>2. QED
  BY <1>1, OpenedState, StateIsUrl DEF Reopen

-----------------------------------------------------------------------------
(* The pages drive the shell by its own operations                         *)

LEMMA ShellStep == [Next]_vars => [ShellNext]_shellVars
<1> SUFFICES ASSUME [Next]_vars PROVE [ShellNext]_shellVars
  OBVIOUS
<1> USE DEF ShellNext
<1>1. ASSUME NEW p \in Pages, Navigate(p) PROVE ShellNext
  BY <1>1 DEF Navigate
<1>2. ASSUME NEW x \in Profiles, PickProfile(x) PROVE ShellNext
  BY <1>2 DEF PickProfile
<1>3. ASSUME NEW x \in Periods, PickPeriod(x) PROVE ShellNext
  BY <1>3 DEF PickPeriod
<1>4. ASSUME NEW i \in {at - 1, at + 1}, Travel(i) PROVE ShellNext
  BY <1>4 DEF Travel
<1>5. CASE FlushEffects \/ SnapToOffer \/ Reload
  BY <1>5 DEF FlushEffects, SnapToOffer, Reload
<1>6. ASSUME NEW h \in Hooks, Answer(h) \/ AnswerError(h) \/ AnswerStale(h) \/ AnswerFails(h)
      PROVE  UNCHANGED shellVars
  BY <1>6 DEF Answer, AnswerError, AnswerStale, AnswerFails, Ends
<1>7. CASE AnswerWarming \/ Poll
  BY <1>7 DEF AnswerWarming, Ends, Poll, LoadAgain, shellVars
<1>8. ASSUME NEW H \in Banners, Retry(H) PROVE ShellNext
  BY <1>8 DEF Retry, LoadAgain, OtherMove
<1>9. CASE OpenRow \/ ExportStart
  BY <1>9 DEF OpenRow, ExportStart, OtherMove
<1>10. ASSUME NEW ok \in BOOLEAN, ExportEnds(ok) PROVE UNCHANGED shellVars
  BY <1>10 DEF ExportEnds
<1>11. CASE UNCHANGED vars
  BY <1>11 DEF vars
<1>12. QED
  BY <1>1, <1>2, <1>3, <1>4, <1>5, <1>6, <1>7, <1>8, <1>9, <1>10, <1>11 DEF Next

LEMMA ShellInvHolds == ShellInit /\ [][ShellNext]_shellVars => []ShellInv
BY ShellInitInv, ShellNextInv, PTL

-----------------------------------------------------------------------------
(* Hooks and pages                                                         *)

USE LimitsAssumption

LEMMA PagesAre == Pages = {"dashboard", "services", "resources", "audit", "export"}
BY PagesAssumption DEF AllPageHooks

LEMMA PageHooksAre == \A p \in Pages : PageHooks[p] = AllPageHooks[p] \cap Followed
BY PagesAssumption DEF PageHooks

LEMMA MountedHooks ==
  ASSUME NEW u \in State, NEW comp \in BOOLEAN
  PROVE  Mounted(u, comp) \subseteq Hooks /\ "context" \in Mounted(u, comp)
BY PagesAssumption DEF Mounted, Hooks, PageHooks, State

\* The hooks that the actions name are mounted on their pages.
LEMMA NamedHooks ==
  ASSUME NEW u \in State, NEW comp \in BOOLEAN
  PROVE  /\ u.page = "dashboard" => {"summary", "top"} \subseteq Mounted(u, comp)
         /\ u.page = "services" => "list" \in Mounted(u, comp) /\ "composition" \in Mounted(u, TRUE)
         /\ u.page = "resources" => "resources" \in Mounted(u, comp)
         /\ u.page = "audit" => "audit" \in Mounted(u, comp)
BY PagesAre, PageHooksAre, FollowedAssumption
DEF Mounted, AllPageHooks, DashboardHooks, ServicesHooks, ResourcesHooks, AuditHooks

\* So are those the banners may name, if they are followed.
LEMMA FollowedHooks ==
  ASSUME NEW u \in State, NEW comp \in BOOLEAN
  PROVE  /\ u.page = "dashboard" => {"services", "trend"} \cap Hooks \subseteq Mounted(u, comp)
         /\ u.page = "audit" => {"budgets"} \cap Hooks \subseteq Mounted(u, comp)
<1>1. \A h \in Hooks : h = "context" \/ h \in Followed
  BY DEF Hooks, PageHooks
<1>2. QED
  BY <1>1, PagesAre, PageHooksAre
  DEF Mounted, AllPageHooks, DashboardHooks, ServicesHooks, ResourcesHooks, AuditHooks

LEMMA DepsTyped ==
  ASSUME NEW h, NEW u \in State PROVE DepsOf(h, u) \in Deps /\ DepsOf(h, u) # Nothing
BY NothingAssumption DEF DepsOf, Deps, State

LEMMA MountingTyped == Mounting \in View
BY DEF Mounting, View

LEMMA OutcomeTyped == \A v, p : Outcome(v, p) \in Cues
BY DEF Outcome, Cues

\* A Retry reloads hooks of the page on screen only.
LEMMA BannersOnPage ==
  ASSUME ui \in State, compNeeded \in BOOLEAN, NEW H \in Banners, NEW h \in H
  PROVE  OnPage(h)
<1>1. Fatal \subseteq Mounted(ui, compNeeded)
  BY NamedHooks, PagesAre DEF Fatal, State
<1>2. CASE Fatal # {}
  BY <1>1, <1>2 DEF Banners, OnPage
<1>3. CASE Fatal = {} /\ ui.page = "dashboard"
  BY <1>3, NamedHooks, FollowedHooks DEF Banners, OnPage
<1>4. CASE Fatal = {} /\ ui.page = "audit"
  BY <1>4, NamedHooks, FollowedHooks DEF Banners, OnPage
<1>5. CASE Fatal = {} /\ ui.page = "resources"
  BY <1>5, NamedHooks DEF Banners, OnPage
<1>6. CASE Fatal = {} /\ ui.page \notin {"dashboard", "resources", "audit"}
  BY <1>6 DEF Banners
<1>7. QED
  BY <1>2, <1>3, <1>4, <1>5, <1>6

-----------------------------------------------------------------------------
(* Commits keep the pages' invariant                                       *)

LEMMA CommitPages ==
  ASSUME IInv, NEW u \in State, NEW c \in Cues, PagesCommit(c, u), ui' = u, pending' = "no",
         moves' \in Nat, moves' >= moves, Stays(u) \/ moves' > moves
  PROVE  PagesInv'
<1> DEFINE start == Starting(u)
           here(h) == h \in Mounted(u, CompNeeded(u))
           kept(h) == h = "context" \/ Stays(u)
<1>0. ui \in State /\ moves \in Nat /\ compNeeded \in BOOLEAN /\ PagesTypeOK
  BY DEF IInv, ShellInv, ShellTypeOK, PagesInv, PagesTypeOK
<1>1. /\ \A h \in Hooks :
           /\ view'[h] = IF kept(h)
                         THEN IF h \in start THEN [view[h] EXCEPT !.error = FALSE] ELSE view[h]
                         ELSE Mounting
           /\ h \in busy' <=> (h \in busy /\ kept(h)) \/ h \in start
           /\ ran'[h] = IF here(h) THEN DepsOf(h, u) ELSE Nothing
      /\ DOMAIN view' = Hooks /\ DOMAIN ran' = Hooks
      /\ view' = [h \in Hooks |-> view'[h]] /\ ran' = [h \in Hooks |-> ran'[h]]
      /\ busy' \subseteq busy \cup {"context"} \cup start
  BY DEF PagesCommit
<1>2. /\ compNeeded' = CompNeeded(u) /\ cue' = CueAfter(c, u) /\ running' = (running /\ Stays(u))
      /\ others' = (IF running /\ ~Stays(u) THEN others + 1 ELSE others)
      /\ faults' = faults /\ warmings' = warmings
  BY DEF PagesCommit
<1>3. /\ CompNeeded(u) \in BOOLEAN /\ start \subseteq Mounted(u, CompNeeded(u))
      /\ Mounted(u, CompNeeded(u)) \subseteq Hooks /\ here("context") /\ "context" \in Hooks
  <2>1. CompNeeded(u) \in BOOLEAN
    BY <1>0 DEF CompNeeded, Stays
  <2>2. QED
    BY <2>1, MountedHooks DEF Starting
\* A hook that starts nothing stays mounted, and asks what it last asked.
<1>4. ASSUME NEW h \in Hooks, here(h), h \notin start
      PROVE  kept(h) /\ OnPage(h) /\ ran[h] = DepsOf(h, u)
  <2>1. kept(h) /\ ran[h] = DepsOf(h, u)
    BY <1>4 DEF Starting
  <2>2. OnPage(h)
    <3>1. CASE h = "context"
      BY <3>1, <1>0, MountedHooks DEF OnPage
    <3>2. CASE Stays(u)
      BY <1>4, <3>2 DEF Stays, CompNeeded, Mounted, OnPage
    <3>3. QED
      BY <2>1, <3>1, <3>2
  <2>3. QED
    BY <2>1, <2>2
<1>5. \A h \in Hooks : OnPage(h)' <=> here(h)
  BY <1>2 DEF OnPage
<1> HIDE DEF start, here, kept
<1>6. PagesTypeOK'
  <2>1. \A h \in Hooks : view'[h] \in View
    <3> TAKE h \in Hooks
    <3>1. view[h] \in View
      BY <1>0 DEF PagesTypeOK
    <3>2. [view[h] EXCEPT !.error = FALSE] \in View
      BY <3>1 DEF View
    <3>3. QED
      BY <1>1, <3>1, <3>2, MountingTyped
  <2>2. \A h \in Hooks : ran'[h] \in Deps \cup {Nothing}
    BY <1>1, DepsTyped
  <2>3. view' \in [Hooks -> View] /\ ran' \in [Hooks -> Deps \cup {Nothing}]
    BY <1>1, <2>1, <2>2
  <2>4. busy' \in SUBSET Hooks
    BY <1>0, <1>1, <1>3 DEF PagesTypeOK
  <2>5. cue' \in Cues
    BY <1>2, OutcomeTyped DEF CueAfter
  <2>6. others' \in Nat /\ running' \in BOOLEAN
    BY <1>0, <1>2 DEF PagesTypeOK, Stays
  <2>7. QED
    BY <1>0, <1>2, <1>3, <2>3, <2>4, <2>5, <2>6 DEF PagesTypeOK
<1>7. GoneIsGone'
  <2>1. ASSUME NEW h \in Hooks, ~here(h)
        PROVE  view'[h] = Mounting /\ h \notin busy' /\ ran'[h] = Nothing
    <3>1. h # "context" /\ h \notin start
      BY <1>3, <2>1 DEF here
    <3>2. CASE Stays(u)
      <4>1. ~OnPage(h)
        BY <2>1, <3>2 DEF here, Stays, CompNeeded, Mounted, OnPage
      <4>2. view[h] = Mounting /\ h \notin busy
        BY <4>1 DEF IInv, PagesInv, GoneIsGone
      <4>3. QED
        BY <1>1, <2>1, <3>1, <4>2
    <3>3. CASE ~Stays(u)
      BY <1>1, <2>1, <3>1, <3>3 DEF kept
    <3>4. QED
      BY <3>2, <3>3
  <2>2. QED
    BY <1>5, <2>1 DEF GoneIsGone
<1>8. EffectsRan'
  BY <1>1, <1>5, DepsTyped DEF EffectsRan
<1>9. ShowsWhatItAsked' /\ NoIdleSkeleton'
  <2>1. ASSUME NEW h \in Hooks
        PROVE  /\ h \in busy' \/ view'[h].error \/ view'[h].data \in {Nothing, ran'[h]}
               /\ here(h) => h \in busy' \/ view'[h].error \/ view'[h].data # Nothing
    <3>1. CASE h \in start
      BY <1>1, <3>1
    <3>2. CASE ~here(h)
      <4>1. view'[h].data = Nothing
        BY <1>5, <1>7, <3>2 DEF GoneIsGone, Mounting
      <4>2. QED
        BY <3>2, <4>1
    <3>3. CASE here(h) /\ h \notin start
      <4>1. kept(h) /\ OnPage(h) /\ ran[h] = DepsOf(h, u)
        BY <1>4, <3>3
      <4>2. view'[h] = view[h] /\ (h \in busy' <=> h \in busy) /\ ran'[h] = ran[h]
        BY <1>1, <3>3, <4>1
      <4>3. pending # "first"
        BY <4>1, DepsTyped DEF IInv, PagesInv, NothingYet
      <4>4. QED
        BY <4>1, <4>2, <4>3 DEF IInv, PagesInv, ShowsWhatItAsked, NoIdleSkeleton
    <3>4. QED
      BY <3>1, <3>2, <3>3
  <2>2. QED
    BY <1>5, <2>1 DEF ShowsWhatItAsked, NoIdleSkeleton
<1>10. ExportsCounted'
  <2>1. (running => ui.page = "export") /\ others + (IF running THEN 1 ELSE 0) <= moves
        /\ running \in BOOLEAN /\ others \in Nat
    BY <1>0 DEF IInv, PagesInv, ExportsCounted, PagesTypeOK
  <2>2. running' => ui'.page = "export"
    BY <1>2, <2>1 DEF Stays
  <2>3. others' + (IF running' THEN 1 ELSE 0) <= moves'
    <3>1. CASE running /\ ~Stays(u)
      BY <1>0, <1>2, <2>1, <3>1
    <3>2. CASE ~(running /\ ~Stays(u))
      BY <1>0, <1>2, <2>1, <3>2
    <3>3. QED
      BY <3>1, <3>2
  <2>4. QED
    BY <2>2, <2>3 DEF ExportsCounted
<1>11. NothingYet'
  BY DEF NothingYet
<1>12. QED
  BY <1>6, <1>7, <1>8, <1>9, <1>10, <1>11 DEF PagesInv

-----------------------------------------------------------------------------
(* Loads keep the pages' invariant                                         *)

\* What a load of h may leave: the figures, the error or the placeholder of
\* what h asked, or the error over what was there.
Left(h, v) == v \in View /\ (v.error \/ v.data = ran[h])

LEMMA EndsPages ==
  ASSUME IInv, NEW h \in Hooks, NEW v, Left(h, v), Ends(h, v),
         faults' \in 0..MaxFaults, warmings' \in 0..MaxWarmings
  PROVE  PagesInv'
<1>1. /\ h \in busy /\ view' = [view EXCEPT ![h] = v] /\ busy' = busy \ {h}
      /\ cue' = cue \/ cue' = Outcome(view', ui.page)
      /\ UNCHANGED <<ui, pending, moves, ran, compNeeded, running, others>>
  BY DEF Ends, shellVars
<1>2. PagesTypeOK /\ v \in View /\ view \in [Hooks -> View]
  BY DEF IInv, PagesInv, PagesTypeOK, Left
<1>3. PagesTypeOK'
  BY <1>1, <1>2, OutcomeTyped DEF PagesTypeOK
<1>4. OnPage(h) /\ pending # "first" /\ ran[h] # Nothing
  BY <1>1 DEF IInv, PagesInv, GoneIsGone, NothingYet, EffectsRan
<1>5. \A g \in Hooks : /\ view'[g] = IF g = h THEN v ELSE view[g]
                       /\ g # h => (g \in busy' <=> g \in busy)
                       /\ OnPage(g)' <=> OnPage(g)
  BY <1>1, <1>2 DEF OnPage
<1>6. GoneIsGone' /\ NothingYet'
  BY <1>1, <1>4, <1>5 DEF IInv, PagesInv, GoneIsGone, NothingYet
<1>7. EffectsRan' /\ ExportsCounted'
  BY <1>1, <1>5 DEF IInv, PagesInv, EffectsRan, ExportsCounted
<1>8. ShowsWhatItAsked' /\ NoIdleSkeleton'
  BY <1>1, <1>4, <1>5 DEF IInv, PagesInv, ShowsWhatItAsked, NoIdleSkeleton, Left
<1>9. QED
  BY <1>3, <1>6, <1>7, <1>8 DEF PagesInv

LEMMA PayloadLeft ==
  ASSUME IInv, NEW h \in Hooks, NEW kind \in {"figures", "error", "warming"}, NEW stale \in BOOLEAN
  PROVE  Left(h, Payload(h, kind, stale))
BY DEF IInv, PagesInv, PagesTypeOK, Left, Payload, View

LEMMA LoadAgainPages ==
  ASSUME IInv, NEW H, \A h \in H : OnPage(h), pending # "first", LoadAgain(H),
         moves' \in Nat, moves' >= moves
  PROVE  PagesInv'
<1>0. ui \in State /\ compNeeded \in BOOLEAN /\ moves \in Nat /\ view \in [Hooks -> View]
  BY DEF IInv, ShellInv, ShellTypeOK, PagesInv, PagesTypeOK
<1>1. H \subseteq Hooks
  BY <1>0, MountedHooks DEF OnPage
<1>2. /\ busy' = busy \cup H
      /\ \A g \in Hooks : view'[g] = IF g \in H THEN [view[g] EXCEPT !.error = FALSE] ELSE view[g]
      /\ UNCHANGED <<ui, pending, ran, compNeeded, cue, running, others, faults, warmings>>
  BY DEF LoadAgain
<1>3. PagesTypeOK'
  <2>1. \A g \in Hooks : [view[g] EXCEPT !.error = FALSE] \in View
    BY <1>0 DEF View
  <2>2. view' \in [Hooks -> View]
    BY <1>0, <2>1 DEF LoadAgain
  <2>3. QED
    BY <1>1, <1>2, <2>2 DEF IInv, PagesInv, PagesTypeOK
<1>4. \A g \in Hooks : OnPage(g)' <=> OnPage(g)
  BY <1>2 DEF OnPage
<1>5. GoneIsGone' /\ NothingYet'
  BY <1>2, <1>4 DEF IInv, PagesInv, GoneIsGone, NothingYet
<1>6. EffectsRan'
  BY <1>2, <1>4 DEF IInv, PagesInv, EffectsRan
<1>7. ShowsWhatItAsked' /\ NoIdleSkeleton'
  BY <1>2, <1>4 DEF IInv, PagesInv, ShowsWhatItAsked, NoIdleSkeleton
<1>8. ExportsCounted'
  BY <1>0, <1>2 DEF IInv, PagesInv, PagesTypeOK, ExportsCounted
<1>9. QED
  BY <1>3, <1>5, <1>6, <1>7, <1>8 DEF PagesInv

\* An opened row mounts the composition, which loads.
LEMMA OpenRowPages == ASSUME IInv, OpenRow, moves' \in Nat, moves' >= moves PROVE PagesInv'
<1>0. ui \in State /\ compNeeded \in BOOLEAN /\ moves \in Nat /\ PagesTypeOK
  BY DEF IInv, ShellInv, ShellTypeOK, PagesInv, PagesTypeOK
<1>1. /\ ui.page = "services" /\ ~compNeeded /\ compNeeded' = TRUE
      /\ busy' = busy \cup {"composition"}
      /\ ran' = [ran EXCEPT !["composition"] = DepsOf("composition", ui)]
      /\ pending # "first"
      /\ UNCHANGED <<ui, pending, view, cue, running, others, faults, warmings>>
  BY DEF OpenRow, Move
<1>2. "composition" \in Hooks /\ "composition" \in Mounted(ui, TRUE)
  BY <1>0, <1>1, NamedHooks, MountedHooks
<1>3. \A g \in Hooks : g # "composition" =>
        (OnPage(g)' <=> OnPage(g)) /\ (g \in busy' <=> g \in busy) /\ ran'[g] = ran[g]
  BY <1>0, <1>1 DEF OnPage, Mounted, PagesTypeOK
<1>4. OnPage("composition")' /\ ran'["composition"] = DepsOf("composition", ui)
  BY <1>0, <1>1, <1>2 DEF OnPage, PagesTypeOK
<1>5. PagesTypeOK'
  BY <1>0, <1>1, <1>2, DepsTyped DEF PagesTypeOK
<1>6. GoneIsGone' /\ NothingYet'
  BY <1>1, <1>3, <1>4 DEF IInv, PagesInv, GoneIsGone, NothingYet
<1>7. EffectsRan'
  BY <1>0, <1>1, <1>3, <1>4, DepsTyped DEF IInv, PagesInv, EffectsRan, DepsOf
<1>8. ShowsWhatItAsked' /\ NoIdleSkeleton'
  BY <1>1, <1>3 DEF IInv, PagesInv, ShowsWhatItAsked, NoIdleSkeleton
<1>9. ExportsCounted'
  BY <1>0, <1>1 DEF IInv, PagesInv, PagesTypeOK, ExportsCounted
<1>10. QED
  BY <1>5, <1>6, <1>7, <1>8, <1>9 DEF PagesInv

-----------------------------------------------------------------------------
(* The pages keep their invariant                                          *)

LEMMA UnloadedPages ==
  Unloaded /\ pending = "first" /\ moves \in Nat /\ faults \in 0..MaxFaults
    /\ warmings \in 0..MaxWarmings => PagesInv
<1> SUFFICES ASSUME Unloaded, pending = "first", moves \in Nat, faults \in 0..MaxFaults,
                    warmings \in 0..MaxWarmings
             PROVE  PagesInv
  OBVIOUS
<1>1. PagesTypeOK
  BY MountingTyped DEF Unloaded, PagesTypeOK, Cues
<1>2. busy = {} /\ \A h \in Hooks : view[h] = Mounting /\ ran[h] = Nothing
  BY DEF Unloaded
<1>3. GoneIsGone /\ NothingYet /\ EffectsRan /\ NoIdleSkeleton
  BY <1>2 DEF GoneIsGone, NothingYet, EffectsRan, NoIdleSkeleton
<1>4. ShowsWhatItAsked
  BY <1>2 DEF ShowsWhatItAsked, Mounting
<1>5. ExportsCounted
  BY DEF Unloaded, ExportsCounted
<1>6. QED
  BY <1>1, <1>3, <1>4, <1>5 DEF PagesInv

\* Steps that leave view, busy, ran and compNeeded alone, and the page.
LEMMA SamePages ==
  ASSUME IInv, UNCHANGED <<view, busy, ran, compNeeded>>, ui'.page = ui.page,
         \/ ui' = ui /\ pending' = pending
         \/ pending = "no" /\ pending' = "snap"
  PROVE  /\ GoneIsGone' /\ NothingYet' /\ EffectsRan' /\ ShowsWhatItAsked' /\ NoIdleSkeleton'
<1>1. \A g \in Hooks : OnPage(g)' <=> OnPage(g)
  BY DEF OnPage, Mounted
<1>2. GoneIsGone' /\ NothingYet' /\ ShowsWhatItAsked' /\ NoIdleSkeleton'
  BY <1>1 DEF IInv, PagesInv, GoneIsGone, NothingYet, ShowsWhatItAsked, NoIdleSkeleton
<1>3. EffectsRan'
  BY <1>1 DEF IInv, PagesInv, EffectsRan
<1>4. QED
  BY <1>2, <1>3

LEMMA PagesInvNext == IInv /\ [Next]_vars => PagesInv'
<1> SUFFICES ASSUME IInv, [Next]_vars PROVE PagesInv'
  OBVIOUS
<1>0. ShellTypeOK /\ ui \in State /\ moves \in Nat /\ PagesTypeOK /\ cue \in Cues /\ "working" \in Cues
  BY DEF IInv, ShellInv, ShellTypeOK, PagesInv, PagesTypeOK, Cues
<1>s. ui' \in State /\ moves' \in Nat
  BY ShellStep, ShellNextInv DEF IInv, ShellInv, ShellTypeOK
<1>m. Move => moves' = moves + 1 /\ pending # "first"
  BY DEF Move
<1>1. ASSUME NEW p \in Pages, Navigate(p) PROVE PagesInv'
  <2>1. PagesCommit(cue, ui') /\ pending' = "no" /\ moves' = moves + 1
    BY <1>1, <1>m DEF Navigate, GoTo, Commit
  <2>2. QED
    BY <1>0, <1>s, <2>1, CommitPages
<1>2. ASSUME NEW x \in Profiles, PickProfile(x) PROVE PagesInv'
  <2>1. PagesCommit("working", ui') /\ pending' = "no" /\ moves' = moves + 1
    BY <1>2, <1>m DEF PickProfile, ChooseProfile, Commit
  <2>2. QED
    BY <1>0, <1>s, <2>1, CommitPages
<1>3. ASSUME NEW x \in Periods, PickPeriod(x) PROVE PagesInv'
  <2>1. PagesCommit("working", ui') /\ pending' = "no" /\ moves' = moves + 1
    BY <1>3, <1>m DEF PickPeriod, ChoosePeriod, Commit
  <2>2. QED
    BY <1>0, <1>s, <2>1, CommitPages
<1>4. ASSUME NEW i \in {at - 1, at + 1}, Travel(i) PROVE PagesInv'
  <2>1. PagesCommit(cue, ui') /\ pending' = "no" /\ moves' = moves + 1
    BY <1>4, <1>m DEF Travel, Pop, Commit
  <2>2. QED
    BY <1>0, <1>s, <2>1, CommitPages
<1>5. CASE FlushEffects
  <2>1. PagesCommit(cue, ui) /\ ui' = ui /\ pending' = "no" /\ moves' = moves /\ Stays(ui)
    BY <1>5 DEF FlushEffects, RunEffects, Commit, Stays
  <2>2. QED
    BY <1>0, <1>s, <2>1, CommitPages
<1>6. CASE SnapToOffer
  <2>1. /\ pending = "no" /\ pending' = "snap" /\ ui'.page = ui.page
        /\ UNCHANGED <<view, busy, ran, compNeeded, cue, running, others, faults, warmings, moves>>
    BY <1>0, <1>6, SnappedState DEF SnapToOffer, Snap, pageVars
  <2>2. PagesTypeOK' /\ ExportsCounted'
    BY <1>0, <2>1 DEF IInv, PagesInv, PagesTypeOK, ExportsCounted
  <2>3. QED
    BY <2>1, <2>2, SamePages DEF PagesInv
<1>7. CASE Reload
  <2>1. Unloaded' /\ pending' = "first" /\ UNCHANGED <<faults, warmings>>
    BY <1>7 DEF Reload, Reopen, Unloaded
  <2>2. (Unloaded /\ pending = "first" /\ moves \in Nat /\ faults \in 0..MaxFaults
         /\ warmings \in 0..MaxWarmings => PagesInv)'
    BY UnloadedPages, PTL
  <2>3. QED
    BY <1>0, <1>s, <2>1, <2>2 DEF PagesTypeOK
<1>8. ASSUME NEW h \in Hooks, Answer(h) \/ AnswerError(h) \/ AnswerStale(h) \/ AnswerFails(h)
      PROVE  PagesInv'
  <2>1. PICK v : Ends(h, v) /\ Left(h, v)
    <3>1. Left(h, [view[h] EXCEPT !.error = TRUE])
      BY <1>0 DEF PagesTypeOK, Left, View
    <3>2. QED
      BY <1>8, <3>1, PayloadLeft DEF Answer, AnswerError, AnswerStale, AnswerFails
  <2>2. faults' \in 0..MaxFaults /\ warmings' \in 0..MaxWarmings
    <3>1. faults \in 0..MaxFaults /\ warmings \in 0..MaxWarmings
      BY <1>0 DEF PagesTypeOK
    <3>2. Fault \/ UNCHANGED <<faults, warmings>>
      BY <1>8 DEF Answer, AnswerError, AnswerStale, AnswerFails
    <3>3. QED
      BY <3>1, <3>2 DEF Fault
  <2>3. QED
    BY <2>1, <2>2, EndsPages
<1>9. CASE AnswerWarming
  <2>1. /\ "top" \in Hooks /\ Ends("top", Payload("top", "warming", FALSE))
        /\ faults' \in 0..MaxFaults /\ warmings' \in 0..MaxWarmings
    BY <1>0, <1>9 DEF AnswerWarming, Ends, PagesTypeOK
  <2>2. QED
    BY <2>1, PayloadLeft, EndsPages
<1>10. CASE Poll
  <2>1. ui.page = "dashboard" /\ view["top"].kind = "warming" /\ LoadAgain({"top"}) /\ moves' = moves
    BY <1>10 DEF Poll
  <2>2. "top" \in Hooks /\ OnPage("top")
    BY <1>0, <2>1, NamedHooks, MountedHooks DEF OnPage, PagesTypeOK
  <2>3. pending # "first"
    BY <2>1, <2>2 DEF IInv, PagesInv, NothingYet, Mounting
  <2>4. QED
    BY <1>0, <2>1, <2>2, <2>3, LoadAgainPages
<1>11. ASSUME NEW H \in Banners, Retry(H) PROVE PagesInv'
  <2>1. LoadAgain(H) /\ moves' = moves + 1 /\ pending # "first"
    BY <1>11, <1>m DEF Retry
  <2>2. \A h \in H : OnPage(h)
    BY <1>0, BannersOnPage DEF PagesTypeOK
  <2>3. QED
    BY <1>0, <2>1, <2>2, LoadAgainPages
<1>12. CASE OpenRow
  BY <1>0, <1>12, <1>m, OpenRowPages DEF OpenRow
<1>13. CASE ExportStart
  <2>1. /\ ui.page = "export" /\ ~running /\ running' = TRUE /\ cue' = "working" /\ moves' = moves + 1
        /\ UNCHANGED <<view, busy, ran, compNeeded, others, faults, warmings, ui, pending>>
    BY <1>13, <1>m DEF ExportStart
  <2>2. PagesTypeOK' /\ ExportsCounted'
    BY <1>0, <2>1 DEF IInv, PagesInv, PagesTypeOK, ExportsCounted
  <2>3. QED
    BY <2>1, <2>2, SamePages DEF PagesInv
<1>14. ASSUME NEW ok \in BOOLEAN, ExportEnds(ok) PROVE PagesInv'
  <2>1. /\ \/ running /\ running' = FALSE /\ others' = others
           \/ others > 0 /\ others' = others - 1 /\ running' = running
        /\ cue' \in Cues /\ faults' \in 0..MaxFaults
        /\ UNCHANGED <<view, busy, ran, compNeeded, warmings, ui, pending, moves>>
    BY <1>0, <1>14 DEF ExportEnds, shellVars, Cues, PagesTypeOK
  <2>2. PagesTypeOK'
    <3>1. others \in Nat /\ running \in BOOLEAN
      BY <1>0 DEF PagesTypeOK
    <3>2. others' \in Nat
      BY <2>1, <3>1
    <3>3. running' \in BOOLEAN
      BY <2>1, <3>1, Zenon
    <3>4. QED
      BY <1>0, <2>1, <3>2, <3>3 DEF PagesTypeOK
  <2>e. ExportsCounted'
    <3>1. (running => ui.page = "export") /\ others + (IF running THEN 1 ELSE 0) <= moves
          /\ running \in BOOLEAN /\ others \in Nat
      BY <1>0 DEF IInv, PagesInv, ExportsCounted, PagesTypeOK
    <3>2. others' + (IF running' THEN 1 ELSE 0) <= moves' /\ (running' => running)
      <4>1. CASE running /\ running' = FALSE /\ others' = others
        BY <1>0, <2>1, <3>1, <4>1
      <4>2. CASE others > 0 /\ others' = others - 1 /\ running' = running
        <5>1. others' \in Nat /\ others' + 1 = others
          BY <3>1, <4>2
        <5>2. CASE running
          BY <1>0, <2>1, <3>1, <4>2, <5>1, <5>2
        <5>3. CASE ~running
          BY <1>0, <2>1, <3>1, <4>2, <5>1, <5>3
        <5>4. QED
          BY <5>2, <5>3
      <4>3. QED
        BY <2>1, <4>1, <4>2
    <3>3. QED
      BY <2>1, <3>1, <3>2 DEF ExportsCounted
  <2>3. QED
    BY <2>1, <2>2, <2>e, SamePages DEF PagesInv
<1>15. CASE UNCHANGED vars
  <2>1. UNCHANGED shellVars /\ UNCHANGED pageVars
    BY <1>15 DEF vars
  <2>2. PagesTypeOK' /\ ExportsCounted'
    BY <1>0, <2>1 DEF shellVars, pageVars, IInv, PagesInv, PagesTypeOK, ExportsCounted
  <2>3. QED
    BY <2>1, <2>2, SamePages DEF PagesInv, shellVars, pageVars
<1>16. QED
  BY <1>1, <1>2, <1>3, <1>4, <1>5, <1>6, <1>7, <1>8, <1>9, <1>10, <1>11, <1>12, <1>13, <1>14, <1>15
  DEF Next

-----------------------------------------------------------------------------
LEMMA InitInv == Init => IInv
<1> SUFFICES ASSUME Init PROVE IInv
  OBVIOUS
<1>1. ShellInv
  BY ShellInitInv DEF Init
<1>2. Unloaded /\ pending = "first" /\ moves = 0 /\ faults = 0 /\ warmings = 0
  BY DEF Init, ShellInit
<1>3. PagesInv
  BY <1>2, UnloadedPages
<1>4. QED
  BY <1>1, <1>3 DEF IInv

LEMMA NextInv == IInv /\ [Next]_vars => IInv'
BY ShellStep, ShellNextInv, PagesInvNext DEF IInv

LEMMA SpecInv == Spec => []IInv
BY InitInv, NextInv, PTL DEF Spec

\* Types, the bound on exports of pages left among them.
THEOREM TypeCorrect == Spec => []TypeOK
<1>1. IInv => TypeOK
  <2> SUFFICES ASSUME IInv PROVE TypeOK
    OBVIOUS
  <2>1. ShellTypeOK /\ PagesTypeOK /\ others + (IF running THEN 1 ELSE 0) <= moves
    BY DEF IInv, ShellInv, PagesInv, ExportsCounted
  <2>2. others \in Nat /\ moves \in 0..MaxMoves /\ running \in BOOLEAN
    BY <2>1 DEF ShellTypeOK, PagesTypeOK
  <2>3. others \in 0..MaxMoves
    BY <2>1, <2>2
  <2>4. QED
    BY <2>1, <2>3 DEF TypeOK, PagesTypeOK
<1>2. QED
  BY <1>1, SpecInv, PTL

\* Every step of the pages is, on the shell's variables, one of the shell's
\* operations or nothing: no load, poll, banner or export touches the address,
\* the history or what is saved.
LEMMA PagesUseShell == Spec => ShellInit /\ [][ShellNext]_shellVars
<1>1. Init => ShellInit
  BY DEF Init
<1>2. QED
  BY <1>1, ShellStep, PTL DEF Spec

\* Whatever the user did, with Back, dropdowns and snaps in any order, the
\* address tells the page, profile and period on screen.
THEOREM AddressTellsScreen == Spec => []UrlTellsState
<1>1. ShellInv => UrlTellsState
  BY DEF ShellInv
<1>2. QED
  BY <1>1, PagesUseShell, ShellInvHolds, PTL

\* Two entries of the history in a row are never of one page.
THEOREM BackLeavesPage == Spec => []BackNavigatesPages
<1>1. ShellInv => BackNavigatesPages
  BY DEF ShellInv
<1>2. QED
  BY <1>1, PagesUseShell, ShellInvHolds, PTL

\* Back undoes a page change: navigating pushes onto the state that is left,
\* as it is, with the profile and period chosen since, and Back or Forward
\* show the entry they reach and lose none.
THEOREM BackUndoesNavigation == Spec => NavigatePushes /\ TravelReturns
<1>1. IInv /\ [Next]_vars => [PushesWhatItLeaves]_vars
  BY PushesStep DEF IInv
<1>2. IInv /\ [Next]_vars => [ShowsWhatItReaches]_vars
  BY ReachesStep DEF IInv
<1>3. QED
  BY <1>1, <1>2, SpecInv, PTL DEF Spec, NavigatePushes, TravelReturns

\* A dropdown changes the entry on show and adds none, snapped or not.
THEOREM DropdownsAddNoEntry == Spec => DropdownsReplace
<1>1. IInv /\ [Next]_vars => [ReplacesItsEntry]_vars
  BY ReplacesStep DEF IInv
<1>2. QED
  BY <1>1, SpecInv, PTL DEF Spec, DropdownsReplace

\* The address is shareable: a tab loaded again at it shows page, profile and
\* period as they were.
THEOREM ReloadKeepsScreen == Spec => ReloadShowsTheSame
<1>1. IInv /\ [Next]_vars => [ShowsTheSame]_vars
  BY SameStep DEF IInv
<1>2. QED
  BY <1>1, SpecInv, PTL DEF Spec, ReloadShowsTheSame

\* The hooks whose failure takes the place of the page.
Leading == {"summary", "list", "resources", "audit"}

\* What the places of a page are to be: one that does not wait for its hook is
\* named in AskNothing, and one whose hook's failure leaves the page where it is
\* in OutliveFailure, unless it shows the failure itself.
Outlives(name, hook) ==
  hook \in Leading \/ name \in OutliveFailure \/ (name = "top resources" /\ hook = "top")

Named(p) ==
  /\ p.hook # "context"
  /\ p.hook \notin p.waits => p.name \in AskNothing
  /\ Outlives(p.name, p.hook)

LEMMA GuardedNamed ==
  ASSUME NEW h, NEW N, h # "context", \A n \in N : Outlives(n, h)
  PROVE  \A p \in Guarded(h, N) : Named(p)
BY DEF Guarded, Panel, Named

LEMMA BareNamed ==
  ASSUME NEW h, NEW N, h # "context", \A n \in N : n \in AskNothing /\ Outlives(n, h)
  PROVE  \A p \in Bare(h, N) : Named(p)
BY DEF Bare, Panel, Named

LEMMA DashboardBoardNamed == \A p \in DashboardBoard : Named(p)
<1>1. \A p \in Bare("summary", {"cost basis", "change"}) : Named(p)
  BY BareNamed DEF Outlives, OutliveFailure, Leading, AskNothing
<1>2. \A p \in Guarded("summary", {"total", "previous and forecast"}) : Named(p)
  BY GuardedNamed DEF Outlives, OutliveFailure, Leading
<1>3. \A p \in Bare("top", {"drift", "cross-check note"}) : Named(p)
  BY BareNamed DEF Outlives, OutliveFailure, Leading, AskNothing
<1>4. \A p \in Guarded("top", {"cross-check"}) : Named(p)
  BY GuardedNamed DEF Outlives, OutliveFailure, Leading
<1>5. \A p \in Guarded("services", {"departures"}) : Named(p)
  BY GuardedNamed DEF Outlives, OutliveFailure, Leading
<1>6. QED
  BY <1>1, <1>2, <1>3, <1>4, <1>5 DEF DashboardBoard

LEMMA DashboardPanelsNamed == \A p \in DashboardPanels : Named(p)
<1>1. \A p \in Bare("trend", {"peak and average", "failure banner", "stale banner"}) : Named(p)
  BY BareNamed DEF Outlives, OutliveFailure, Leading, AskNothing
<1>2. \A p \in Guarded("trend", {"trend bars"}) : Named(p)
  BY GuardedNamed DEF Outlives, OutliveFailure, Leading
<1>3. \A p \in Bare("top", {"attribution", "stale banner"}) : Named(p)
  BY BareNamed DEF Outlives, OutliveFailure, Leading, AskNothing
<1>4. \A p \in Guarded("top", {"top resources"}) : Named(p)
  BY GuardedNamed DEF Outlives, OutliveFailure, Leading
<1>5. \A p \in Bare("services", {"failure banner", "stale banner"}) : Named(p)
  BY BareNamed DEF Outlives, OutliveFailure, Leading, AskNothing
<1>6. \A p \in Guarded("services", {"service mix"}) : Named(p)
  BY GuardedNamed DEF Outlives, OutliveFailure, Leading
<1>7. \A p \in Bare("summary", {"stale banner"}) : Named(p)
  BY BareNamed DEF Outlives, OutliveFailure, Leading, AskNothing
<1>8. QED
  BY <1>1, <1>2, <1>3, <1>4, <1>5, <1>6, <1>7 DEF DashboardPanels

LEMMA ServicesPanelsNamed == \A p \in ServicesPanels : Named(p)
<1>1. \A p \in Guarded("list", {"services"}) : Named(p)
  BY GuardedNamed DEF Outlives, OutliveFailure, Leading
<1>2. \A p \in Bare("list", {"stale banner"}) : Named(p)
  BY BareNamed DEF Outlives, OutliveFailure, Leading, AskNothing
<1>3. Named(Breakdown)
  BY DEF Named, Outlives, OutliveFailure, Breakdown, Panel
<1>4. QED
  BY <1>1, <1>2, <1>3 DEF ServicesPanels

LEMMA ResourcesPanelsNamed == \A p \in ResourcesPanels : Named(p)
<1>1. \A p \in Bare("resources", {"reconciliation", "warnings", "filters", "stale banner"}) : Named(p)
  BY BareNamed DEF Outlives, OutliveFailure, Leading, AskNothing
<1>2. \A p \in Guarded("resources", {"rows"}) : Named(p)
  BY GuardedNamed DEF Outlives, OutliveFailure, Leading
<1>3. QED
  BY <1>1, <1>2 DEF ResourcesPanels

LEMMA AuditPanelsNamed == \A p \in AuditPanels : Named(p)
<1>1. \A p \in Bare("audit", {"regions scanned", "regions not scanned", "failure banner", "stale banner"}) : Named(p)
  BY BareNamed DEF Outlives, OutliveFailure, Leading, AskNothing
<1>2. \A p \in Guarded("audit", {"waste", "counts", "notices"}) : Named(p)
  BY GuardedNamed DEF Outlives, OutliveFailure, Leading
<1>3. \A p \in Bare("budgets", {"failure banner", "stale banner"}) : Named(p)
  BY BareNamed DEF Outlives, OutliveFailure, Leading, AskNothing
<1>4. \A p \in Guarded("budgets", {"budgets tracked", "budgets"}) : Named(p)
  BY GuardedNamed DEF Outlives, OutliveFailure, Leading
<1>5. QED
  BY <1>1, <1>2, <1>3, <1>4 DEF AuditPanels

LEMMA PanelsNamed == ASSUME NEW g \in Pages, NEW p \in AllPanels[g] PROVE Named(p)
<1>1. p \in DashboardBoard \/ p \in DashboardPanels \/ p \in ServicesPanels
      \/ p \in ResourcesPanels \/ p \in AuditPanels
  BY PagesAre DEF AllPanels
<1>2. QED
  BY <1>1, DashboardBoardNamed, DashboardPanelsNamed, ServicesPanelsNamed, ResourcesPanelsNamed,
     AuditPanelsNamed

\* A hook that fails without taking the page's place is not a leading one.
LEMMA NotFatal ==
  ASSUME ui.page \in Pages, Fatal = {}, NEW h \in AllPageHooks[ui.page], view[h].error
  PROVE  h \notin Leading
BY PagesAre
DEF Fatal, Failing, Leading, AllPageHooks, DashboardHooks, ServicesHooks, ResourcesHooks, AuditHooks

\* Once effects have run, what a page says is of the profile and period on
\* screen, except in the panels that do not wait for a load, while it goes on,
\* and in those that keep what they had when it has failed.
THEOREM FiguresNamed == Spec => []FiguresUnderOwnName
<1>1. IInv => FiguresUnderOwnName
  <2> SUFFICES ASSUME IInv, pending = "no", NEW p \in Panels,
                      ShowsOf(p) \notin {Nothing, DepsOf(p.hook, ui)}
               PROVE  \/ p.name \in AskNothing /\ p.hook \in busy
                      \/ p.name \in OutliveFailure /\ view[p.hook].error
    BY DEF FiguresUnderOwnName
  <2>0. ui \in State
    BY DEF IInv, ShellInv, ShellTypeOK
  <2>1. p.hook \in Hooks
    BY DEF Panels
  <2>2. ~Hidden(p) /\ view[p.hook].data \notin {Nothing, DepsOf(p.hook, ui)}
    BY DEF ShowsOf
  <2>3. OnPage(p.hook)
    BY <2>1, <2>2 DEF IInv, PagesInv, GoneIsGone, Mounting
  <2>4. ran[p.hook] = DepsOf(p.hook, ui)
    BY <2>1, <2>3 DEF IInv, PagesInv, EffectsRan
  <2>5. p.hook \in busy \/ view[p.hook].error
    BY <2>1, <2>2, <2>4 DEF IInv, PagesInv, ShowsWhatItAsked
  <2>6. ui.page \in Pages /\ p \in AllPanels[ui.page]
    BY <2>0 DEF State, Panels
  <2>7. Named(p)
    BY <2>6, PanelsNamed
  <2>8. p.hook \in busy => p.name \in AskNothing
    BY <2>2, <2>7 DEF Hidden, Named
  <2>9. view[p.hook].error => p.name \in OutliveFailure
    <3> SUFFICES ASSUME view[p.hook].error PROVE p.name \in OutliveFailure
      OBVIOUS
    <3>1. Fatal = {} /\ (p.name = "top resources" => ~Failing("top"))
      BY <2>2 DEF Hidden
    <3>2. p.hook \in AllPageHooks[ui.page]
      BY <2>0, <2>3, <2>6, <2>7, PageHooksAre DEF Named, OnPage, Mounted
    <3>3. p.hook \notin Leading
      BY <2>6, <3>1, <3>2, NotFatal
    <3>4. ~(p.name = "top resources" /\ p.hook = "top")
      BY <3>1 DEF Failing
    <3>5. QED
      BY <2>7, <3>3, <3>4 DEF Named, Outlives
  <2>10. QED
    BY <2>5, <2>8, <2>9
<1>2. QED
  BY <1>1, SpecInv, PTL

\* No panel is left with a skeleton and no load behind it, whatever was
\* navigated, snapped, retried, polled or failed: a mounted hook loads, or has
\* loaded, or shows its error.
THEOREM SkeletonsLoad == Spec => []NoIdleSkeleton
<1>1. IInv => NoIdleSkeleton
  BY DEF IInv, PagesInv
<1>2. QED
  BY <1>1, SpecInv, PTL
-----------------------------------------------------------------------------
(* The hooks of the pages are what useAsyncData promises                   *)

LoadOf(g) == IF g \in busy THEN ran[g] ELSE Nothing

\* A step of a hook as AsyncData sees it.
LEMMA HookSeen ==
  ASSUME NEW g \in Hooks
  PROVE  /\ ([h \in Hooks |-> IF h \in busy THEN ran[h] ELSE Nothing])[g] = LoadOf(g)
         /\ (([h \in Hooks |-> IF h \in busy THEN ran[h] ELSE Nothing])')[g]
              = IF g \in busy' THEN ran'[g] ELSE Nothing
BY DEF LoadOf

\* No two pages share a hook.
LEMMA PagesApart ==
  ASSUME NEW u \in State, NEW w \in State, u.page # w.page, NEW comp \in BOOLEAN, NEW dom \in BOOLEAN,
         NEW g, g # "context", g \in Mounted(u, comp)
  PROVE  g \notin Mounted(w, dom)
<1>1. u.page \in Pages /\ w.page \in Pages
  BY DEF State
<1>2. g \in AllPageHooks[u.page]
  BY <1>1, PageHooksAre DEF Mounted
<1>3. g \notin AllPageHooks[w.page]
  BY <1>1, <1>2, PagesAre
  DEF AllPageHooks, DashboardHooks, ServicesHooks, ResourcesHooks, AuditHooks
<1>4. QED
  BY <1>1, <1>3, PageHooksAre DEF Mounted

\* Loading for the first time changes nothing of what a hook shows.
LEMMA MountingLoads == [Mounting EXCEPT !.error = FALSE] = Mounting
<1>1. ASSUME NEW d, NEW k, NEW s, NEW e
      PROVE  LET v == [data |-> d, kind |-> k, stale |-> s, error |-> e]
             IN [v EXCEPT !.error = e] = v
  OBVIOUS
<1>2. QED
  BY <1>1, Zenon DEF Mounting

LEMMA HookStays ==
  ASSUME NEW g \in Hooks, ran'[g] = ran[g], g \in busy' <=> g \in busy, view'[g] = view[g]
  PROVE  Hook!Stays(g)
BY HookSeen DEF Hook!Stays, Hook!Becomes, LoadOf

LEMMA HookLeaves ==
  ASSUME NEW g \in Hooks, ran'[g] = Nothing, g \notin busy', view'[g] = Mounting
  PROVE  Hook!Leaves(g)
BY HookSeen DEF Hook!Leaves, Hook!Becomes, Hook!Mounting, Hook!Shown, Mounting

LEMMA HookStarts ==
  ASSUME NEW g \in Hooks, ran'[g] \in Deps, g \in busy', view'[g] = [view[g] EXCEPT !.error = FALSE]
  PROVE  Hook!Starts(g)
BY HookSeen DEF Hook!Starts, Hook!Becomes

\* Under a commit a hook leaves with its page, starts, or goes on.
LEMMA HookCommits ==
  ASSUME IInv, NEW u \in State, NEW c \in Cues, PagesCommit(c, u), ui' = u, PagesInv',
         NEW g \in Hooks
  PROVE  Hook!Starts(g) \/ Hook!Leaves(g) \/ Hook!Stays(g)
<1> DEFINE start == Starting(u)
           here == g \in Mounted(u, CompNeeded(u))
           kept == g = "context" \/ Stays(u)
<1>0. ui \in State /\ compNeeded \in BOOLEAN /\ CompNeeded(u) \in BOOLEAN /\ Stays(u) \in BOOLEAN
  BY DEF IInv, ShellInv, ShellTypeOK, PagesInv, PagesTypeOK, CompNeeded, Stays
<1>1. /\ view'[g] = IF kept THEN IF g \in start THEN [view[g] EXCEPT !.error = FALSE] ELSE view[g]
                            ELSE Mounting
      /\ g \in busy' <=> (g \in busy /\ kept) \/ g \in start
      /\ ran'[g] = IF here THEN DepsOf(g, u) ELSE Nothing
      /\ compNeeded' = CompNeeded(u)
  BY DEF PagesCommit
<1>2. CASE ~here
  <2>1. ~OnPage(g)'
    BY <1>1, <1>2 DEF OnPage
  <2>2. ran'[g] = Nothing /\ g \notin busy' /\ view'[g] = Mounting
    BY <2>1 DEF PagesInv, GoneIsGone
  <2>3. QED
    BY <2>2, HookLeaves
<1>3. CASE here /\ g \in start
  <2>1. ran'[g] \in Deps /\ g \in busy'
    BY <1>1, <1>3, DepsTyped
  <2>2. CASE kept
    BY <1>1, <1>3, <2>1, <2>2, HookStarts
  <2>3. CASE ~kept
    <3>1. ~OnPage(g)
      BY <1>0, <1>3, <2>3, PagesApart DEF OnPage, Stays
    <3>2. view[g] = Mounting
      BY <3>1 DEF IInv, PagesInv, GoneIsGone
    <3>3. view'[g] = [view[g] EXCEPT !.error = FALSE]
      BY <1>1, <2>3, <3>2, MountingLoads
    <3>4. QED
      BY <2>1, <3>3, HookStarts
  <2>4. QED
    BY <2>2, <2>3
<1>4. CASE here /\ g \notin start
  <2>1. kept /\ ran[g] = DepsOf(g, u)
    BY <1>4 DEF Starting
  <2>2. QED
    BY <1>1, <1>4, <2>1, HookStays
<1>5. QED
  BY <1>2, <1>3, <1>4

\* A load ends under the dependencies it was started with.
LEMMA HookEnds ==
  ASSUME IInv, NEW h \in Hooks, NEW v \in Hook!Outcomes(ran[h], view[h]), Ends(h, v), NEW g \in Hooks
  PROVE  Hook!Ends(g) \/ Hook!Stays(g)
<1>1. h \in busy /\ view' = [view EXCEPT ![h] = v] /\ busy' = busy \ {h} /\ ran' = ran
  BY DEF Ends
<1>2. view \in [Hooks -> View]
  BY DEF IInv, PagesInv, PagesTypeOK
<1>3. CASE g = h
  <2>1. ran[g] # Nothing
    BY <1>1, <1>3 DEF IInv, PagesInv, GoneIsGone, NothingYet, EffectsRan
  <2>2. LoadOf(g) = ran[g] /\ view'[g] = v /\ g \notin busy'
    BY <1>1, <1>2, <1>3 DEF LoadOf
  <2>3. QED
    BY <1>1, <1>3, <2>1, <2>2, HookSeen DEF Hook!Ends, Hook!Becomes
<1>4. CASE g # h
  BY <1>1, <1>2, <1>4, HookStays
<1>5. QED
  BY <1>3, <1>4

LEMMA PayloadOutcome ==
  ASSUME NEW h, NEW v
  PROVE  /\ \A kind \in {"figures", "error", "warming"} :
              Payload(h, kind, FALSE) \in Hook!Outcomes(ran[h], v)
         /\ Payload(h, "figures", TRUE) \in Hook!Outcomes(ran[h], v)
         /\ [v EXCEPT !.error = TRUE] \in Hook!Outcomes(ran[h], v)
BY DEF Payload, Hook!Outcomes, Hook!Shown

\* A Retry or a tick of the poll starts a load of what was asked last.
LEMMA HookAgain ==
  ASSUME IInv, NEW H, \A h \in H : OnPage(h), pending # "first", LoadAgain(H), NEW g \in Hooks
  PROVE  Hook!Starts(g) \/ Hook!Stays(g)
<1>1. /\ busy' = busy \cup H /\ ran' = ran
      /\ view'[g] = IF g \in H THEN [view[g] EXCEPT !.error = FALSE] ELSE view[g]
  BY DEF LoadAgain
<1>2. CASE g \in H
  <2>1. ran[g] \in Deps
    BY <1>2 DEF IInv, PagesInv, PagesTypeOK, EffectsRan
  <2>2. QED
    BY <1>1, <1>2, <2>1, HookStarts
<1>3. CASE g \notin H
  BY <1>1, <1>3, HookStays
<1>4. QED
  BY <1>2, <1>3

LEMMA HookNext == IInv /\ [Next]_vars => Hook!Next
<1> SUFFICES ASSUME IInv, [Next]_vars, NEW g \in Hooks
             PROVE  \/ Hook!Changes(g) \/ Hook!Starts(g) \/ Hook!Ends(g)
                    \/ Hook!Leaves(g) \/ Hook!Stays(g)
  BY DEF Hook!Next
<1>0. /\ ui \in State /\ compNeeded \in BOOLEAN /\ PagesTypeOK /\ cue \in Cues /\ "working" \in Cues
      /\ ui' \in State /\ PagesInv'
  BY NextInv DEF IInv, ShellInv, ShellTypeOK, PagesInv, PagesTypeOK, Cues
<1>1. CASE \/ \E p \in Pages : Navigate(p)
           \/ \E x \in Profiles : PickProfile(x)
           \/ \E x \in Periods : PickPeriod(x)
           \/ \E i \in {at - 1, at + 1} : Travel(i)
           \/ FlushEffects
  <2>1. PICK c \in Cues : PagesCommit(c, ui')
    <3>1. FlushEffects => PagesCommit(cue, ui')
      BY DEF FlushEffects, RunEffects, Commit
    <3>2. QED
      BY <1>0, <1>1, <3>1 DEF Navigate, PickProfile, PickPeriod, Travel
  <2>2. QED
    BY <1>0, <2>1, HookCommits
<1>2. CASE Reload
  <2>1. ran'[g] = Nothing /\ g \notin busy' /\ view'[g] = Mounting
    BY <1>2 DEF Reload
  <2>2. QED
    BY <2>1, HookLeaves
<1>3. ASSUME NEW h \in Hooks, Answer(h) \/ AnswerError(h) \/ AnswerStale(h) \/ AnswerFails(h)
      PROVE  Hook!Ends(g) \/ Hook!Stays(g)
  <2>1. PICK v \in Hook!Outcomes(ran[h], view[h]) : Ends(h, v)
    BY <1>3, PayloadOutcome DEF Answer, AnswerError, AnswerStale, AnswerFails
  <2>2. QED
    BY <2>1, HookEnds
<1>4. CASE AnswerWarming
  <2>1. "top" \in Hooks /\ Ends("top", Payload("top", "warming", FALSE))
    BY <1>0, <1>4 DEF AnswerWarming, Ends, PagesTypeOK
  <2>2. Payload("top", "warming", FALSE) \in Hook!Outcomes(ran["top"], view["top"])
    BY PayloadOutcome
  <2>3. QED
    BY <2>1, <2>2, HookEnds
<1>5. CASE Poll
  <2>1. ui.page = "dashboard" /\ view["top"].kind = "warming" /\ LoadAgain({"top"})
    BY <1>5 DEF Poll
  <2>2. "top" \in Hooks /\ OnPage("top")
    BY <1>0, <2>1, NamedHooks, MountedHooks DEF OnPage
  <2>3. pending # "first"
    BY <2>1, <2>2 DEF IInv, PagesInv, NothingYet, Mounting
  <2>4. QED
    BY <2>1, <2>2, <2>3, HookAgain
<1>6. ASSUME NEW H \in Banners, Retry(H) PROVE Hook!Starts(g) \/ Hook!Stays(g)
  <2>1. LoadAgain(H) /\ pending # "first"
    BY <1>6 DEF Retry, Move
  <2>2. \A h \in H : OnPage(h)
    BY <1>0, BannersOnPage
  <2>3. QED
    BY <2>1, <2>2, HookAgain
<1>7. CASE OpenRow
  <2>1. /\ busy' = busy \cup {"composition"} /\ view' = view /\ ~compNeeded
        /\ ran' = [ran EXCEPT !["composition"] = DepsOf("composition", ui)]
    BY <1>7 DEF OpenRow
  <2>2. CASE g = "composition"
    <3>1. ~OnPage(g)
      BY <2>1, <2>2 DEF OnPage, Mounted
    <3>2. view[g] = Mounting
      BY <3>1 DEF IInv, PagesInv, GoneIsGone
    <3>3. ran'[g] \in Deps
      BY <1>0, <2>1, <2>2, DepsTyped DEF PagesTypeOK
    <3>4. QED
      BY <2>1, <2>2, <3>2, <3>3, MountingLoads, HookStarts
  <2>3. CASE g # "composition"
    BY <1>0, <2>1, <2>3, HookStays DEF PagesTypeOK
  <2>4. QED
    BY <2>2, <2>3
<1>8. CASE SnapToOffer \/ ExportStart \/ (\E ok \in BOOLEAN : ExportEnds(ok)) \/ UNCHANGED vars
  <2>1. UNCHANGED <<view, busy, ran>>
    BY <1>8 DEF SnapToOffer, ExportStart, ExportEnds, vars, pageVars
  <2>2. QED
    BY <2>1, HookStays
<1>9. QED
  BY <1>1, <1>2, <1>3, <1>4, <1>5, <1>6, <1>7, <1>8 DEF Next

\* The hooks of the pages do nothing that useAsyncData does not: whatever is
\* navigated, snapped, polled, retried or left, a hook shows outcomes of its
\* own loads, each under the dependencies that load was started with.  So
\* DashboardData, which keeps the same promise, gives the pages what the
\* theorems above rest on.
THEOREM PagesUseHooks == Spec => HooksAreAsync
<1>1. Init => Hook!Init
  BY DEF Init, Unloaded, Hook!Init, Hook!Mounting, Hook!Shown, Mounting
<1>2. IInv /\ [Next]_vars => [Hook!Next]_Hook!hookVars
  BY HookNext
<1>3. QED
  BY <1>1, <1>2, SpecInv, PTL DEF Spec, HooksAreAsync, Hook!Spec
=============================================================================

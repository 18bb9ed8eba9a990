------------------------------ MODULE AdminApp ------------------------------
(***************************************************************************)
(* The admin console put together: the shell with its drawer and command   *)
(* palette, which reaches over open sheets and dialogs, the routes, and    *)
(* the pages with state of their own over one store of settings and one    *)
(* live feed (src/web/src/app.tsx, layout/app-shell.tsx,                   *)
(* components/command-palette.tsx).  The settings pages are modelled in    *)
(* SettingsPages; here they are only places to go to.                      *)
(***************************************************************************)
EXTENDS OverviewPage, ProbesPage, AlertsPage

CONSTANTS
  Landing,        \* the addresses the console is opened at
  SettingsPaths   \* the paths of the settings pages

VARIABLES paletteOpen, navOpen

shell == <<paletteOpen, navOpen>>
vars == <<store, url, feed, overview, probesPage, shell>>

Pages == {Home, Tasks, AlertsPath} \cup SettingsPaths
Paths == Pages \cup {"/settings", "/nowhere"}

ASSUME AppAssumption ==
  /\ "/settings/retention" \in SettingsPaths
  /\ MaxMoves \in Nat /\ MaxBack \in Nat \ {0}
  /\ \A l \in Landing : l.path \in Paths

(* The badge of the top bar listens all the time, two pages while they are shown. *)
ListenersAt(l) == {"badge"} \cup ({Home, Tasks} \cap {l.path})

(* What every step makes of the shell and of the feed's listeners. *)
ShellFollows == navOpen' = (navOpen /\ loc'.path = loc.path)
FeedFollows == Subscribe(ListenersAt(loc'))

(* An effect of the first commit; until then nothing listens. *)
Boot ==
  /\ listeners = {}
  /\ Subscribe(ListenersAt(loc))
  /\ UNCHANGED <<store, url, overview, probesPage, shell>>

(* StrictMode runs the effects of the first commit twice. *)
StrictUnmount ==
  /\ listeners # {} /\ ~loaded
  /\ Subscribe({})
  /\ UNCHANGED <<store, url, overview, probesPage, shell>>

Running == listeners # {} /\ loc.path \in Pages

(* /settings has no page of its own, and no other path has one at all. *)
Redirect ==
  /\ loc.path \notin Pages
  /\ SendOn(At(IF loc.path = "/settings" THEN "/settings/retention" ELSE Home, NoParams))
  /\ OverviewFollows /\ ProbesFollow /\ ShellFollows /\ UNCHANGED <<store, feed, paletteOpen>>

OnOverview ==
  /\ Running /\ ~paletteOpen /\ ~navOpen
  /\ OverviewStep
  /\ ProbesFollow /\ ShellFollows /\ FeedFollows /\ UNCHANGED paletteOpen

OnProbes ==
  /\ Running /\ ~paletteOpen /\ ~navOpen
  /\ ProbesStep
  /\ OverviewFollows /\ ShellFollows /\ FeedFollows /\ UNCHANGED paletteOpen

OnAlertsPage ==
  /\ Running /\ ~paletteOpen /\ ~navOpen
  /\ AlertsStep
  /\ OverviewFollows /\ ProbesFollow /\ ShellFollows /\ FeedFollows /\ UNCHANGED paletteOpen

(* Deferred values arrive whatever is open. *)
TableRenders == CatchUp /\ UNCHANGED <<feed, probesPage, shell>>
RowsRender == ListCatchesUp /\ UNCHANGED <<feed, overview, shell>>

Navigated ==
  /\ OverviewFollows /\ ProbesFollow /\ FeedFollows /\ UNCHANGED store

Back ==
  /\ Running
  /\ GoBack
  /\ Navigated /\ ShellFollows /\ UNCHANGED paletteOpen

(* Cmd-K answers everywhere, over dialogs and sheets too. *)
TogglePalette ==
  /\ Running
  /\ paletteOpen' = ~paletteOpen
  /\ UNCHANGED <<store, url, feed, overview, probesPage, navOpen>>

Commands ==
  {At(p, NoParams) : p \in Pages} \cup {At(Home, [server |-> s]) : s \in Servers}
  \cup {At(Tasks, [new |-> "1"])}

(* run(): the palette closes, then it navigates. *)
RunCommand(to) ==
  /\ Running /\ paletteOpen
  /\ Push(to)
  /\ paletteOpen' = FALSE
  /\ Navigated /\ ShellFollows

NavTargets == {At(p, NoParams) : p \in {Home, Tasks, AlertsPath, "/settings"}}

(* The sidebar, or, while nothing modal is open, the drawer: a link in the drawer
   closes it whether or not the path changes. *)
OpenNav ==
  /\ Running /\ ~paletteOpen /\ ~navOpen
  /\ dialog = NoDialog /\ deleting = Nobody /\ Selected(loc) = Nobody /\ ~Creating
  /\ navOpen' = TRUE
  /\ UNCHANGED <<store, url, feed, overview, probesPage, paletteOpen>>

FollowNav(to) ==
  /\ Running /\ navOpen /\ ~paletteOpen
  /\ FollowTo(to)
  /\ navOpen' = FALSE
  /\ Navigated /\ UNCHANGED paletteOpen

(* The tab is loaded again at the same address. *)
ReloadConsole ==
  /\ Running
  /\ Reload
  /\ fleet' = FirstReading /\ listeners' = {} /\ interval' = FALSE /\ snapshot' = FALSE
  /\ loaded' = FALSE /\ connection' = "live"
  /\ deferred' = IF loc.path = Home THEN Param(loc, "q") ELSE ""
  /\ order' = IF loc.path = Home THEN Sorted(Matches(loc, deferred', FirstReading), loc, FirstReading) ELSE <<>>
  /\ dialog' = NoDialog /\ tagDraft' = <<>> /\ draftOf' = Nobody
  /\ form' = EMPTY_FORM /\ deleting' = Nobody
  /\ word' = IF OnTasks THEN Param(loc, "q") ELSE ""
  /\ paletteOpen' = FALSE /\ navOpen' = FALSE
  /\ UNCHANGED <<url, hidden, ticks, hides, deleted>>

Live == FeedStep /\ UNCHANGED <<store, url, overview, probesPage, shell>>
Stores == StoreStep /\ UNCHANGED <<url, feed, overview, probesPage, shell>>

(* The counters that bound the model may be spent in part from the start. *)
Init ==
  /\ loc \in Landing /\ behind = <<>> /\ moves \in 0..MaxMoves
  /\ InitStore /\ InitFeed /\ InitOverview /\ InitProbes
  /\ paletteOpen = FALSE /\ navOpen = FALSE

Next ==
  \/ Boot \/ StrictUnmount \/ Redirect
  \/ OnOverview \/ OnProbes \/ OnAlertsPage \/ TableRenders \/ RowsRender
  \/ Back \/ TogglePalette \/ OpenNav
  \/ \E to \in Commands : RunCommand(to)
  \/ \E to \in NavTargets : FollowNav(to)
  \/ ReloadConsole \/ Live \/ Stores

Spec == Init /\ [][Next]_vars

(* ------------------------------------------------------------ properties *)

TypeOK ==
  /\ StoreTypeOK /\ OverviewTypeOK /\ ProbesTypeOK
  /\ loc.path \in Paths /\ moves \in 0..MaxMoves
  /\ listeners \subseteq {"badge", Home, Tasks}
  /\ interval \in BOOLEAN /\ snapshot \in BOOLEAN /\ loaded \in BOOLEAN
  /\ connection \in {"live", "paused"} /\ ticks \in 0..MaxTicks /\ hides \in 0..MaxHides
  /\ paletteOpen \in BOOLEAN /\ navOpen \in BOOLEAN

(* The types, no tag twice or beyond the limit, and a tags dialog that edits the
   server it will save to. *)
OverviewIsSound == TypeOK /\ TagsAreASet /\ DraftIsOfItsServer

Entries(v) ==
  {<<k>> : k \in {"siteName", "timezone", "tokens", "probesRemoved", "probesCreated",
                  "telegram", "retention"}}
  \cup {<<"probeEnabled", p>> : p \in DOMAIN v.probeEnabled}
  \cup {<<"ruleEnabled", r>> : r \in DOMAIN v.ruleEnabled}
  \cup {<<"nodes", s, f>> : s \in Servers, f \in {"tags", "maintenance"}}

Entry(v, e) ==
  IF Len(e) = 1 THEN v[e[1]]
  ELSE IF Len(e) = 2 THEN v[e[1]][e[2]]
  ELSE v[e[1]][e[2]][e[3]]

Changed(v, w) == {e \in Entries(v) : Entry(v, e) # Entry(w, e)}

(* One act of the user changes one thing: a switch, a dialog or a form never
   takes with it the tags, the maintenance or the switch of another row, nor
   the other field of the same row (settings-provider.tsx:95-168). *)
OneActOneEntry ==
  [][saves' = saves + 1 =>
       \A t \in Tabs : IsOpen(t) /\ settings'[t] # Closed =>
         LET changed == Changed(settings[t], settings'[t])
         IN  Cardinality(changed) <= 1]_store
=============================================================================

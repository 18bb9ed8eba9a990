------------------------------ MODULE PublicPage ------------------------------
(***************************************************************************)
(* The public page put together (src/web/src/public/app.tsx): the filters  *)
(* and the opened node in the address, the memoised rows, the view and the *)
(* stars in localStorage, the search box, the sort menu, the cards, the    *)
(* dialog of a card's latency and loss (ping-detail-dialog.tsx), and the   *)
(* detail, over one live feed.  The page has no router: lib/url.ts writes  *)
(* the history itself.                                                     *)
(***************************************************************************)
EXTENDS Router, NodeDetail

CONSTANTS
  Categories,  \* CATEGORIES without "all"
  Info,        \* Info[n]: category, days until it expires, starred in the inventory
  Found,       \* Found[word]: the nodes whose name, country or tags have the word
  Landing,     \* the addresses the page is opened at
  Absent,      \* no entry in localStorage
  MaxActs      \* bound: what one does besides navigating

ASSUME PageAssumption ==
  /\ Nobody \notin Nodes /\ "" \notin Nodes
  /\ MaxBack \in Nat \ {0} /\ MaxMoves \in Nat /\ MaxActs \in Nat /\ LastDay \in Nat
  /\ \A l \in Landing : l.path = "/"
  /\ \A n \in Nodes : Info[n].expire \in Int

VARIABLES
  deferred,         \* deferredQuery
  rows,             \* visible, the memo
  prefs,            \* view and favorites; in which order they were starred is never shown
  storage,          \* their entries in localStorage
  writable,         \* it takes them: not over its quota
  searchOpen, menuOpen, bannerDismissed,
  pingDialog,       \* the dialog's node, or Nobody, and the state it keeps when closed
  acts

local == <<searchOpen, menuOpen, bannerDismissed>>
kept == <<prefs, storage, writable>>
page == <<deferred, rows, kept, local, pingDialog, acts>>
vars == <<url, feed, cache, detail, cursor, page>>

(* ------------------------------------------------- the address and the rows *)

SORTS == {"cpu", "mem", "traffic", "latency", "expire"}

category(l) == pickParam(l, "cat", Categories, "all")
sortOf(l) == pickParam(l, "sort", SORTS, "default")
onlyFavorites(l) == Param(l, "fav") = "1"
query(l) == Param(l, "q")

(* An id the inventory does not know opens nothing. *)
opened(l) == IF Param(l, "node") \in Nodes THEN Param(l, "node") ELSE Nobody

Matches(l, word, favorites) ==
  {n \in Nodes :
     /\ category(l) = "all" \/ Info[n].category = category(l)
     /\ onlyFavorites(l) => n \in favorites
     /\ word # "" => n \in Found[word]}

score(n, key, r) == IF key = "expire" THEN -Info[n].expire ELSE r[n][key]

place(n) == CHOOSE i \in DOMAIN Fleet : Fleet[i] = n

(* The busiest first and the offline last; the sort is stable. *)
Above(a, b, key, r) ==
  LET off(n) == r[n].status = "off"
  IN  IF key = "default" THEN place(a) < place(b)
      ELSE IF off(a) # off(b) THEN off(b)
      ELSE IF score(a, key, r) = score(b, key, r) THEN place(a) < place(b)
      ELSE score(a, key, r) > score(b, key, r)

Sorted(S, key, r) ==
  CHOOSE list \in [1..Cardinality(S) -> S] :
    \A i, j \in DOMAIN list : i < j => Above(list[i], list[j], key, r)

\* Variant: the stars are not among the memo's dependencies.
DepsWithoutStars(l, word, p) == <<category(l), word, onlyFavorites(l), sortOf(l)>>

Deps(l, word, p) == <<category(l), word, onlyFavorites(l), p.favorites, sortOf(l)>>

Visible(l, word, p, r) == Sorted(Matches(l, word, p.favorites), sortOf(l), r)

(* A rendering: the memo's rows are those of the readings it last ran at. *)
Render ==
  rows' = IF Deps(loc', deferred', prefs') = Deps(loc, deferred, prefs) THEN rows
          ELSE Visible(loc', deferred', prefs', readings')

(* ------------------------------------------------------- what is remembered *)

InitialPrefs ==
  [view |-> "grid", favorites |-> {n \in Nodes : Info[n].starred}]

Stored(entries) ==
  [k \in DOMAIN InitialPrefs |-> IF entries[k] = Absent THEN InitialPrefs[k] ELSE entries[k]]

(* The effects of usePersistentState, after the commit; a full storage is no error. *)
Persist == storage' = IF writable THEN prefs' ELSE storage

(* ------------------------------------------------- what a commit takes along *)

DialogAsks(d) ==
  IF d.of = Nobody THEN {}
  ELSE {Curve(kind, d.of, line, d.range, NoSpan) : kind \in {"ping", "pingloss"}, line \in Lines}

(* The detail takes the place of the list, and the list's menu with it. *)
DetailAt(l) == IF mounted' /\ loaded' THEN opened(l) ELSE Nobody

Commit ==
  /\ Render /\ Persist /\ UNCHANGED writable
  /\ Remember(Asked(detail') \cup DialogAsks(pingDialog'))

(* A step that is no press: Back, a tick, a key, a button one activates by one. *)
Aside ==
  /\ Follow(DetailAt(loc'))
  /\ menuOpen' = (menuOpen /\ opened(loc') = Nobody)

(* A press closes the menu or the picker it lands outside of. *)
Press ==
  /\ IF DetailAt(loc') = detail.of THEN detail' = Pressed /\ UNCHANGED cursor
     ELSE Follow(DetailAt(loc'))
  /\ menuOpen' = FALSE

(* A button answers to a press and to a key, and a key closes nothing. *)
Activate == Press \/ Aside

Act == acts < MaxActs /\ acts' = acts + 1
OnPage == mounted /\ pingDialog.of = Nobody
OnList == OnPage /\ opened(loc) = Nobody
OnCards == OnList /\ loaded
OnDetail == OnPage /\ detail.of # Nobody

(* -------------------------------------------------------------- the toolbar *)

(* One navigates; the rest of the page stays. *)
Navigate ==
  /\ UNCHANGED <<feed, deferred, prefs, searchOpen, bannerDismissed, pingDialog, acts>>
  /\ Activate /\ Commit

SetCategory(value) ==
  OnList /\ PushParams([cat |-> IF value = "all" THEN "" ELSE value]) /\ Navigate

SetOnlyFavorites ==
  OnList /\ PushParams([fav |-> IF onlyFavorites(loc) THEN "" ELSE "1"]) /\ Navigate

(* An item of the open menu; choosing it closes the menu. *)
SetSort(key) ==
  /\ OnList /\ menuOpen /\ PushParams([sort |-> IF key = "default" THEN "" ELSE key])
  /\ Navigate /\ ~menuOpen'

(* 清除筛选, offered when nothing is left: the order stays. *)
ClearFilters ==
  /\ OnCards /\ rows = <<>>
  /\ onlyFavorites(loc) \/ query(loc) # "" \/ category(loc) # "all"
  /\ PushParams([cat |-> "", q |-> "", fav |-> ""])
  /\ Navigate

(* Typing replaces the entry; the rows follow when React gets to them. *)
SetQuery(word) ==
  /\ OnList /\ searchOpen
  /\ word # query(loc)
  /\ ReplaceParams([q |-> word])
  /\ UNCHANGED <<feed, deferred, prefs, searchOpen, bannerDismissed, pingDialog, acts>>
  /\ Aside /\ Commit

CatchUp ==
  /\ mounted /\ deferred # query(loc)
  /\ deferred' = query(loc)
  /\ UNCHANGED <<url, feed, prefs, searchOpen, bannerDismissed, pingDialog, acts>>
  /\ Aside /\ Commit

(* The rest of the toolbar changes no address. *)
Stay == UNCHANGED <<url, feed, deferred, pingDialog>>

ToggleMenu ==
  /\ OnList /\ Act
  /\ menuOpen' = ~menuOpen
  /\ Stay /\ UNCHANGED <<prefs, searchOpen, bannerDismissed, detail, cursor>> /\ Commit

ShowSearch ==
  /\ OnList /\ ~searchOpen /\ Act
  /\ searchOpen' = TRUE
  /\ Stay /\ UNCHANGED <<prefs, bannerDismissed>> /\ Activate /\ Commit

(* The empty box closes when it loses the focus. *)
BlurSearch ==
  /\ OnList /\ searchOpen /\ query(loc) = ""
  /\ searchOpen' = FALSE
  /\ Stay /\ UNCHANGED <<prefs, bannerDismissed, acts>> /\ Aside /\ Commit

DismissBanner ==
  /\ OnList /\ ~bannerDismissed /\ Act
  /\ bannerDismissed' = TRUE
  /\ Stay /\ UNCHANGED <<prefs, searchOpen>> /\ Activate /\ Commit

SetView(view) ==
  /\ OnList /\ view # prefs.view /\ Act
  /\ prefs' = [prefs EXCEPT !.view = view]
  /\ Stay /\ UNCHANGED <<searchOpen, bannerDismissed>> /\ Activate /\ Commit

(* ------------------------------------------------- cards, rows and the detail *)

WithStar(favorites, n) ==
  IF n \in favorites THEN favorites \ {n} ELSE favorites \cup {n}

(* The star of a card, of a row of the list, or of the detail. *)
ToggleFavorite(n) ==
  /\ \/ OnCards /\ n \in ToSet(rows)
     \/ OnDetail /\ n = detail.of
  /\ Act
  /\ prefs' = [prefs EXCEPT !.favorites = WithStar(@, n)]
  /\ Stay /\ UNCHANGED <<searchOpen, bannerDismissed>> /\ Activate /\ Commit

OpenNode(n) ==
  OnCards /\ n \in ToSet(rows) /\ PushParams([node |-> n]) /\ Navigate

CloseNode ==
  OnDetail /\ PushParams([node |-> ""]) /\ Navigate

\* Variant: another node is another entry.
SiblingPushed(n) == PushParams([node |-> n])

Sibling(n) == ReplaceParams([node |-> n])

(* The arrows go along the inventory, whatever the filters; or the picker. *)
SelectSibling(n) ==
  /\ OnDetail
  /\ \/ \E i \in 1..Len(Fleet) - 1 :
          {Fleet[i], Fleet[i + 1]} = {detail.of, n} /\ n # detail.of
     \/ n \in Offers
  /\ Sibling(n)
  /\ Navigate

InDetail ==
  /\ OnDetail /\ Act
  /\ DetailStep
  /\ Stay /\ UNCHANGED <<prefs, local>> /\ Commit

(* --------------------------------------------- latency and loss of a card *)

NoPingDialog == [of |-> Nobody, range |-> "1h", tab |-> "latency", hidden |-> {}]

(* Both blocks of a card open the same dialog, with what one last chose in it. *)
OpenPing(n) ==
  /\ OnCards /\ prefs.view = "grid" /\ n \in ToSet(rows) /\ Act
  /\ pingDialog' = [pingDialog EXCEPT !.of = n]
  /\ UNCHANGED <<url, feed, deferred, prefs, searchOpen, bannerDismissed>> /\ Activate /\ Commit

(* The dialog is modal, and outlives the list when one goes back to a detail. *)
InPingDialog(dialog) ==
  /\ mounted /\ pingDialog.of # Nobody /\ dialog # pingDialog /\ Act
  /\ pingDialog' = dialog
  /\ UNCHANGED <<url, feed, deferred, prefs, searchOpen, bannerDismissed>> /\ Aside /\ Commit

PingStep ==
  \/ \E range \in DOMAIN PING_RANGES : InPingDialog([pingDialog EXCEPT !.range = range])
  \/ \E tab \in {"latency", "loss"} : InPingDialog([pingDialog EXCEPT !.tab = tab])
  \/ \E line \in Lines :
       InPingDialog([pingDialog EXCEPT !.hidden = IF line \in @ THEN @ \ {line} ELSE @ \cup {line}])
  \/ InPingDialog([pingDialog EXCEPT !.hidden = IF @ = {} THEN Lines ELSE {}])
  \/ InPingDialog([pingDialog EXCEPT !.of = Nobody])

(* ------------------------------------------------- the feed and the browser *)

Aloft == UNCHANGED <<url, deferred, prefs, searchOpen, bannerDismissed, pingDialog, acts>>

(* Mounting stores the entries; an effect of the first commit subscribes. *)
Boot == Subscribe /\ Aloft /\ Aside /\ Commit

(* StrictMode runs the effects of the first commit twice. *)
StrictUnmount == ~loaded /\ Unsubscribe /\ Aloft /\ Aside /\ Commit

Live ==
  /\ Tick \/ SnapshotArrives \/ Hide \/ Show
  /\ Aloft /\ Aside /\ Commit

PressPause ==
  /\ OnPage
  /\ \E value \in BOOLEAN : SetPaused(value)
  /\ Aloft /\ Activate /\ Commit

(* popstate: the parameters are those of the entry one returns to. *)
Back ==
  /\ mounted /\ GoBack
  /\ UNCHANGED <<feed, deferred, prefs, searchOpen, bannerDismissed, pingDialog, acts>>
  /\ Aside /\ Commit

(* The address stays and localStorage; everything else starts anew. *)
Reload ==
  /\ mounted /\ Act
  /\ prefs' = Stored(storage)
  /\ readings' = FirstReading /\ lastPoint' = [n \in Nodes |-> ticks] /\ lastProbeEpoch' = 0
  /\ mounted' = FALSE /\ interval' = FALSE /\ snapshot' = FALSE
  /\ loaded' = FALSE /\ paused' = FALSE
  /\ cache' = <<>>
  /\ detail' = Fresh(Nobody) /\ cursor' = [c \in Charts |-> Hidden]
  /\ deferred' = query(loc) /\ rows' = Visible(loc, deferred', prefs', readings')
  /\ searchOpen' = (query(loc) # "") /\ menuOpen' = FALSE /\ bannerDismissed' = FALSE
  /\ pingDialog' = NoPingDialog
  /\ UNCHANGED <<url, ticks, hidden, hides, storage, writable>>

(* ------------------------------------------------------------ specification *)

(* The counters that bound the model may be spent in part from the start. *)
Init ==
  /\ loc \in Landing /\ behind = <<>> /\ moves \in 0..MaxMoves
  /\ InitFeed /\ InitChart
  /\ detail = Fresh(Nobody)
  /\ storage = [k \in DOMAIN InitialPrefs |-> Absent] /\ writable \in BOOLEAN
  /\ prefs = Stored(storage)
  /\ deferred = query(loc) /\ rows = Visible(loc, deferred, prefs, readings)
  /\ searchOpen = (query(loc) # "") /\ menuOpen = FALSE /\ bannerDismissed = FALSE
  /\ pingDialog = NoPingDialog
  /\ acts \in 0..MaxActs

Toolbar ==
  \/ \E value \in Categories \cup {"all"} : SetCategory(value)
  \/ \E key \in SORTS \cup {"default"} : SetSort(key)
  \/ \E word \in {""} \cup DOMAIN Found : SetQuery(word)
  \/ SetOnlyFavorites \/ ClearFilters
  \/ ToggleMenu \/ ShowSearch \/ BlurSearch \/ DismissBanner
  \/ \E view \in {"grid", "list"} : SetView(view)

Next ==
  \/ Boot \/ StrictUnmount \/ Live \/ PressPause \/ Back \/ Reload \/ CatchUp
  \/ Toolbar
  \/ \E n \in Nodes : ToggleFavorite(n) \/ OpenNode(n) \/ SelectSibling(n) \/ OpenPing(n)
  \/ CloseNode \/ InDetail \/ PingStep

(* The browser fires the timer of the first snapshot. *)
Fairness ==
  WF_vars(SnapshotArrives /\ Aloft /\ Aside /\ Commit)

Spec == Init /\ [][Next]_vars /\ Fairness

(* ------------------------------------------------------------ properties *)

TypeOK ==
  /\ loc.path = "/" /\ moves \in 0..MaxMoves /\ acts \in 0..MaxActs
  /\ {interval, snapshot, loaded, paused, hidden, mounted} \subseteq BOOLEAN
  /\ {searchOpen, menuOpen, bannerDismissed, writable} \subseteq BOOLEAN
  /\ ticks \in 0..MaxTicks /\ hides \in 0..MaxHides
  /\ readings \in [Nodes -> Reading]
  /\ prefs.view \in {"grid", "list"} /\ prefs.favorites \subseteq Nodes /\ ToSet(rows) \subseteq Nodes
  /\ detail.of \in Nodes \cup {Nobody} /\ detail.hidden \subseteq Lines
  /\ detail.range \in DOMAIN RANGES \cup DOMAIN PING_RANGES
  /\ pingDialog.of \in Nodes \cup {Nobody} /\ pingDialog.range \in DOMAIN PING_RANGES

(* The rows are exactly what the filters and the stars of this moment select, once
   the deferred word has arrived, each once; in any order but the inventory's the
   offline nodes come last (app.tsx:198-228). *)
RowsAreTheFilters ==
  /\ ToSet(rows) = Matches(loc, deferred, prefs.favorites) /\ IsInjective(rows)
  /\ sortOf(loc) # "default" =>
       \A i, j \in DOMAIN rows : IsOff(rows[i]) /\ i < j => IsOff(rows[j])

(* Back from a detail one has opened on the page goes to the list it was opened
   from, with its filters, however many nodes one has looked through meanwhile
   (app.tsx:152-155). *)
ButNode(l) == [k \in DOMAIN l.params \ {"node"} |-> l.params[k]]
BackLeavesTheDetail ==
  opened(loc) # Nobody /\ behind # <<>> =>
    opened(Last(behind)) = Nobody /\ ButNode(Last(behind)) = ButNode(loc)

(* Another node's detail starts with nothing of the last one's: no range, dates,
   hidden lines, open picker or pinned cursor (app.tsx:241-242). *)
DetailStartsFresh ==
  [][detail'.of # detail.of => detail' = Fresh(detail'.of) /\ \A c \in Charts : cursor'[c] = Hidden]_vars

(* Every curve on the screen is the one that was asked for: of that node, that
   line, that range and those dates, never another's out of the cache
   (mock.ts:275, 294-296, 351, 369). *)
CurveIsAsAsked ==
  \A ask \in Asked(detail) \cup DialogAsks(pingDialog) : historyFor(ask).of = ask

(* The types, and the rows the filters select. *)
ListIsSound == TypeOK /\ RowsAreTheFilters

(* What is drawn is true: the curve that was asked for, up to the present where it
   is live, over the axis it covers, and under the cursor one has pinned to it. *)
ChartsAreTrue == CurveIsAsAsked /\ LiveCurveMoves /\ AxisSpansTheData /\ PinnedCursorStays

(* A detail neither takes over what was chosen in another, nor draws anew what
   another has drawn. *)
DetailKeepsToItself == DetailStartsFresh /\ HistoryStandsStill
===============================================================================

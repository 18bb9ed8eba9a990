---------------------------- MODULE OverviewPage ----------------------------
(***************************************************************************)
(* The overview of the admin console: the servers' table with its filters  *)
(* and sorting in the address, the concerns and their drill-down, the      *)
(* detail sheet of ?server=, and the dialogs for tags and removal          *)
(* (src/web/src/pages/overview.tsx, components/server-sheet.tsx and        *)
(* node-tags-dialog.tsx).                                                  *)
(*                                                                         *)
(* The table is memoised on the filters, not on the readings: order keeps  *)
(* the rows of the last change of a filter, sorted at the last change of   *)
(* the sorting, while the counts of the concerns follow every tick.        *)
(***************************************************************************)
EXTENDS SettingsStore, Router, FleetFeed

CONSTANTS
  Found,       \* Found[q]: the servers whose name, address or tags contain q
  MAX_TAGS     \* tags a server may have

(* v's tags, as far as it overrides the data source's, are a set and not too many. *)
TagsFit(tags) == Len(tags) <= MAX_TAGS /\ IsInjective(tags)
TagsOf(v) == {v.nodes[s].tags : s \in Servers} \ {Unset}

(* What is known of a server are numbers that can be compared, and no two servers
   have the same place. *)
ASSUME OverviewAssumption ==
  /\ \A s \in Servers : \A k \in {"place", "name", "agent", "uptime", "lastSeen"} : Known[s][k] \in Nat
  /\ \A s, t \in Servers : Known[s].place = Known[t].place => s = t
  /\ MAX_TAGS \in Nat
  /\ \A s \in Servers : FleetTags[s] \in Seq(Tags) /\ TagsFit(FleetTags[s])
  /\ \A raw \in Shelf : \A tags \in TagsOf(Read(raw)) : TagsFit(tags)

VARIABLES
  deferred,    \* the search word the table has caught up with
  order,       \* the rows of the table
  dialog,      \* the open dialog: tags or removal, of the list or of the sheet
  tagDraft,    \* the tags in the dialog
  draftOf      \* history: whose tags the draft began as

overview == <<deferred, order, dialog, tagDraft, draftOf>>

Home == "/"
NoDialog == [kind |-> "none", from |-> "list", server |-> Nobody]

(* -------------------------------------------------- concerns of a server *)

Limit == [cpu |-> 90, mem |-> 92, disk |-> 85]
Metrics == DOMAIN Limit

(* Value over limit, times the product of the limits. *)
Ratio(r, m) == r[m] * ((90 * 92 * 85) \div Limit[m])
AtLimit == 90 * 92 * 85

\* Variant: the largest number, whatever its limit.
largestMetric(r) == CHOOSE m \in Metrics : \A n \in Metrics : r[n] <= r[m]

tightestMetric(r) == CHOOSE m \in Metrics : \A n \in Metrics : Ratio(r, n) <= Ratio(r, m)
Near(r) == 10 * Ratio(r, tightestMetric(r)) >= 9 * AtLimit
Over(r) == LET m == tightestMetric(r) IN r[m] >= Limit[m]

LatestAgent == CHOOSE v \in {Known[s].agent : s \in Servers} :
                 \A s \in Servers : Known[s].agent <= v
Behind(s) == s \in Online /\ Known[s].agent < LatestAgent

IssueKinds(s, f) ==
  IF s \in OfflineServers THEN {"offline"}
  ELSE {k \in {"concern", "agent"} : IF k = "concern" THEN Over(f[s]) ELSE Behind(s)}

Concerns == {s \in Servers : IssueKinds(s, fleet) # {}}

\* Variant: an old agent is a fault.
HasIssueAtAll(s, issue, f) ==
  IF issue \in {"any", "fault"} THEN IssueKinds(s, f) # {} ELSE issue \in IssueKinds(s, f)

HasIssue(s, issue, f) ==
  CASE issue = "any" -> IssueKinds(s, f) # {}
    [] issue = "fault" -> IssueKinds(s, f) \ {"agent"} # {}
    [] OTHER -> issue \in IssueKinds(s, f)

(* A server counts under the first of its kinds. *)
UpkeepCount == Cardinality({s \in Concerns : IssueKinds(s, fleet) = {"agent"}})
FaultCount == Cardinality(Concerns) - UpkeepCount

(* ------------------------------------------------------------- the table *)

Filter(l) == pickParam(l, "state", {"ok", "bad"}, "all")
Issue(l) == pickParam(l, "issue", {"any", "fault", "offline", "concern", "agent"}, "all")
TagOf(l) == pickParam(l, "tag", Tags, "")
SortKey(l) == pickParam(l, "sort", {"agent", "uptime", "lastSeen", "concern"}, "name")
SortDir(l) == pickParam(l, "dir", {"desc"}, "asc")
Selected(l) == IF l.path = Home /\ Param(l, "server") \in Servers THEN Param(l, "server") ELSE Nobody

(* The search and the tag chips look at the data source's tags. *)
Matches(l, q, f) ==
  {s \in Servers :
     /\ Filter(l) = "ok" => f[s].status = "ok"
     /\ Filter(l) = "bad" => f[s].status # "ok"
     /\ TagOf(l) # "" => TagOf(l) \in ToSet(FleetTags[s])
     /\ Issue(l) # "all" => HasIssue(s, Issue(l), f)
     /\ q # "" => s \in Found[q]}

(* Nothing near its limit sorts as -1. *)
SortValue(s, key, f) ==
  IF key = "concern"
    THEN IF Near(f[s]) THEN Ratio(f[s], tightestMetric(f[s])) ELSE 0 - 1
    ELSE Known[s][key]

(* Offline last in either direction; the sort is stable. *)
Above(a, b, l, f) ==
  LET value(s) == SortValue(s, SortKey(l), f)
      sooner == IF SortDir(l) = "asc" THEN value(a) < value(b) ELSE value(a) > value(b)
  IN  IF (a \in OfflineServers) # (b \in OfflineServers) THEN b \in OfflineServers
      ELSE sooner \/ (value(a) = value(b) /\ Known[a].place < Known[b].place)

Sorted(S, l, f) ==
  CHOOSE rows \in [1..Cardinality(S) -> S] :
    \A i, j \in DOMAIN rows : i < j => Above(rows[i], rows[j], l, f)

FilterDeps(l, q) == <<q, Filter(l), TagOf(l), Issue(l)>>
SortDeps(l) == <<SortKey(l), SortDir(l)>>

(* What a new address or word makes of the memoised rows. *)
Render ==
  order' =
    IF loc'.path # Home THEN <<>>
    ELSE IF loc.path # Home \/ FilterDeps(loc', deferred') # FilterDeps(loc, deferred)
      THEN Sorted(Matches(loc', deferred', fleet), loc', fleet)
    ELSE IF SortDeps(loc') # SortDeps(loc) THEN Sorted(ToSet(order), loc', fleet)
    ELSE order

\* Variant: the draft stays when the sheet's server changes.
FollowSheetKeeping ==
  LET gone == loc'.path # Home \/ (dialog.from = "sheet" /\ Selected(loc') = Nobody)
  IN  /\ dialog' = IF gone THEN NoDialog ELSE dialog
      /\ IF gone THEN tagDraft' = <<>> /\ draftOf' = Nobody
         ELSE UNCHANGED <<tagDraft, draftOf>>

(* The sheet is not remounted for another server: its removal dialog goes on with
   the other name, and the draft of its tags dialog starts again, because the
   effect depends on the tags that are saved.  What the list opened stays its own,
   and everything goes when the path changes. *)
FollowSheet ==
  LET gone == loc'.path # Home \/ (dialog.from = "sheet" /\ Selected(loc') = Nobody)
  IN  /\ dialog' = IF gone THEN NoDialog ELSE dialog
      /\ IF gone THEN tagDraft' = <<>> /\ draftOf' = Nobody
         ELSE IF dialog.kind = "tags" /\ dialog.from = "sheet" /\ Selected(loc') # Selected(loc)
           THEN tagDraft' = nodeTags(Selected(loc')) /\ draftOf' = Selected(loc')
         ELSE UNCHANGED <<tagDraft, draftOf>>

(* What a step of another part, a navigation among them, makes of the page: the
   deferred word starts from the address when the page mounts. *)
OverviewFollows ==
  /\ deferred' = IF loc'.path # Home THEN ""
                 ELSE IF loc.path # Home THEN Param(loc', "q") ELSE deferred
  /\ Render
  /\ FollowSheet

CatchUp ==
  /\ loc.path = Home /\ deferred # Param(loc, "q")
  /\ deferred' = Param(loc, "q")
  /\ UNCHANGED <<url, store, dialog, tagDraft, draftOf>>
  /\ Render

(* --------------------------------------------------- filters and sorting *)

(* Dialogs and the sheet are modal.  The sheet does not wait for the first snapshot. *)
Free == loc.path = Home /\ dialog = NoDialog
ListFree == Free /\ Selected(loc) = Nobody
Reach(s) ==
  Free /\ IF Selected(loc) = Nobody THEN loaded /\ s \in ToSet(order) ELSE s = Selected(loc)

setQuery(q) ==
  /\ ListFree /\ q # Param(loc, "q")
  /\ ReplaceParams([q |-> q]) /\ OverviewFollows /\ UNCHANGED store

(* The state and tag chips, the drill-down badges and the headers push, also what
   is in the address already. *)
PickFilter(patch) ==
  /\ ListFree
  /\ PushParams(patch) /\ OverviewFollows /\ UNCHANGED store

setFilter(v) == PickFilter([state |-> IF v = "all" THEN "" ELSE v])
setTag(v) == PickFilter([tag |-> v])
setIssue(v) ==
  /\ \/ v = "all" /\ Issue(loc) # "all"
     \/ loaded /\ v = "fault" /\ FaultCount > 0
     \/ loaded /\ v = "agent" /\ UpkeepCount > 0
  /\ PickFilter([issue |-> IF v = "all" THEN "" ELSE v])

setSort(key) ==
  LET dir == IF SortKey(loc) = key /\ SortDir(loc) = "asc" THEN "desc" ELSE ""
  IN  loaded /\ order # <<>> /\ PickFilter([sort |-> IF key = "name" THEN "" ELSE key, dir |-> dir])

ClearFilters ==
  /\ loaded /\ order = <<>>
  /\ PickFilter([q |-> "", state |-> "", tag |-> "", issue |-> ""])

(* The links of the cards and of the concerns replace the whole search. *)
FollowLink(to) ==
  /\ ListFree
  /\ FollowTo(to) /\ OverviewFollows /\ UNCHANGED store

CardLinks ==
  {At(Home, [issue |-> "agent"]), At("/probes", NoParams), At("/alerts", [tab |-> "rules"])}
  \cup (IF OfflineServers # {} THEN {At(Home, [issue |-> "offline"])} ELSE {})
  \cup (IF Concerns # {} THEN {At(Home, [issue |-> "any"])} ELSE {})

(* A click on a row, its name or its concern. *)
OpenSheet(s) ==
  /\ loaded
  /\ s \in ToSet(order) \cup Concerns
  /\ FollowLink(At(Home, [server |-> s]))

CloseSheet ==
  /\ Free /\ Selected(loc) # Nobody
  /\ ReplaceParams([server |-> ""]) /\ OverviewFollows /\ UNCHANGED store

(* ------------------------------------------------ maintenance and dialogs *)

(* The switch of a row, or of the sheet. *)
ToggleMaintenance(s) ==
  /\ Reach(s)
  /\ setMaintenance(s, ~nodeMaintenance(s))
  /\ UNCHANGED <<url, overview>>

(* The menu of a row, or of the sheet. *)
OpenDialog(kind, s) ==
  /\ Reach(s)
  /\ dialog' = IF Selected(loc) = Nobody THEN [kind |-> kind, from |-> "list", server |-> s]
               ELSE [kind |-> kind, from |-> "sheet", server |-> Nobody]
  /\ tagDraft' = IF kind = "tags" THEN nodeTags(s) ELSE <<>>
  /\ draftOf' = IF kind = "tags" THEN s ELSE Nobody
  /\ UNCHANGED <<url, store, deferred, order>>

DialogServer == IF dialog.from = "sheet" THEN Selected(loc) ELSE dialog.server

AddTag(t) ==
  /\ dialog.kind = "tags"
  /\ t \notin ToSet(tagDraft) /\ Len(tagDraft) < MAX_TAGS
  /\ tagDraft' = Append(tagDraft, t)
  /\ UNCHANGED <<url, store, deferred, order, dialog, draftOf>>

(* A tag is in the draft once. *)
RemoveTag(t) ==
  /\ dialog.kind = "tags"
  /\ \E i \in DOMAIN tagDraft : tagDraft[i] = t /\ tagDraft' = RemoveAt(tagDraft, i)
  /\ UNCHANGED <<url, store, deferred, order, dialog, draftOf>>

Close == dialog' = NoDialog /\ tagDraft' = <<>> /\ draftOf' = Nobody

SaveTags ==
  /\ dialog.kind = "tags" /\ tagDraft # nodeTags(DialogServer)
  /\ setTags(DialogServer, tagDraft)
  /\ Close
  /\ UNCHANGED <<url, deferred, order>>

(* Cancelled; a confirmed removal only closes the dialog too, for it is not
   connected to the master. *)
CloseDialog ==
  /\ dialog # NoDialog
  /\ Close
  /\ UNCHANGED <<url, store, deferred, order>>

InitOverview ==
  /\ deferred = Param(loc, "q")
  /\ order = IF loc.path = Home THEN Sorted(Matches(loc, deferred, fleet), loc, fleet) ELSE <<>>
  /\ dialog = NoDialog /\ tagDraft = <<>> /\ draftOf = Nobody

OverviewStep ==
  \/ \E q \in {""} \cup DOMAIN Found : setQuery(q)
  \/ \E v \in {"all", "ok", "bad"} : setFilter(v)
  \/ \E v \in Tags \cup {""} : setTag(v)
  \/ \E v \in {"all", "fault", "agent"} : setIssue(v)
  \/ \E key \in {"name", "agent", "uptime", "lastSeen", "concern"} : setSort(key)
  \/ ClearFilters \/ CloseSheet
  \/ loaded /\ \E to \in CardLinks : FollowLink(to)
  \/ \E s \in Servers :
       \/ OpenSheet(s) \/ ToggleMaintenance(s)
       \/ \E kind \in {"tags", "removal"} : OpenDialog(kind, s)
  \/ \E t \in Tags : AddTag(t) \/ RemoveTag(t)
  \/ SaveTags \/ CloseDialog

(* ------------------------------------------------------------ properties *)

OverviewTypeOK ==
  /\ ToSet(order) \subseteq Servers
  /\ dialog.kind \in {"none", "tags", "removal"} /\ dialog.from \in {"list", "sheet"}
  /\ dialog.server \in Servers \cup {Nobody} /\ draftOf \in Servers \cup {Nobody}
  /\ ToSet(tagDraft) \subseteq Tags

(* Whatever column is sorted and in which direction, and however old the memoised
   rows are, no offline server stands above an online one (overview.tsx:378-410). *)
OfflineSinks ==
  \A i, j \in DOMAIN order :
    i < j /\ order[i] \in OfflineServers => order[j] \in OfflineServers

(* The two copies of the thresholds agree: a server whose dot is amber after a
   tick is among the concerns, and counted as a fault (mock.ts:434-438 against
   METRIC_LIMITS and tightestMetric, overview.tsx:74-89). *)
AmberIsAConcern ==
  \A s \in Online :
    fleet[s] # FirstReading[s] /\ fleet[s].status = "warn" => "concern" \in IssueKinds(s, fleet)

(* What is wrong comes before what is off, and is counted as wrong: no offline row
   hides a concern, and none is painted amber that the numbers leave out. *)
ConcernsAreShown == OfflineSinks /\ AmberIsAConcern

(* A number leads to that many rows: the badge of the faults, the card of the
   agents behind and the link to all concerns, clicked with no other filter, show
   as many servers as they say (overview.tsx:248-250, 344-358).  The badge of the
   upkeep is not among them: it counts the servers with nothing worse. *)
DrilledDown(issue) ==
  /\ loc'.path = Home /\ Issue(loc) # issue /\ Issue(loc') = issue
  /\ deferred' = "" /\ Filter(loc') = "all" /\ TagOf(loc') = ""

DrillDownIsTheCount ==
  [][/\ DrilledDown("fault") => Len(order') = FaultCount
     /\ DrilledDown("agent") => Len(order') = Cardinality({s \in Servers : Behind(s)})
     /\ DrilledDown("any") => Len(order') = Cardinality(Concerns)]_<<url, overview, fleet>>

(* Every server has at most MAX_TAGS tags and none twice, wherever they come
   from, when the dialog adds one at a time (node-tags-dialog.tsx:62-70). *)
TagsAreASet == \A s \in Servers : TagsFit(nodeTags(s))

(* Tags are written to the server they were edited for: the draft in the dialog
   began as the tags of the server it will be saved to, also when the palette
   moves an open sheet to another server (node-tags-dialog.tsx:51-55,
   server-sheet.tsx:91-95 without a key). *)
DraftIsOfItsServer == dialog.kind = "tags" => draftOf = DialogServer

=============================================================================

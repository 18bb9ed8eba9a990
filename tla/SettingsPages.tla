---------------------------- MODULE SettingsPages ----------------------------
(***************************************************************************)
(* The settings pages of the admin console: a draft, its footer with save  *)
(* and discard (components/settings-shell.tsx), the general, notification  *)
(* and retention forms, and the page of agent tokens, whose acts are       *)
(* immediate (src/web/src/pages/settings/*.tsx).                           *)
(*                                                                         *)
(* One page is mounted at a time; leaving it drops all of its state, and   *)
(* no navigation inside the console asks about an unsaved draft.           *)
(***************************************************************************)
EXTENDS SettingsStore

CONSTANTS
  TokenNames,   \* what is typed as a token's name; "" is blank
  Typed,        \* Typed[f]: what is typed or picked in field f
  MaxEdits      \* bound: edits of a draft between mount and unmount

SettingsRoutes == {"access", "notifications", "retention", "general"}

ASSUME BoundsAssumption == MaxEdits \in Nat /\ "" \in TokenNames /\ Nobody \notin SettingsRoutes

(* A select offers its options and nothing else; what is typed is of the field's
   type. *)
ASSUME TypedIsOffered ==
  /\ \A f \in DOMAIN Options : Typed[f] \subseteq ToSet(Options[f])
  /\ \A k \in {"siteName", "timezone"} : \A v \in Typed[k] : Fits(k, v)
  /\ \A k \in Nested : \A f \in DOMAIN Default[k] : \A v \in Typed[f] : FieldFits(k, f, v)

VARIABLES
  page,        \* the mounted settings page, or Nobody
  draft,       \* the page's draft, a part of the settings
  edits,
  savedAt,     \* the footer has a time of saving
  test,        \* the test message: idle, sending, ok or fail
  timers,      \* 600 ms timers of test messages still to fire
  creating, name, issued,   \* the sheet of a new token
  revoking,                 \* the token asked about
  confirming,               \* the maintenance asked about
  shownOnce,   \* history: tokens whose complete display has ended
  revoked      \* history: tokens revoked in this tab

form == <<page, draft, edits, savedAt, test, timers, creating, name, issued, revoking, confirming>>
past == <<shownOnce, revoked>>
pageVars == <<form, past>>
vars == <<store, pageVars>>

(* ----------------------------------------------------------- the draft *)

PageKeys(p) ==
  IF p = "general" THEN {"siteName", "timezone"}
  ELSE IF p = "notifications" THEN {"telegram"}
  ELSE IF p = "retention" THEN {"retention"}
  ELSE {}

Dirty == \E k \in DOMAIN draft : draft[k] # Mine[k]

(* "saving" is not a state: the footer says dirty, saved or untouched. *)
FooterStatus ==
  IF Dirty THEN "unsaved" ELSE IF savedAt THEN "saved" ELSE "untouched"

\* Variant: the draft is the saved object itself.
EditDraftInPlace(k, v) ==
  /\ edits < MaxEdits /\ v # draft[k]
  /\ edits' = edits + 1
  /\ draft' = [draft EXCEPT ![k] = v]
  /\ settings' = [settings EXCEPT ![Here] = Spread(@, k :> v)]
  /\ UNCHANGED <<pending, stored, saves, faults, page, savedAt, test, timers, creating, name,
                 issued, revoking, confirming, past>>

EditDraft(k, v) ==
  /\ edits < MaxEdits /\ v # draft[k]
  /\ edits' = edits + 1
  /\ draft' = [draft EXCEPT ![k] = v]
  /\ UNCHANGED <<store, page, savedAt, test, timers, creating, name, issued,
                 revoking, confirming, past>>

(* patch({ field: value }) of the two forms whose draft is one object *)
EditField(k, fields) ==
  \E f \in fields : \E v \in Typed[f] :
    EditDraft(k, [draft[k] EXCEPT ![f] = v])

EditGeneral ==
  page = "general" /\ \E k \in PageKeys(page) : \E v \in Typed[k] : EditDraft(k, v)

EditTelegram == page = "notifications" /\ EditField("telegram", TelegramFields)

(* The time to keep raw points can be picked only while raw points are kept. *)
EditRetention ==
  /\ page = "retention"
  /\ EditField("retention",
       {f \in DOMAIN draft.retention : f = "rawKeep" => draft.retention.rawEnabled})

SaveForm ==
  /\ Dirty
  /\ save(draft)
  /\ savedAt' = TRUE
  /\ test' = IF page = "notifications" THEN "idle" ELSE test
  /\ UNCHANGED <<page, draft, edits, timers, creating, name, issued, revoking, confirming, past>>

DiscardForm ==
  /\ Dirty
  /\ draft' = [k \in DOMAIN draft |-> Mine[k]]
  /\ test' = IF page = "notifications" THEN "idle" ELSE test
  /\ UNCHANGED <<store, page, edits, savedAt, timers, creating, name, issued,
                 revoking, confirming, past>>

(* ------------------------------------------------------ the test message *)

Valid(telegram) == telegram.botToken = "wellFormed" /\ telegram.chatId = "number"

RunTest ==
  /\ page = "notifications" /\ test # "sending"
  /\ IF Valid(draft.telegram)
       THEN test' = "sending" /\ timers' = timers + 1
       ELSE test' = "fail" /\ timers' = timers
  /\ UNCHANGED <<store, page, draft, edits, savedAt, creating, name, issued,
                 revoking, confirming, past>>

TimerFires ==
  /\ timers > 0
  /\ timers' = timers - 1
  /\ test' = "ok"
  /\ UNCHANGED <<store, page, draft, edits, savedAt, creating, name, issued,
                 revoking, confirming, past>>

(* ------------------------------------------------------------ the tokens *)

Tokens == Mine.tokens
Quiet == ~creating /\ revoking = Nobody    \* both are modal

OpenCreate ==
  /\ page = "access" /\ Quiet
  /\ creating' = TRUE
  /\ UNCHANGED <<store, page, draft, edits, savedAt, test, timers, name, issued,
                 revoking, confirming, past>>

TypeName(v) ==
  /\ creating /\ issued = Nobody /\ v # name
  /\ name' = v
  /\ UNCHANGED <<store, page, draft, edits, savedAt, test, timers, creating, issued,
                 revoking, confirming, past>>

\* Variant: the new token is added to the first list.
CreateTokenOnFirst ==
  /\ creating /\ issued = Nobody /\ name # ""
  /\ \E t \in NewTokens \ (Tokens \cup shownOnce \cup revoked) :
       /\ save([tokens |-> OldTokens \cup {t}])
       /\ issued' = t
  /\ UNCHANGED <<page, draft, edits, savedAt, test, timers, creating, name,
                 revoking, confirming, past>>

(* The new token's 16 random bytes are an id no token had. *)
CreateToken ==
  /\ creating /\ issued = Nobody /\ name # ""
  /\ \E t \in NewTokens \ (Tokens \cup shownOnce \cup revoked) :
       /\ save([tokens |-> Tokens \cup {t}])
       /\ issued' = t
  /\ UNCHANGED <<page, draft, edits, savedAt, test, timers, creating, name,
                 revoking, confirming, past>>

EndDisplay == shownOnce' = IF issued = Nobody THEN shownOnce ELSE shownOnce \cup {issued}

\* Variant: the sheet keeps what it issued.
CloseCreateKeeping ==
  /\ creating
  /\ creating' = FALSE /\ name' = "" /\ issued' = issued
  /\ EndDisplay
  /\ UNCHANGED <<store, page, draft, edits, savedAt, test, timers, revoking, confirming, revoked>>

CloseCreate ==
  /\ creating
  /\ creating' = FALSE /\ name' = "" /\ issued' = Nobody
  /\ EndDisplay
  /\ UNCHANGED <<store, page, draft, edits, savedAt, test, timers, revoking, confirming, revoked>>

AskRevoke(t) ==
  /\ page = "access" /\ Quiet /\ t \in Tokens
  /\ revoking' = t
  /\ UNCHANGED <<store, page, draft, edits, savedAt, test, timers, creating, name,
                 issued, confirming, past>>

Revoke ==
  /\ revoking # Nobody
  /\ save([tokens |-> Tokens \ {revoking}])
  /\ revoking' = Nobody
  /\ revoked' = revoked \cup {revoking}
  /\ UNCHANGED <<page, draft, edits, savedAt, test, timers, creating, name, issued,
                 confirming, shownOnce>>

KeepToken ==
  /\ revoking # Nobody
  /\ revoking' = Nobody
  /\ UNCHANGED <<store, page, draft, edits, savedAt, test, timers, creating, name,
                 issued, confirming, past>>

(* The tokens a reader of the page sees from end to end in its table and its
   sheet; the table shows six and four characters. *)
ShownWhole == IF creating /\ issued # Nobody THEN {issued} ELSE {}

(* -------------------------------------- maintenance of the master's data *)

AskMaintenance(m) ==
  /\ page = "retention" /\ confirming = Nobody
  /\ confirming' = m
  /\ UNCHANGED <<store, page, draft, edits, savedAt, test, timers, creating, name,
                 issued, revoking, past>>

(* Confirmed or cancelled: either only closes the dialog, with a toast. *)
EndMaintenance ==
  /\ confirming # Nobody
  /\ confirming' = Nobody
  /\ UNCHANGED <<store, page, draft, edits, savedAt, test, timers, creating, name,
                 issued, revoking, past>>

(* ------------------------------------------------- mounting and leaving *)

Fresh(p, v) ==
  /\ page' = p
  /\ draft' = [k \in PageKeys(p) |-> v[k]]
  /\ edits' = 0 /\ savedAt' = FALSE /\ test' = "idle" /\ timers' = 0
  /\ creating' = FALSE /\ name' = "" /\ issued' = Nobody
  /\ revoking' = Nobody /\ confirming' = Nobody

Mount(p) ==
  /\ page # p
  /\ Fresh(p, Mine)
  /\ EndDisplay
  /\ UNCHANGED <<store, revoked>>

(* The browser asks while the draft is dirty; the user may go on. *)
ReloadPage ==
  /\ Reload
  /\ Fresh(page, settings'[Here])
  /\ EndDisplay
  /\ UNCHANGED revoked

Init ==
  /\ InitStore /\ saves = 0
  /\ page = Nobody /\ draft = <<>> /\ edits = 0 /\ savedAt = FALSE
  /\ test = "idle" /\ timers = 0
  /\ creating = FALSE /\ name = "" /\ issued = Nobody
  /\ revoking = Nobody /\ confirming = Nobody
  /\ shownOnce = {} /\ revoked = {}

PageStep ==
  \/ EditGeneral \/ EditTelegram \/ EditRetention \/ SaveForm \/ DiscardForm
  \/ RunTest \/ TimerFires
  \/ OpenCreate \/ (\E v \in TokenNames : TypeName(v)) \/ CreateToken \/ CloseCreate
  \/ (\E t \in OldTokens \cup NewTokens : AskRevoke(t)) \/ Revoke \/ KeepToken
  \/ (\E m \in {"vacuum", "purge"} : AskMaintenance(m)) \/ EndMaintenance

Next ==
  \/ PageStep
  \/ ReloadPage
  \/ \E p \in SettingsRoutes \cup {Nobody} : Mount(p)
  \/ StoreStep /\ UNCHANGED pageVars

Spec == Init /\ [][Next]_vars

(* ------------------------------------------------------------ properties *)

TypeOK ==
  /\ StoreTypeOK
  /\ page \in SettingsRoutes \cup {Nobody}
  /\ DOMAIN draft = PageKeys(page)
  /\ edits \in 0..MaxEdits /\ savedAt \in BOOLEAN
  /\ test \in {"idle", "sending", "ok", "fail"} /\ timers \in Nat
  /\ creating \in BOOLEAN /\ name \in TokenNames
  /\ issued \in NewTokens \cup {Nobody}
  /\ revoking \in OldTokens \cup NewTokens \cup {Nobody}
  /\ confirming \in {"vacuum", "purge", Nobody}

(* A token is complete on the screen once: from its creation until the sheet is
   closed or the page is left, and never again, and while it is shown it is in
   the list (access.tsx:50-54, 236-246, against its line 89). *)
TokenShownOnce ==
  ShownWhole \cap shownOnce = {} /\ ShownWhole \subseteq Tokens

(* A revoked token stays revoked, in the console and in what a reload will read,
   as long as no write fails and no second tab has the console open: neither the
   other forms nor a new token bring it back (access.tsx:256-273). *)
RevokedStaysRevoked ==
  faults = 0 => revoked \cap (Tokens \cup (IF pending[Here] THEN {} ELSE Read(stored).tokens)) = {}

(* The types of the pages and their store, and a token is complete on the screen
   only once: the one thing of a page that no reload and no list shows again. *)
PagesAreSound == TypeOK /\ TokenShownOnce

(* "Saved" is true: when the footer says so and the write did not fail, what the
   form shows is what a reload will read (settings-shell.tsx:135-197). *)
SavedIsStored ==
  FooterStatus = "saved" /\ faults = 0 /\ ~pending[Here]
    => \A k \in DOMAIN draft : Read(stored)[k] = draft[k]

(* What the console shows as kept is what a reload will read: the whole store, and
   the form under its "saved". *)
SavedIsKept == ReloadChangesNothing /\ SavedIsStored

(* An unsaved draft never reaches the store: the tab's settings of a form change
   only by its save button or a reload, and become exactly the draft. *)
OnlySaveStoresTheDraft ==
  [][\A k \in {"siteName", "timezone", "telegram", "retention"} :
       settings'[Here][k] # settings[Here][k] =>
         \/ k \in DOMAIN draft /\ settings'[Here][k] = draft[k] /\ ~Dirty'
         \/ settings'[Here] = Read(stored)]_vars
=============================================================================

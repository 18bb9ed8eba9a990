-------------------------- MODULE SettingsPagesProofs --------------------------
(* Proofs about SettingsPages for any tokens, any entry left in localStorage, *)
(* any choices, and any number of saves, faults and edits.                    *)
EXTENDS SettingsPages, StoreProofs

-----------------------------------------------------------------------------
(* The draft and the sheets of a page.                                       *)

DraftInv ==
  /\ draft = [k \in PageKeys(page) |-> draft[k]]
  /\ \A k \in PageKeys(page) : Fits(k, draft[k])

(* The sheet of a new token and the question about one are on their page, never
   both; the token on the screen is in the list and was not shown before. *)
TokenInv ==
  /\ creating \in BOOLEAN
  /\ creating \/ revoking # Nobody => page = "access"
  /\ creating => revoking = Nobody
  /\ issued # Nobody => creating /\ issued \in Tokens /\ issued \notin shownOnce
  /\ faults = 0 => revoked \cap Tokens = {}

FormType ==
  /\ page \in SettingsRoutes \cup {Nobody}
  /\ edits \in 0..MaxEdits /\ savedAt \in BOOLEAN
  /\ test \in {"idle", "sending", "ok", "fail"} /\ timers \in Nat
  /\ name \in TokenNames
  /\ issued \in NewTokens \cup {Nobody}
  /\ revoking \in OldTokens \cup NewTokens \cup {Nobody}
  /\ confirming \in {"vacuum", "purge", Nobody}

PagesInv == StoreInv /\ DraftInv /\ TokenInv /\ FormType

\* The keys of a form are settings other than the tokens.
LEMMA FormKeys ==
  ASSUME NEW p, NEW k \in PageKeys(p)
  PROVE  k \in Keys /\ k # "tokens" /\ p # "access"
BY KeysAre DEF PageKeys

\* This tab is always open, on settings.
LEMMA MineIsTyped ==
  ASSUME StoreInv
  PROVE  Mine \in SettingsType /\ IsOpen(Here) /\ Here \in Tabs
BY OpenIsTyped DEF StoreInv, StoreTypeOK, Mine, Tabs

\* An edit replaces one setting of the draft by one that fits.
LEMMA EditSteps ==
  ASSUME DraftInv, EditGeneral \/ EditTelegram \/ EditRetention
  PROVE  \E k \in PageKeys(page) : \E v : Fits(k, v) /\ EditDraft(k, v)
<1>1. CASE EditGeneral
  <2>1. PICK k \in PageKeys(page) : page = "general" /\ \E v \in Typed[k] : EditDraft(k, v)
    BY <1>1 DEF EditGeneral
  <2>2. PICK v \in Typed[k] : EditDraft(k, v)
    BY <2>1
  <2>3. k \in {"siteName", "timezone"}
    BY <2>1 DEF PageKeys
  <2>4. Fits(k, v)
    BY <2>2, <2>3, TypedIsOffered
  <2> QED BY <2>2, <2>4
<1>2. ASSUME NEW k \in Nested, k \in PageKeys(page), NEW fields \in SUBSET DOMAIN Default[k],
             EditField(k, fields)
      PROVE  \E v : Fits(k, v) /\ EditDraft(k, v)
  <2>1. PICK f \in fields : \E v \in Typed[f] : EditDraft(k, [draft[k] EXCEPT ![f] = v])
    BY <1>2 DEF EditField
  <2>2. PICK v \in Typed[f] : EditDraft(k, [draft[k] EXCEPT ![f] = v])
    BY <2>1
  <2> DEFINE x == draft[k]
             y == [draft[k] EXCEPT ![f] = v]
  <2>3. Fits(k, x)
    BY <1>2 DEF DraftInv
  <2> HIDE DEF x
  <2>4. x = [g \in DOMAIN Default[k] |-> x[g]] /\ \A g \in DOMAIN Default[k] : FieldFits(k, g, x[g])
    BY <2>3, ObjectFits
  <2>5. FieldFits(k, f, v)
    BY <1>2, <2>2, TypedIsOffered
  <2>6. y = [g \in DOMAIN Default[k] |-> IF g = f THEN v ELSE x[g]]
    BY <2>4 DEF x
  <2>7. \A g \in DOMAIN Default[k] : FieldFits(k, g, y[g])
    BY <2>4, <2>5, <2>6
  <2>8. y = [g \in DOMAIN Default[k] |-> y[g]]
    BY <2>6
  <2>9. EditDraft(k, y)
    BY <2>2
  <2> HIDE DEF y
  <2>10. Fits(k, y)
    BY <2>7, <2>8, ObjectFits
  <2> QED BY <2>9, <2>10
<1>3. CASE EditTelegram
  <2>1. "telegram" \in PageKeys(page) /\ EditField("telegram", TelegramFields)
    BY <1>3 DEF EditTelegram, PageKeys
  <2>2. TelegramFields \in SUBSET DOMAIN Default["telegram"] /\ "telegram" \in Nested
    BY FieldsAre DEF TelegramFields, Nested
  <2> QED BY <1>2, <2>1, <2>2
<1>4. CASE EditRetention
  <2> DEFINE fields == {f \in DOMAIN draft.retention : f = "rawKeep" => draft.retention.rawEnabled}
  <2>1. "retention" \in PageKeys(page) /\ EditField("retention", fields)
    BY <1>4 DEF EditRetention, PageKeys
  <2>2. "retention" \in Nested
    BY DEF Nested
  <2>3. DOMAIN draft.retention = DOMAIN Default["retention"]
    <3> DEFINE x == draft["retention"]
    <3>1. Fits("retention", x)
      BY <2>1 DEF DraftInv
    <3> HIDE DEF x
    <3>2. DOMAIN x = DOMAIN Default["retention"]
      BY <2>2, <3>1, ObjectFits
    <3> QED BY <3>2 DEF x
  <2>4. fields \in SUBSET DOMAIN Default["retention"]
    BY <2>3
  <2> HIDE DEF fields
  <2> QED BY <1>2, <2>1, <2>2, <2>4
<1> QED BY <1>1, <1>3, <1>4

-----------------------------------------------------------------------------
(* The steps of the pages.                                                   *)

(* Steps that leave the store, the draft and the history of tokens alone. *)
Lesser ==
  \/ RunTest \/ TimerFires
  \/ OpenCreate \/ (\E v \in TokenNames : TypeName(v))
  \/ (\E t \in OldTokens \cup NewTokens : AskRevoke(t)) \/ KeepToken
  \/ (\E m \in {"vacuum", "purge"} : AskMaintenance(m)) \/ EndMaintenance

\* The kinds of steps.
LEMMA PageSteps ==
  ASSUME [Next]_vars
  PROVE  \/ EditGeneral \/ EditTelegram \/ EditRetention
         \/ SaveForm \/ DiscardForm \/ Lesser \/ CreateToken \/ CloseCreate \/ Revoke
         \/ ReloadPage
         \/ \E p \in SettingsRoutes \cup {Nobody} : Mount(p)
         \/ StoreStep /\ UNCHANGED pageVars
         \/ UNCHANGED vars
BY DEF Next, PageStep, Lesser

\* What the lesser steps leave alone.
LEMMA LesserSteps ==
  ASSUME Lesser
  PROVE  UNCHANGED <<store, page, draft, edits, savedAt, issued, shownOnce, revoked>>
BY DEF Lesser, RunTest, TimerFires, OpenCreate, TypeName, AskRevoke, KeepToken, AskMaintenance,
       EndMaintenance, past

\* The form is saved whole.
LEMMA SaveFormSteps ==
  ASSUME StoreInv, DraftInv, SaveForm
  PROVE  /\ StoreInv' /\ faults' = faults /\ draft' = draft /\ page' = page
         /\ settings'[Here] = Spread(Mine, draft)
         /\ \A k \in Keys : settings'[Here][k] = IF k \in DOMAIN draft THEN draft[k] ELSE Mine[k]
         /\ page # "access"
<1>1. \A k \in DOMAIN draft : k \in Keys /\ Fits(k, draft[k])
  BY FormKeys DEF DraftInv
<1>2. StoreInv' /\ faults' = faults /\ settings'[Here] = Spread(Mine, draft)
  BY <1>1, MineIsTyped, SaveSteps DEF SaveForm, save, Mine
<1>3. \A k \in Keys : Spread(Mine, draft)[k] = IF k \in DOMAIN draft THEN draft[k] ELSE Mine[k]
  BY <1>1, MineIsTyped, SpreadFits
<1>4. page # "access"
  BY FormKeys DEF SaveForm, Dirty, DraftInv
<1> QED BY <1>2, <1>3, <1>4 DEF SaveForm

\* A list of tokens is saved alone.
LEMMA TokensSaved ==
  ASSUME StoreInv, NEW S \in SUBSET (OldTokens \cup NewTokens), save([tokens |-> S])
  PROVE  /\ StoreInv' /\ faults' = faults
         /\ \A k \in Keys : settings'[Here][k] = IF k = "tokens" THEN S ELSE Mine[k]
         /\ Tokens' = S
<1> DEFINE patch == [tokens |-> S]
<1>1. DOMAIN patch = {"tokens"} /\ patch["tokens"] = S /\ "tokens" \in Keys
  BY PatchOfOne
<1>2. save(patch)
  OBVIOUS
<1> HIDE DEF patch
<1>3. \A k \in DOMAIN patch : k \in Keys /\ Fits(k, patch[k])
  BY <1>1, FitsAre
<1>4. StoreInv' /\ faults' = faults /\ settings'[Here] = Spread(Mine, patch)
  BY <1>2, <1>3, MineIsTyped, SaveSteps DEF save, Mine
<1>5. \A k \in Keys : Spread(Mine, patch)[k] = IF k \in DOMAIN patch THEN patch[k] ELSE Mine[k]
  BY <1>3, MineIsTyped, SpreadFits
<1>6. \A k \in Keys : settings'[Here][k] = IF k = "tokens" THEN S ELSE Mine[k]
  BY <1>1, <1>4, <1>5
<1>7. settings'[Here]["tokens"] = S
  BY <1>1, <1>6
<1> QED BY <1>4, <1>6, <1>7 DEF Tokens, Mine

\* The new token and the tokens without a revoked one.
LEMMA TokenSteps ==
  ASSUME StoreInv
  PROVE  /\ Tokens \in SUBSET (OldTokens \cup NewTokens)
         /\ CreateToken => \E t \in NewTokens \ (Tokens \cup shownOnce \cup revoked) :
                              /\ issued' = t /\ creating /\ StoreInv' /\ faults' = faults
                              /\ Tokens' = Tokens \cup {t}
         /\ Revoke => /\ StoreInv' /\ faults' = faults /\ Tokens' = Tokens \ {revoking}
         /\ CreateToken \/ Revoke =>
              \A k \in Keys \ {"tokens"} : settings'[Here][k] = Mine[k]
<1>1. Tokens \in SUBSET (OldTokens \cup NewTokens)
  BY MineIsTyped DEF Tokens, SettingsType
<1>2. ASSUME CreateToken
      PROVE  /\ \E t \in NewTokens \ (Tokens \cup shownOnce \cup revoked) :
                  /\ issued' = t /\ creating /\ StoreInv' /\ faults' = faults
                  /\ Tokens' = Tokens \cup {t}
             /\ \A k \in Keys \ {"tokens"} : settings'[Here][k] = Mine[k]
  <2>1. PICK t \in NewTokens \ (Tokens \cup shownOnce \cup revoked) :
          save([tokens |-> Tokens \cup {t}]) /\ issued' = t /\ creating
    BY <1>2 DEF CreateToken
  <2> DEFINE S == Tokens \cup {t}
  <2>2. S \in SUBSET (OldTokens \cup NewTokens) /\ save([tokens |-> S])
    BY <1>1, <2>1
  <2> HIDE DEF S
  <2>3. /\ StoreInv' /\ faults' = faults /\ Tokens' = S
        /\ \A k \in Keys : settings'[Here][k] = IF k = "tokens" THEN S ELSE Mine[k]
    BY <2>2, TokensSaved
  <2> QED BY <2>1, <2>3 DEF S
<1>3. ASSUME Revoke
      PROVE  /\ StoreInv' /\ faults' = faults /\ Tokens' = Tokens \ {revoking}
             /\ \A k \in Keys \ {"tokens"} : settings'[Here][k] = Mine[k]
  <2> DEFINE S == Tokens \ {revoking}
  <2>1. S \in SUBSET (OldTokens \cup NewTokens) /\ save([tokens |-> S])
    BY <1>1, <1>3 DEF Revoke
  <2> HIDE DEF S
  <2>2. /\ StoreInv' /\ faults' = faults /\ Tokens' = S
        /\ \A k \in Keys : settings'[Here][k] = IF k = "tokens" THEN S ELSE Mine[k]
    BY <2>1, TokensSaved
  <2> QED BY <2>2 DEF S
<1> QED BY <1>1, <1>2, <1>3

\* Each step keeps the store.
LEMMA StoreKept ==
  ASSUME StoreInv, DraftInv, [Next]_vars
  PROVE  StoreInv'
<1>1. CASE EditGeneral \/ EditTelegram \/ EditRetention
  BY <1>1, EditSteps, StoreStays DEF EditDraft
<1>2. CASE SaveForm
  BY <1>2, SaveFormSteps
<1>3. CASE DiscardForm \/ Lesser \/ CloseCreate \/ UNCHANGED vars
  BY <1>3, LesserSteps, StoreStays DEF DiscardForm, CloseCreate, vars
<1>4. CASE CreateToken \/ Revoke
  BY <1>4, TokenSteps
<1>5. CASE ReloadPage
  BY <1>5, ReloadSteps DEF ReloadPage
<1>6. ASSUME NEW p, Mount(p)
      PROVE  StoreInv'
  BY <1>6, StoreStays DEF Mount
<1>7. CASE StoreStep
  BY <1>7, StoreSteps
<1> QED BY <1>1, <1>2, <1>3, <1>4, <1>5, <1>6, <1>7, PageSteps

\* A page that is mounted or loaded shows the settings as its draft.
LEMMA FreshDraft ==
  ASSUME NEW p, NEW v \in SettingsType, Fresh(p, v)
  PROVE  DraftInv'
<1>1. page' = p /\ draft' = [k \in PageKeys(p) |-> v[k]]
  BY DEF Fresh
<1>2. \A k \in PageKeys(p) : Fits(k, v[k])
  BY FormKeys, SettingsFit
<1>3. draft' = [k \in PageKeys(p) |-> draft'[k]] /\ \A k \in PageKeys(p) : draft'[k] = v[k]
  BY <1>1
<1>4. \A k \in PageKeys(page') : Fits(k, draft'[k])
  BY <1>1, <1>2, <1>3
<1> QED BY <1>1, <1>3, <1>4 DEF DraftInv

\* Each step keeps the draft a part of settings.
LEMMA DraftKept ==
  ASSUME StoreInv, DraftInv, [Next]_vars
  PROVE  DraftInv'
<1>1. ASSUME UNCHANGED <<page, draft>>
      PROVE  DraftInv'
  BY <1>1 DEF DraftInv, PageKeys
<1>2. CASE EditGeneral \/ EditTelegram \/ EditRetention
  <2>1. PICK k \in PageKeys(page) : \E v : Fits(k, v) /\ EditDraft(k, v)
    BY <1>2, EditSteps
  <2>2. PICK v : Fits(k, v) /\ EditDraft(k, v)
    BY <2>1
  <2>3. page' = page /\ draft' = [draft EXCEPT ![k] = v]
    BY <2>2 DEF EditDraft
  <2>4. draft' = [j \in PageKeys(page) |-> IF j = k THEN v ELSE draft[j]]
    BY <2>3 DEF DraftInv
  <2>5. draft' = [j \in PageKeys(page) |-> draft'[j]] /\ \A j \in PageKeys(page) : Fits(j, draft'[j])
    BY <2>2, <2>4 DEF DraftInv
  <2> QED BY <2>3, <2>5 DEF DraftInv
<1>3. CASE DiscardForm
  <2>1. page' = page /\ draft' = [k \in PageKeys(page) |-> Mine[k]]
    BY <1>3 DEF DiscardForm, DraftInv
  <2>2. \A k \in PageKeys(page) : Fits(k, Mine[k])
    BY MineIsTyped, FormKeys, SettingsFit
  <2>3. draft' = [k \in PageKeys(page) |-> draft'[k]] /\ \A k \in PageKeys(page) : draft'[k] = Mine[k]
    BY <2>1
  <2>4. \A k \in PageKeys(page) : Fits(k, draft'[k])
    BY <2>2, <2>3
  <2> QED BY <2>1, <2>3, <2>4 DEF DraftInv
<1>4. CASE SaveForm \/ Lesser \/ CloseCreate \/ CreateToken \/ Revoke \/ UNCHANGED <<pageVars>>
  BY <1>1, <1>4, LesserSteps DEF SaveForm, CloseCreate, CreateToken, Revoke, pageVars, form
<1>5. CASE ReloadPage
  <2>1. settings'[Here] \in SettingsType
    BY <1>5, ReloadSteps, ReadFits DEF ReloadPage, StoreInv
  <2> QED BY <1>5, <2>1, FreshDraft DEF ReloadPage
<1>6. ASSUME NEW p, Mount(p)
      PROVE  DraftInv'
  BY <1>6, MineIsTyped, FreshDraft DEF Mount
<1> QED BY <1>2, <1>3, <1>4, <1>5, <1>6, PageSteps DEF vars

\* The tokens are the same while the settings of the tab are.
LEMMA SameTokens ==
  ASSUME settings'[Here] = settings[Here]
  PROVE  Tokens' = Tokens
BY DEF Tokens, Mine

\* The tokens as saved by a form are those of before.
LEMMA FormTokens ==
  ASSUME StoreInv, DraftInv, SaveForm
  PROVE  Tokens' = Tokens
<1>1. "tokens" \in Keys /\ "tokens" \notin DOMAIN draft
  BY KeysAre, FormKeys DEF DraftInv
<1>2. settings'[Here]["tokens"] = Mine["tokens"]
  BY <1>1, SaveFormSteps
<1> QED BY <1>2 DEF Tokens, Mine

\* A reload or another page ends the display of a token.
LEMMA FreshTokens ==
  ASSUME TokenInv, NEW p, NEW v, Fresh(p, v), revoked' = revoked,
         faults' = 0 => faults = 0 /\ Tokens' = Tokens
  PROVE  TokenInv'
BY DEF Fresh, TokenInv

\* A step that leaves the tokens and their histories alone, and does not issue one.
LEMMA IdleTokens ==
  ASSUME TokenInv, Tokens' = Tokens, faults' = 0 => faults = 0,
         UNCHANGED <<page, creating, issued, revoking, shownOnce, revoked>>
  PROVE  TokenInv'
BY DEF TokenInv

\* Each step keeps the sheets and the histories of the tokens right.
LEMMA TokenKept ==
  ASSUME StoreInv, DraftInv, TokenInv, [Next]_vars
  PROVE  TokenInv'
<1>1. ASSUME EditGeneral \/ EditTelegram \/ EditRetention
      PROVE  TokenInv'
  <2>1. UNCHANGED <<store, page, creating, issued, revoking, shownOnce, revoked>>
    BY <1>1, EditSteps DEF EditDraft, past
  <2> QED BY <2>1, SameTokens, IdleTokens DEF store
<1>2. CASE SaveForm
  <2>1. UNCHANGED <<page, creating, issued, revoking, shownOnce, revoked>>
    BY <1>2 DEF SaveForm, past
  <2> QED BY <1>2, <2>1, FormTokens, SaveFormSteps, IdleTokens
<1>3. CASE DiscardForm \/ UNCHANGED vars
  <2>1. UNCHANGED <<store, page, creating, issued, revoking, shownOnce, revoked>>
    BY <1>3 DEF DiscardForm, vars, pageVars, form, past
  <2> QED BY <2>1, SameTokens, IdleTokens DEF store
<1>4. CASE Lesser
  <2>1. UNCHANGED <<store, page, issued, shownOnce, revoked>>
    BY <1>4, LesserSteps
  <2>2. faults' = faults /\ Tokens' = Tokens
    BY <2>1, SameTokens DEF store
  <2>3. \/ UNCHANGED <<creating, revoking>>
        \/ page = "access" /\ ~creating /\ revoking = Nobody /\ creating' = TRUE /\ revoking' = revoking
        \/ page = "access" /\ ~creating /\ creating' = creating
        \/ revoking' = Nobody /\ creating' = creating
    BY <1>4 DEF Lesser, RunTest, TimerFires, OpenCreate, TypeName, AskRevoke, KeepToken,
                AskMaintenance, EndMaintenance, Quiet
  <2>4. creating' \in BOOLEAN
    BY <2>3 DEF TokenInv
  <2>6. (creating => revoking = Nobody) /\ (creating' => revoking' = Nobody) /\ (creating => creating')
    BY <2>3 DEF TokenInv
  <2>5. creating' \/ revoking' # Nobody => page' = "access"
    BY <2>1, <2>3, Zenon DEF TokenInv
  <2> QED BY <2>1, <2>2, <2>4, <2>5, <2>6, Zenon DEF TokenInv
<1>5. CASE CreateToken
  <2>1. PICK t \in NewTokens \ (Tokens \cup shownOnce \cup revoked) :
          issued' = t /\ creating /\ faults' = faults /\ Tokens' = Tokens \cup {t}
    BY <1>5, TokenSteps
  <2>2. UNCHANGED <<page, creating, revoking, shownOnce, revoked>>
    BY <1>5 DEF CreateToken, past
  <2> QED BY <2>1, <2>2 DEF TokenInv
<1>6. CASE Revoke
  <2>1. faults' = faults /\ Tokens' = Tokens \ {revoking}
    BY <1>6, TokenSteps
  <2>2. /\ revoking # Nobody /\ revoking' = Nobody /\ revoked' = revoked \cup {revoking}
        /\ UNCHANGED <<page, creating, issued, shownOnce>>
    BY <1>6 DEF Revoke
  <2> QED BY <2>1, <2>2 DEF TokenInv
<1>7. CASE CloseCreate
  <2>1. UNCHANGED <<store, revoking, revoked>> /\ creating' = FALSE /\ issued' = Nobody /\ creating
    BY <1>7 DEF CloseCreate
  <2>2. faults' = faults /\ Tokens' = Tokens
    BY <2>1, SameTokens DEF store
  <2> QED BY <2>1, <2>2 DEF TokenInv
<1>8. CASE ReloadPage
  <2>1. Fresh(page, settings'[Here]) /\ revoked' = revoked /\ Reload
    BY <1>8 DEF ReloadPage
  <2>2. faults' = 0 => faults = 0 /\ settings'[Here] = Mine
    BY <2>1, ReloadSteps
  <2> DEFINE v == settings'[Here]
  <2>3. Fresh(page, v)
    BY <2>1
  <2> HIDE DEF v
  <2> QED BY <2>1, <2>2, <2>3, SameTokens, FreshTokens DEF Mine
<1>9. ASSUME NEW p, Mount(p)
      PROVE  TokenInv'
  <2>1. Fresh(p, Mine) /\ UNCHANGED <<store, revoked>>
    BY <1>9 DEF Mount
  <2>2. faults' = faults /\ Tokens' = Tokens
    BY <2>1, SameTokens DEF store
  <2> DEFINE v == Mine
  <2>3. Fresh(p, v)
    BY <2>1
  <2> HIDE DEF v
  <2> QED BY <2>1, <2>2, <2>3, FreshTokens
<1>10. CASE StoreStep /\ UNCHANGED pageVars
  <2>1. settings'[Here] = settings[Here] /\ (faults' = 0 => faults = 0)
    BY <1>10, StoreSteps
  <2>2. UNCHANGED <<page, creating, issued, revoking, shownOnce, revoked>>
    BY <1>10 DEF pageVars, form, past
  <2> QED BY <2>1, <2>2, SameTokens, IdleTokens
<1> QED BY <1>1, <1>2, <1>3, <1>4, <1>5, <1>6, <1>7, <1>8, <1>9, <1>10, PageSteps

\* Each step keeps the rest of a page of its type.
LEMMA FormKept ==
  ASSUME StoreInv, DraftInv, FormType, [Next]_vars
  PROVE  FormType'
<1>1. ASSUME EditGeneral \/ EditTelegram \/ EditRetention
      PROVE  FormType'
  <2>1. /\ edits < MaxEdits /\ edits' = edits + 1
        /\ UNCHANGED <<page, savedAt, test, timers, name, issued, revoking, confirming>>
    BY <1>1, EditSteps DEF EditDraft
  <2>2. MaxEdits \in Nat
    BY BoundsAssumption
  <2> QED BY <2>1, <2>2 DEF FormType
<1>2. CASE SaveForm
  BY <1>2 DEF SaveForm, FormType
<1>3. CASE DiscardForm
  BY <1>3 DEF DiscardForm, FormType
<1>4. CASE Lesser
  BY <1>4 DEF Lesser, RunTest, TimerFires, OpenCreate, TypeName, AskRevoke, KeepToken,
              AskMaintenance, EndMaintenance, FormType
<1>5. CASE CreateToken
  BY <1>5 DEF CreateToken, FormType
<1>6. CASE Revoke
  BY <1>6 DEF Revoke, FormType
<1>7. CASE CloseCreate
  BY <1>7, BoundsAssumption DEF CloseCreate, FormType
<1>8. ASSUME NEW p \in SettingsRoutes \cup {Nobody}, NEW v, Fresh(p, v)
      PROVE  FormType'
  <2>0. MaxEdits \in Nat
    BY BoundsAssumption
  <2>1. 0 \in 0..MaxEdits
    BY <2>0
  <2>2. "" \in TokenNames
    BY BoundsAssumption
  <2> QED BY <1>8, <2>1, <2>2 DEF Fresh, FormType
<1>9. CASE ReloadPage
  <2> DEFINE v == settings'[Here]
  <2>1. Fresh(page, v) /\ page \in SettingsRoutes \cup {Nobody}
    BY <1>9 DEF ReloadPage, FormType
  <2> HIDE DEF v
  <2> QED BY <1>8, <2>1
<1>10. ASSUME NEW p \in SettingsRoutes \cup {Nobody}, Mount(p)
       PROVE  FormType'
  <2> DEFINE v == Mine
  <2>1. Fresh(p, v)
    BY <1>10 DEF Mount
  <2> HIDE DEF v
  <2> QED BY <1>8, <2>1
<1>11. CASE UNCHANGED pageVars
  BY <1>11 DEF pageVars, form, FormType
<1> QED BY <1>1, <1>2, <1>3, <1>4, <1>5, <1>6, <1>7, <1>9, <1>10, <1>11, PageSteps DEF vars

-----------------------------------------------------------------------------
(* The invariant and what it says.                                           *)

\* The console starts with no page mounted.
LEMMA InitPages == Init => PagesInv
<1> SUFFICES ASSUME Init
             PROVE  PagesInv
  OBVIOUS
<1>1. InitStore
  BY DEF Init
<1>2. /\ page = Nobody /\ draft = <<>> /\ edits = 0 /\ savedAt = FALSE
      /\ test = "idle" /\ timers = 0 /\ creating = FALSE /\ name = "" /\ issued = Nobody
      /\ revoking = Nobody /\ confirming = Nobody /\ shownOnce = {} /\ revoked = {}
  BY DEF Init
<1>3. StoreInv
  BY <1>1, InitStoreInv
<1>4. DraftInv
  <2>1. page \notin SettingsRoutes
    BY <1>2, BoundsAssumption
  <2>2. PageKeys(page) = {}
    BY <2>1 DEF PageKeys, SettingsRoutes
  <2>3. <<>> = [k \in {} |-> draft[k]]
    OBVIOUS
  <2> QED BY <1>2, <2>2, <2>3 DEF DraftInv
<1>5. TokenInv
  BY <1>2 DEF TokenInv
<1>6. FormType
  <2>0. MaxEdits \in Nat
    BY BoundsAssumption
  <2>1. 0 \in 0..MaxEdits
    BY <2>0
  <2>2. "" \in TokenNames
    BY BoundsAssumption
  <2> QED BY <1>2, <2>1, <2>2 DEF FormType
<1> QED BY <1>3, <1>4, <1>5, <1>6 DEF PagesInv

\* Each step keeps the four parts.
LEMMA PagesKept == PagesInv /\ [Next]_vars => PagesInv'
BY StoreKept, DraftKept, TokenKept, FormKept DEF PagesInv

\* Every reachable state of the pages keeps the invariant.
LEMMA PagesInvariant == Spec => []PagesInv
BY InitPages, PagesKept, PTL DEF Spec

(* No page leaves its type, and a token is complete on the screen only once: from
   its creation until its sheet is closed or the page left, and in the list for as
   long as it is shown (access.tsx:50-54, 236-246). *)
THEOREM TokensShownOnce == Spec => []PagesAreSound
<1>1. ASSUME PagesInv
      PROVE  PagesAreSound
  <2>1. StoreTypeOK /\ FormType /\ DraftInv /\ TokenInv
    BY <1>1 DEF PagesInv, StoreInv
  <2>2. DOMAIN draft = PageKeys(page)
    BY <2>1 DEF DraftInv
  <2>3. creating \in BOOLEAN
    BY <2>1 DEF TokenInv
  <2>4. TypeOK
    BY <2>1, <2>2, <2>3 DEF TypeOK, FormType
  <2>5. TokenShownOnce
    BY <2>1 DEF TokenShownOnce, ShownWhole, TokenInv
  <2> QED BY <2>4, <2>5 DEF PagesAreSound
<1> QED BY <1>1, PagesInvariant, PTL

(* "Saved" is true: while no write failed and no second tab was opened, what the
   console shows as kept, the whole store and the form under its footer, is what a
   reload will read (persist.ts:33-41, settings-shell.tsx:135-197). *)
THEOREM SavedKept == Spec => []SavedIsKept
<1>1. ASSUME PagesInv
      PROVE  SavedIsKept
  <2>1. ReloadChangesNothing
    BY <1>1, StoreIsKept DEF PagesInv
  <2>2. FooterStatus = "saved" => ~Dirty
    BY DEF FooterStatus
  <2>3. SavedIsStored
    BY <2>1, <2>2 DEF SavedIsStored, ReloadChangesNothing, Dirty
  <2> QED BY <2>1, <2>3 DEF SavedIsKept
<1> QED BY <1>1, PagesInvariant, PTL

(* A revoked token stays revoked, on the page and in what a reload reads, while no
   write failed and no second tab was opened: no other form and no new token brings
   it back (access.tsx:256-273). *)
THEOREM RevokedForGood == Spec => []RevokedStaysRevoked
<1>1. ASSUME PagesInv
      PROVE  RevokedStaysRevoked
  <2>1. faults = 0 => revoked \cap Tokens = {}
    BY <1>1 DEF PagesInv, TokenInv
  <2>2. faults = 0 /\ ~pending[Here] => Read(stored).tokens = Tokens
    BY <1>1, StoreIsKept DEF PagesInv, ReloadChangesNothing, Tokens
  <2> QED BY <2>1, <2>2 DEF RevokedStaysRevoked
<1> QED BY <1>1, PagesInvariant, PTL

(* An unsaved draft never reaches the store: a setting that a form edits changes
   only by its save button, to exactly the draft, or by a reload. *)
THEOREM DraftsWait == Spec => OnlySaveStoresTheDraft
<1> DEFINE Kept ==
      \A k \in {"siteName", "timezone", "telegram", "retention"} :
        settings'[Here][k] # settings[Here][k] =>
          \/ k \in DOMAIN draft /\ settings'[Here][k] = draft[k] /\ ~Dirty'
          \/ settings'[Here] = Read(stored)
<1>1. ASSUME PagesInv, [Next]_vars
      PROVE  Kept
  <2>0. StoreInv /\ DraftInv
    BY <1>1 DEF PagesInv
  <2>1. CASE settings'[Here] = settings[Here]
    BY <2>1
  <2>2. CASE SaveForm
    <3>1. /\ draft' = draft
          /\ \A k \in Keys : settings'[Here][k] = IF k \in DOMAIN draft THEN draft[k] ELSE Mine[k]
      BY <2>0, <2>2, SaveFormSteps
    <3>2. DOMAIN draft \subseteq Keys
      BY <2>0, FormKeys DEF DraftInv
    <3>3. ~Dirty'
      BY <3>1, <3>2 DEF Dirty, Mine
    <3> QED BY <3>1, <3>3, KeysAre DEF Mine
  <2>3. CASE CreateToken \/ Revoke
    <3>1. \A k \in Keys \ {"tokens"} : settings'[Here][k] = Mine[k]
      BY <2>0, <2>3, TokenSteps
    <3> QED BY <3>1, KeysAre DEF Mine
  <2>4. CASE ReloadPage
    BY <2>0, <2>4, ReloadSteps DEF ReloadPage
  <2>5. CASE EditGeneral \/ EditTelegram \/ EditRetention
    BY <2>0, <2>1, <2>5, EditSteps DEF EditDraft, store
  <2>6. CASE DiscardForm \/ Lesser \/ CloseCreate \/ UNCHANGED vars
    BY <2>1, <2>6, LesserSteps DEF DiscardForm, CloseCreate, vars, store
  <2>7. ASSUME NEW p, Mount(p)
        PROVE  Kept
    BY <2>1, <2>7 DEF Mount, store
  <2>8. CASE StoreStep
    BY <2>0, <2>1, <2>8, StoreSteps
  <2> QED BY <1>1, <2>2, <2>3, <2>4, <2>5, <2>6, <2>7, <2>8, PageSteps
<1>2. PagesInv /\ [Next]_vars => [Kept]_vars
  BY <1>1
<1> QED BY <1>2, PagesInvariant, PTL DEF Spec, OnlySaveStoresTheDraft
=============================================================================

---------------------------- MODULE SettingsStore ----------------------------
(***************************************************************************)
(* The admin console's one store of settings: a React state that starts    *)
(* from localStorage and is written back by an effect after every commit   *)
(* (src/web/src/lib/persist.ts), the provider and the hooks that change it *)
(* (components/settings-provider.tsx) and the completion of what an older  *)
(* version or a hand edit left there (lib/settings.ts).                    *)
(*                                                                         *)
(* The pages are modelled in the tab Here.  A second tab, Other, has the   *)
(* console open on the same localStorage: every write of either replaces   *)
(* the whole entry, and neither hears of the other's.                      *)
(***************************************************************************)
EXTENDS Inventory

CONSTANTS
  Probes, Rules,             \* ids the read-only data source knows
  NewProbes, NewTokens,      \* ids still to be given to created probes, tokens
  OldTokens,                 \* the tokens of DEFAULT_SETTINGS
  Shelf,                     \* what localStorage may hold before the first visit
  Absent, Broken, Junk,      \* no entry; an entry that is no JSON; a field of another type
  Unset, Closed,             \* undefined; the settings of a tab that is not open
  MaxSaves, MaxFaults        \* bounds: settings changed, storage faults and second tabs

VARIABLES
  settings,  \* settings[t]: what the provider of tab t holds, or Closed
  pending,   \* pending[t]: the effect that stores it has not run yet
  stored,    \* the localStorage entry
  saves,     \* how often the settings were changed
  faults     \* storage writes that failed or were lost, and second tabs

store == <<settings, pending, stored, saves, faults>>

Here == "here"
Other == "other"
Tabs == {Here, Other}

(* ------------------------------------------------------------ the entry *)

TelegramFields == {"enabled", "botToken", "chatId", "topicId"}

(* The choices of the retention page in half hours, hours and days;
   0 is "forever", which has no upper bound. *)
Options ==
  [memoryKeep |-> <<1, 2, 6>>, rawKeep |-> <<6, 24, 72>>,
   m1Keep |-> <<7, 14, 30, 90, 365>>, h1Keep |-> <<90, 365, 1095, 0>>]

Default ==
  [siteName |-> "pjx", timezone |-> "Shanghai",
   telegram |-> [enabled |-> TRUE, botToken |-> "wellFormed",
                 chatId |-> "number", topicId |-> "none"],
   retention |-> [memoryKeep |-> 2, rawEnabled |-> FALSE, rawKeep |-> 24,
                  m1Keep |-> 14, h1Keep |-> 365],
   tokens |-> OldTokens,
   nodes |-> [s \in Servers |-> [tags |-> Unset, maintenance |-> FALSE]],
   probeEnabled |-> [p \in Probes \cup NewProbes |-> Unset],
   probesRemoved |-> {}, probesCreated |-> {},
   ruleEnabled |-> [r \in Rules |-> Unset]]

Keys == DOMAIN Default
Nested == {"telegram", "retention"}

(* The interface Settings; what the lists order is left out. *)
SettingsType ==
  [siteName : STRING, timezone : STRING,
   telegram : [enabled : BOOLEAN, botToken : STRING, chatId : STRING, topicId : STRING],
   retention : [memoryKeep : Nat, rawEnabled : BOOLEAN, rawKeep : Nat, m1Keep : Nat, h1Keep : Nat],
   tokens : SUBSET (OldTokens \cup NewTokens),
   nodes : [Servers -> [tags : {Unset} \cup Seq(Tags), maintenance : BOOLEAN]],
   probeEnabled : [Probes \cup NewProbes -> {Unset} \cup BOOLEAN],
   probesRemoved : SUBSET Probes, probesCreated : SUBSET NewProbes,
   ruleEnabled : [Rules -> {Unset} \cup BOOLEAN]]

(* x is a value of the setting k, or of its field f. *)
Fits(k, x) == [Default EXCEPT ![k] = x] \in SettingsType
FieldFits(k, f, x) == Fits(k, [Default[k] EXCEPT ![f] = x])

(* True of any strings; the prover has no facts about literals. *)
ASSUME TextsAreStrings == {"pjx", "Shanghai", "wellFormed", "number", "none"} \subseteq STRING

(* No setting is missing or of another type, and an entry left by an older version
   or a hand has, besides fields of another type, values of their fields. *)
ASSUME StoreAssumption ==
  /\ MaxSaves \in Nat /\ MaxFaults \in Nat
  /\ {Absent, Broken, Closed} \cap SettingsType = {}
  /\ \A k \in Keys \ {"tokens", "probesRemoved", "probesCreated"} : ~Fits(k, Junk)
  /\ \A S \in SUBSET (OldTokens \cup NewTokens \cup Probes \cup NewProbes) : S # Junk
  /\ \A k \in Nested : \A f \in DOMAIN Default[k] : ~FieldFits(k, f, Junk)
  /\ \A raw \in Shelf \ {Absent, Broken} : \A k \in Keys \cap DOMAIN raw :
       raw[k] # Junk =>
         IF k \in Nested
           THEN \A f \in DOMAIN Default[k] \cap DOMAIN raw[k] :
                  raw[k][f] # Junk => FieldFits(k, f, raw[k][f])
           ELSE Fits(k, raw[k])

\* Variant: what is false counts as missing.
CompleteTruthy(part, whole) ==
  [f \in DOMAIN whole |->
     IF f \in DOMAIN part /\ part[f] # Junk /\ (f \in {"enabled", "rawEnabled"} => part[f])
       THEN part[f] ELSE whole[f]]

(* The two objects are completed field by field, every other key as a whole. *)
Complete(part, whole) ==
  [f \in DOMAIN whole |->
     IF f \in DOMAIN part /\ part[f] # Junk THEN part[f] ELSE whole[f]]

normalizeSettings(raw) ==
  [k \in Keys |->
     IF k \notin DOMAIN raw \/ raw[k] = Junk THEN Default[k]
     ELSE IF k \in Nested THEN Complete(raw[k], Default[k])
     ELSE raw[k]]

(* What the lazy initial state of usePersistentState returns. *)
Read(entry) ==
  IF entry \in {Absent, Broken} THEN Default ELSE normalizeSettings(entry)

InitStore ==
  /\ stored \in Shelf
  /\ settings = [t \in Tabs |-> IF t = Here THEN Read(stored) ELSE Closed]
  /\ pending = [t \in Tabs |-> t = Here]
  /\ saves \in 0..MaxSaves
  /\ faults = 0

(* --------------------------------------------------- reading and writing *)

IsOpen(t) == settings[t] # Closed
Mine == settings[Here]

nodeTags(s) == IF Mine.nodes[s].tags = Unset THEN FleetTags[s] ELSE Mine.nodes[s].tags
nodeMaintenance(s) == Mine.nodes[s].maintenance
ruleOn(r, fallback) ==
  IF Mine.ruleEnabled[r] = Unset THEN fallback ELSE Mine.ruleEnabled[r]
probeOn(p, fallback) ==
  IF Mine.probeEnabled[p] = Unset THEN fallback ELSE Mine.probeEnabled[p]

(* { ...prev, ...patch } *)
Spread(prev, patch) ==
  [k \in DOMAIN prev \cup DOMAIN patch |-> IF k \in DOMAIN patch THEN patch[k] ELSE prev[k]]

(* setSettings((prev) => ({ ...prev, ...patch })); the effect follows. *)
SaveIn(t, patch) ==
  /\ saves < MaxSaves
  /\ saves' = saves + 1
  /\ settings' = [settings EXCEPT ![t] = Spread(@, patch)]
  /\ pending' = [pending EXCEPT ![t] = TRUE]
  /\ UNCHANGED <<stored, faults>>

save(patch) == SaveIn(Here, patch)

(* The effect of [key, value]: all of the tab's settings become the entry. *)
Persist(t) ==
  /\ pending[t]
  /\ stored' = settings[t]
  /\ pending' = [pending EXCEPT ![t] = FALSE]
  /\ UNCHANGED <<settings, saves, faults>>

(* setItem throws (quota, private mode) and the catch says nothing. *)
PersistFails(t) ==
  /\ pending[t] /\ faults < MaxFaults
  /\ pending' = [pending EXCEPT ![t] = FALSE]
  /\ faults' = faults + 1
  /\ UNCHANGED <<settings, stored, saves>>

(* The tab is reloaded: what its effect had not stored is lost. *)
Reload ==
  /\ pending[Here] => faults < MaxFaults
  /\ faults' = IF pending[Here] THEN faults + 1 ELSE faults
  /\ settings' = [settings EXCEPT ![Here] = Read(stored)]
  /\ pending' = [pending EXCEPT ![Here] = TRUE]
  /\ UNCHANGED <<stored, saves>>

OpenOther ==
  /\ ~IsOpen(Other) /\ faults < MaxFaults
  /\ faults' = faults + 1
  /\ settings' = [settings EXCEPT ![Other] = Read(stored)]
  /\ pending' = [pending EXCEPT ![Other] = TRUE]
  /\ UNCHANGED <<stored, saves>>

CloseOther ==
  /\ IsOpen(Other)
  /\ settings' = [settings EXCEPT ![Other] = Closed]
  /\ pending' = [pending EXCEPT ![Other] = FALSE]
  /\ UNCHANGED <<stored, saves, faults>>

(* The other tab turns a rule off. *)
OtherSaves ==
  /\ IsOpen(Other)
  /\ \E r \in Rules :
       SaveIn(Other, [ruleEnabled |-> [settings[Other].ruleEnabled EXCEPT ![r] = FALSE]])

(* Steps no page takes part in. *)
StoreStep ==
  \/ \E t \in Tabs : Persist(t) \/ PersistFails(t)
  \/ OpenOther \/ CloseOther \/ OtherSaves

(* ------------------------------------------------------ the inline hooks *)

(* Tags equal to the data source's are not recorded. *)
setTags(s, tags) ==
  save([nodes |-> [Mine.nodes EXCEPT ![s].tags =
                     IF tags = FleetTags[s] THEN Unset ELSE tags]])

\* Variant: the rest of the server's entry is not spread.
setMaintenanceAlone(s, on) ==
  save([nodes |-> [Mine.nodes EXCEPT ![s] = [tags |-> Unset, maintenance |-> on]]])

setMaintenance(s, on) ==
  save([nodes |-> [Mine.nodes EXCEPT ![s].maintenance = on]])

setProbeEnabled(p, on) ==
  save([probeEnabled |-> [Mine.probeEnabled EXCEPT ![p] = on]])

setRuleEnabled(r, on) ==
  save([ruleEnabled |-> [Mine.ruleEnabled EXCEPT ![r] = on]])

\* Variant: the removals before are forgotten.
removeProbeAlone(p) == save([probesRemoved |-> {p}])

removeProbe(p) == save([probesRemoved |-> Mine.probesRemoved \cup {p}])
createProbe(p) == save([probesCreated |-> Mine.probesCreated \cup {p}])
removeCreated(p) == save([probesCreated |-> Mine.probesCreated \ {p}])

(* ------------------------------------------------------------ properties *)

StoreTypeOK ==
  /\ settings \in [Tabs -> SettingsType \cup {Closed}] /\ IsOpen(Here)
  /\ pending \in [Tabs -> BOOLEAN]
  /\ saves \in 0..MaxSaves /\ faults \in 0..MaxFaults

(* As long as no write failed and no second tab was opened, what localStorage
   holds comes back as exactly what the console shows: reloading loses and
   changes nothing (persist.ts:33-41, normalizeSettings of settings.ts). *)
ReloadChangesNothing ==
  faults = 0 /\ ~pending[Here] => Read(stored) = Mine
=============================================================================

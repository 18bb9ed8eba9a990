------------------------------ MODULE StoreProofs ------------------------------
(* What the pages' proofs need of the settings store: values of its type, and *)
(* what each step of the store does to the tabs and to the entry.             *)
EXTENDS SettingsStore, TLAPS

-----------------------------------------------------------------------------
(* Settings and their completion.                                            *)

\* The keys of the settings.
LEMMA KeysAre ==
  Keys = {"siteName", "timezone", "telegram", "retention", "tokens", "nodes", "probeEnabled",
          "probesRemoved", "probesCreated", "ruleEnabled"}
BY DEF Keys, Default

\* The defaults are settings.
LEMMA DefaultType == Default \in SettingsType
<1>1. [s \in Servers |-> [tags |-> Unset, maintenance |-> FALSE]]
        \in [Servers -> [tags : {Unset} \cup Seq(Tags), maintenance : BOOLEAN]]
  OBVIOUS
<1>2. [p \in Probes \cup NewProbes |-> Unset] \in [Probes \cup NewProbes -> {Unset} \cup BOOLEAN]
  OBVIOUS
<1>3. [r \in Rules |-> Unset] \in [Rules -> {Unset} \cup BOOLEAN]
  OBVIOUS
<1>4. OldTokens \in SUBSET (OldTokens \cup NewTokens)
  OBVIOUS
<1>5. [enabled |-> TRUE, botToken |-> "wellFormed", chatId |-> "number", topicId |-> "none"]
        \in [enabled : BOOLEAN, botToken : STRING, chatId : STRING, topicId : STRING]
  BY TextsAreStrings
<1>6. [memoryKeep |-> 2, rawEnabled |-> FALSE, rawKeep |-> 24, m1Keep |-> 14, h1Keep |-> 365]
        \in [memoryKeep : Nat, rawEnabled : BOOLEAN, rawKeep : Nat, m1Keep : Nat, h1Keep : Nat]
  OBVIOUS
<1>7. {} \in SUBSET Probes /\ {} \in SUBSET NewProbes
  OBVIOUS
<1> QED BY <1>1, <1>2, <1>3, <1>4, <1>5, <1>6, <1>7, TextsAreStrings DEF Default, SettingsType

\* What fits a setting, spelled out.
LEMMA FitsAre ==
  ASSUME NEW x
  PROVE  /\ Fits("siteName", x) <=> x \in STRING
         /\ Fits("timezone", x) <=> x \in STRING
         /\ Fits("telegram", x) <=>
              x \in [enabled : BOOLEAN, botToken : STRING, chatId : STRING, topicId : STRING]
         /\ Fits("retention", x) <=>
              x \in [memoryKeep : Nat, rawEnabled : BOOLEAN, rawKeep : Nat, m1Keep : Nat, h1Keep : Nat]
         /\ Fits("tokens", x) <=> x \in SUBSET (OldTokens \cup NewTokens)
         /\ Fits("nodes", x) <=>
              x \in [Servers -> [tags : {Unset} \cup Seq(Tags), maintenance : BOOLEAN]]
         /\ Fits("probeEnabled", x) <=> x \in [Probes \cup NewProbes -> {Unset} \cup BOOLEAN]
         /\ Fits("probesRemoved", x) <=> x \in SUBSET Probes
         /\ Fits("probesCreated", x) <=> x \in SUBSET NewProbes
         /\ Fits("ruleEnabled", x) <=> x \in [Rules -> {Unset} \cup BOOLEAN]
<1> DEFINE N == [Servers -> [tags : {Unset} \cup Seq(Tags), maintenance : BOOLEAN]]
           P == [Probes \cup NewProbes -> {Unset} \cup BOOLEAN]
           R == [Rules -> {Unset} \cup BOOLEAN]
           S == SUBSET (OldTokens \cup NewTokens)
           T == [enabled : BOOLEAN, botToken : STRING, chatId : STRING, topicId : STRING]
           K == [memoryKeep : Nat, rawEnabled : BOOLEAN, rawKeep : Nat, m1Keep : Nat, h1Keep : Nat]
           PR == SUBSET Probes
           PC == SUBSET NewProbes
<1>1. SettingsType =
        [siteName : STRING, timezone : STRING, telegram : T, retention : K, tokens : S, nodes : N,
         probeEnabled : P, probesRemoved : PR, probesCreated : PC, ruleEnabled : R]
  BY DEF SettingsType
<1> HIDE DEF N, P, R, S, T, K, PR, PC
<1>2. Default \in
        [siteName : STRING, timezone : STRING, telegram : T, retention : K, tokens : S, nodes : N,
         probeEnabled : P, probesRemoved : PR, probesCreated : PC, ruleEnabled : R]
  BY <1>1, DefaultType
<1>3. /\ Fits("siteName", x) <=> x \in STRING
      /\ Fits("timezone", x) <=> x \in STRING
      /\ Fits("telegram", x) <=> x \in T
      /\ Fits("retention", x) <=> x \in K
      /\ Fits("tokens", x) <=> x \in S
      /\ Fits("nodes", x) <=> x \in N
      /\ Fits("probeEnabled", x) <=> x \in P
      /\ Fits("probesRemoved", x) <=> x \in PR
      /\ Fits("probesCreated", x) <=> x \in PC
      /\ Fits("ruleEnabled", x) <=> x \in R
  BY <1>1, <1>2 DEF Fits
<1> QED BY <1>3 DEF N, P, R, S, T, K, PR, PC

\* Settings are what has every key and fits them all.
LEMMA SettingsFit ==
  ASSUME NEW v
  PROVE  v \in SettingsType <=> v = [k \in Keys |-> v[k]] /\ \A k \in Keys : Fits(k, v[k])
<1> DEFINE N == [Servers -> [tags : {Unset} \cup Seq(Tags), maintenance : BOOLEAN]]
           P == [Probes \cup NewProbes -> {Unset} \cup BOOLEAN]
           R == [Rules -> {Unset} \cup BOOLEAN]
           S == SUBSET (OldTokens \cup NewTokens)
           T == [enabled : BOOLEAN, botToken : STRING, chatId : STRING, topicId : STRING]
           K == [memoryKeep : Nat, rawEnabled : BOOLEAN, rawKeep : Nat, m1Keep : Nat, h1Keep : Nat]
           PR == SUBSET Probes
           PC == SUBSET NewProbes
<1>1. SettingsType =
        [siteName : STRING, timezone : STRING, telegram : T, retention : K, tokens : S, nodes : N,
         probeEnabled : P, probesRemoved : PR, probesCreated : PC, ruleEnabled : R]
  BY DEF SettingsType
<1>2. \A x : /\ Fits("siteName", x) <=> x \in STRING
             /\ Fits("timezone", x) <=> x \in STRING
             /\ Fits("telegram", x) <=> x \in T
             /\ Fits("retention", x) <=> x \in K
             /\ Fits("tokens", x) <=> x \in S
             /\ Fits("nodes", x) <=> x \in N
             /\ Fits("probeEnabled", x) <=> x \in P
             /\ Fits("probesRemoved", x) <=> x \in PR
             /\ Fits("probesCreated", x) <=> x \in PC
             /\ Fits("ruleEnabled", x) <=> x \in R
  BY FitsAre
<1> HIDE DEF N, P, R, S, T, K, PR, PC
<1>3. (\A k \in Keys : Fits(k, v[k])) <=>
        /\ v["siteName"] \in STRING /\ v["timezone"] \in STRING
        /\ v["telegram"] \in T /\ v["retention"] \in K /\ v["tokens"] \in S
        /\ v["nodes"] \in N /\ v["probeEnabled"] \in P
        /\ v["probesRemoved"] \in PR /\ v["probesCreated"] \in PC /\ v["ruleEnabled"] \in R
  BY <1>2, KeysAre
<1> QED BY <1>1, <1>3, KeysAre

\* Spreading a patch over settings changes the keys of the patch.
LEMMA SpreadFits ==
  ASSUME NEW v \in SettingsType, NEW patch, \A k \in DOMAIN patch : k \in Keys /\ Fits(k, patch[k])
  PROVE  /\ Spread(v, patch) \in SettingsType
         /\ \A k \in Keys : Spread(v, patch)[k] = IF k \in DOMAIN patch THEN patch[k] ELSE v[k]
<1>1. v = [k \in Keys |-> v[k]] /\ \A k \in Keys : Fits(k, v[k])
  BY SettingsFit
<1>2. DOMAIN v \cup DOMAIN patch = Keys
  BY <1>1
<1>3. Spread(v, patch) = [k \in Keys |-> IF k \in DOMAIN patch THEN patch[k] ELSE v[k]]
  BY <1>2 DEF Spread
<1>4. \A k \in Keys : Spread(v, patch)[k] = IF k \in DOMAIN patch THEN patch[k] ELSE v[k]
  BY <1>3
<1>5. \A k \in Keys : Fits(k, Spread(v, patch)[k])
  BY <1>1, <1>4
<1>6. Spread(v, patch) = [k \in Keys |-> Spread(v, patch)[k]]
  BY <1>3, <1>4
<1> QED BY <1>4, <1>5, <1>6, SettingsFit

\* What fits a field of the two objects, spelled out.
LEMMA FieldsAre ==
  ASSUME NEW x
  PROVE  /\ DOMAIN Default["telegram"] = {"enabled", "botToken", "chatId", "topicId"}
         /\ FieldFits("telegram", "enabled", x) <=> x \in BOOLEAN
         /\ FieldFits("telegram", "botToken", x) <=> x \in STRING
         /\ FieldFits("telegram", "chatId", x) <=> x \in STRING
         /\ FieldFits("telegram", "topicId", x) <=> x \in STRING
         /\ DOMAIN Default["retention"] = {"memoryKeep", "rawEnabled", "rawKeep", "m1Keep", "h1Keep"}
         /\ FieldFits("retention", "memoryKeep", x) <=> x \in Nat
         /\ FieldFits("retention", "rawEnabled", x) <=> x \in BOOLEAN
         /\ FieldFits("retention", "rawKeep", x) <=> x \in Nat
         /\ FieldFits("retention", "m1Keep", x) <=> x \in Nat
         /\ FieldFits("retention", "h1Keep", x) <=> x \in Nat
<1> DEFINE T == Default["telegram"]
           R == Default["retention"]
<1>1. /\ T \in [enabled : BOOLEAN, botToken : STRING, chatId : STRING, topicId : STRING]
      /\ R \in [memoryKeep : Nat, rawEnabled : BOOLEAN, rawKeep : Nat, m1Keep : Nat, h1Keep : Nat]
  BY DefaultType DEF SettingsType
<1> HIDE DEF T, R
<1>2. \A f : /\ FieldFits("telegram", f, x) <=>
                  [T EXCEPT ![f] = x]
                    \in [enabled : BOOLEAN, botToken : STRING, chatId : STRING, topicId : STRING]
             /\ FieldFits("retention", f, x) <=>
                  [R EXCEPT ![f] = x]
                    \in [memoryKeep : Nat, rawEnabled : BOOLEAN, rawKeep : Nat, m1Keep : Nat, h1Keep : Nat]
  BY FitsAre DEF FieldFits, T, R
<1>3. /\ FieldFits("telegram", "enabled", x) <=> x \in BOOLEAN
      /\ FieldFits("telegram", "botToken", x) <=> x \in STRING
      /\ FieldFits("telegram", "chatId", x) <=> x \in STRING
      /\ FieldFits("telegram", "topicId", x) <=> x \in STRING
  BY <1>1, <1>2
<1>4. /\ FieldFits("retention", "memoryKeep", x) <=> x \in Nat
      /\ FieldFits("retention", "rawEnabled", x) <=> x \in BOOLEAN
      /\ FieldFits("retention", "rawKeep", x) <=> x \in Nat
      /\ FieldFits("retention", "m1Keep", x) <=> x \in Nat
      /\ FieldFits("retention", "h1Keep", x) <=> x \in Nat
  BY <1>1, <1>2
<1> QED BY <1>1, <1>3, <1>4 DEF T, R

\* An object is its fields, and fits when they do.
LEMMA ObjectFits ==
  ASSUME NEW k \in Nested, NEW x
  PROVE  Fits(k, x) <=> /\ x = [f \in DOMAIN Default[k] |-> x[f]]
                        /\ \A f \in DOMAIN Default[k] : FieldFits(k, f, x[f])
<1>1. ASSUME k = "telegram"
      PROVE  (\A f \in DOMAIN Default[k] : FieldFits(k, f, x[f])) <=>
               /\ x["enabled"] \in BOOLEAN /\ x["botToken"] \in STRING
               /\ x["chatId"] \in STRING /\ x["topicId"] \in STRING
  BY <1>1, FieldsAre
<1>2. ASSUME k = "retention"
      PROVE  (\A f \in DOMAIN Default[k] : FieldFits(k, f, x[f])) <=>
               /\ x["memoryKeep"] \in Nat /\ x["rawEnabled"] \in BOOLEAN /\ x["rawKeep"] \in Nat
               /\ x["m1Keep"] \in Nat /\ x["h1Keep"] \in Nat
  BY <1>2, FieldsAre
<1>3. CASE k = "telegram"
  <2>1. DOMAIN Default[k] = {"enabled", "botToken", "chatId", "topicId"}
    BY <1>3, FieldsAre
  <2>2. Fits(k, x) <=> x \in [enabled : BOOLEAN, botToken : STRING, chatId : STRING, topicId : STRING]
    BY <1>3, FitsAre
  <2> QED BY <1>1, <1>3, <2>1, <2>2
<1>4. CASE k = "retention"
  <2>1. DOMAIN Default[k] = {"memoryKeep", "rawEnabled", "rawKeep", "m1Keep", "h1Keep"}
    BY <1>4, FieldsAre
  <2>2. Fits(k, x) <=>
          x \in [memoryKeep : Nat, rawEnabled : BOOLEAN, rawKeep : Nat, m1Keep : Nat, h1Keep : Nat]
    BY <1>4, FitsAre
  <2> QED BY <1>2, <1>4, <2>1, <2>2
<1> QED BY <1>3, <1>4 DEF Nested

\* Nothing in settings is of another type.
LEMMA NoJunk ==
  ASSUME NEW v \in SettingsType, NEW k \in Keys
  PROVE  v[k] # Junk /\ (k \in Nested => \A f \in DOMAIN Default[k] : v[k][f] # Junk)
<1>1. Fits(k, v[k])
  BY SettingsFit
<1>2. CASE k \in {"tokens", "probesRemoved", "probesCreated"}
  <2>1. v[k] \in SUBSET (OldTokens \cup NewTokens \cup Probes \cup NewProbes)
    BY <1>1, <1>2, FitsAre
  <2>2. k \notin Nested
    BY <1>2 DEF Nested
  <2> QED BY <2>1, <2>2, StoreAssumption
<1>3. CASE k \notin {"tokens", "probesRemoved", "probesCreated"}
  <2>1. v[k] # Junk
    BY <1>1, <1>3, StoreAssumption
  <2>2. k \in Nested => \A f \in DOMAIN Default[k] : FieldFits(k, f, v[k][f])
    BY <1>1, ObjectFits
  <2> QED BY <2>1, <2>2, StoreAssumption
<1> QED BY <1>2, <1>3

\* Settings that are read come back as they are.
LEMMA ReadSame ==
  ASSUME NEW v \in SettingsType
  PROVE  Read(v) = v
<1>1. v = [k \in Keys |-> v[k]] /\ \A k \in Keys : Fits(k, v[k])
  BY SettingsFit
<1>2. Read(v) = normalizeSettings(v)
  BY StoreAssumption DEF Read
<1>3. ASSUME NEW k \in Keys
      PROVE  normalizeSettings(v)[k] = v[k]
  <2>1. k \in DOMAIN v /\ v[k] # Junk
    BY <1>1, NoJunk
  <2>2. CASE k \in Nested
    <3>1. v[k] = [f \in DOMAIN Default[k] |-> v[k][f]]
      BY <1>1, <2>2, ObjectFits
    <3>2. \A f \in DOMAIN Default[k] : f \in DOMAIN v[k] /\ v[k][f] # Junk
      BY <2>2, <3>1, NoJunk
    <3>3. Complete(v[k], Default[k]) = [f \in DOMAIN Default[k] |-> v[k][f]]
      BY <3>2 DEF Complete
    <3> QED BY <2>1, <2>2, <3>1, <3>3 DEF normalizeSettings
  <2>3. CASE k \notin Nested
    BY <2>1, <2>3 DEF normalizeSettings
  <2> QED BY <2>2, <2>3
<1>4. normalizeSettings(v) = [k \in Keys |-> v[k]]
  <2> DEFINE w == normalizeSettings(v)
  <2>1. w = [k \in Keys |-> w[k]]
    BY DEF normalizeSettings
  <2> HIDE DEF w
  <2>2. \A k \in Keys : w[k] = v[k]
    BY <1>3 DEF w
  <2>3. w = [k \in Keys |-> v[k]]
    BY <2>1, <2>2
  <2> QED BY <2>3 DEF w
<1> QED BY <1>1, <1>2, <1>4

\* Whatever is on the shelf, or was stored, is read as settings.
LEMMA ReadFits ==
  ASSUME NEW entry \in Shelf \cup SettingsType
  PROVE  Read(entry) \in SettingsType
<1>1. CASE entry \in {Absent, Broken}
  BY <1>1, DefaultType DEF Read
<1>2. CASE entry \in SettingsType
  BY <1>2, ReadSame
<1>3. CASE entry \in Shelf \ {Absent, Broken}
  <2> DEFINE w == normalizeSettings(entry)
  <2>1. Read(entry) = w
    BY <1>3 DEF Read
  <2>2. w = [k \in Keys |-> w[k]]
    BY DEF normalizeSettings
  <2>3. ASSUME NEW k \in Keys
        PROVE  Fits(k, w[k])
    <3>1. Fits(k, Default[k])
      BY DefaultType, SettingsFit
    <3>2. w[k] = IF k \notin DOMAIN entry \/ entry[k] = Junk THEN Default[k]
                 ELSE IF k \in Nested THEN Complete(entry[k], Default[k]) ELSE entry[k]
      BY DEF normalizeSettings
    <3>3. CASE k \notin DOMAIN entry \/ entry[k] = Junk
      BY <3>1, <3>2, <3>3
    <3>4. CASE k \in DOMAIN entry /\ entry[k] # Junk /\ k \notin Nested
      BY <1>3, <3>2, <3>4, StoreAssumption
    <3>5. CASE k \in DOMAIN entry /\ entry[k] # Junk /\ k \in Nested
      <4> DEFINE x == Complete(entry[k], Default[k])
      <4>1. \A f \in DOMAIN Default[k] \cap DOMAIN entry[k] :
              entry[k][f] # Junk => FieldFits(k, f, entry[k][f])
        BY <1>3, <3>5, StoreAssumption
      <4>2. \A f \in DOMAIN Default[k] : FieldFits(k, f, Default[k][f])
        BY <3>1, <3>5, ObjectFits
      <4>3. x = [f \in DOMAIN Default[k] |->
                   IF f \in DOMAIN entry[k] /\ entry[k][f] # Junk THEN entry[k][f] ELSE Default[k][f]]
        BY DEF Complete
      <4>4. \A f \in DOMAIN Default[k] : FieldFits(k, f, x[f])
        BY <4>1, <4>2, <4>3
      <4>5. x = [f \in DOMAIN Default[k] |-> x[f]]
        BY <4>3
      <4> HIDE DEF x
      <4>6. Fits(k, x)
        BY <3>5, <4>4, <4>5, ObjectFits
      <4> QED BY <3>2, <3>5, <4>6 DEF x
    <3> QED BY <3>3, <3>4, <3>5
  <2> HIDE DEF w
  <2> QED BY <2>1, <2>2, <2>3, SettingsFit
<1> QED BY <1>1, <1>2, <1>3

-----------------------------------------------------------------------------
(* The steps of the store.                                                   *)

(* As long as nothing failed and no second tab was opened, the entry is what the
   console shows, once it is stored. *)
StoreInv ==
  /\ StoreTypeOK
  /\ stored \in Shelf \cup SettingsType
  /\ \A t \in Tabs : pending[t] => IsOpen(t)
  /\ faults = 0 => /\ settings[Other] = Closed /\ ~pending[Other]
                   /\ ~pending[Here] => stored = Mine

\* A tab's settings are read or stay.
LEMMA OpenIsTyped ==
  ASSUME StoreInv, NEW t \in Tabs, IsOpen(t)
  PROVE  settings[t] \in SettingsType
BY DEF StoreInv, StoreTypeOK, IsOpen

\* Settings are not the mark of a closed tab.
LEMMA NotClosed ==
  ASSUME NEW v \in SettingsType
  PROVE  v # Closed
BY StoreAssumption

\* The patches of the hooks set one key.
LEMMA PatchOfOne ==
  ASSUME NEW x
  PROVE  /\ "ruleEnabled" \in Keys /\ DOMAIN [ruleEnabled |-> x] = {"ruleEnabled"}
         /\ [ruleEnabled |-> x]["ruleEnabled"] = x
         /\ "tokens" \in Keys /\ DOMAIN [tokens |-> x] = {"tokens"} /\ [tokens |-> x]["tokens"] = x
         /\ "nodes" \in Keys /\ DOMAIN [nodes |-> x] = {"nodes"} /\ [nodes |-> x]["nodes"] = x
         /\ "probeEnabled" \in Keys /\ DOMAIN [probeEnabled |-> x] = {"probeEnabled"}
         /\ [probeEnabled |-> x]["probeEnabled"] = x
         /\ "probesRemoved" \in Keys /\ DOMAIN [probesRemoved |-> x] = {"probesRemoved"}
         /\ [probesRemoved |-> x]["probesRemoved"] = x
         /\ "probesCreated" \in Keys /\ DOMAIN [probesCreated |-> x] = {"probesCreated"}
         /\ [probesCreated |-> x]["probesCreated"] = x
BY KeysAre

\* The store starts from what is on the shelf.
LEMMA InitStoreInv ==
  ASSUME InitStore
  PROVE  StoreInv /\ pending[Here]
<1>1. Read(stored) \in SettingsType /\ Read(stored) # Closed
  BY ReadFits, NotClosed DEF InitStore
<1>2. settings \in [Tabs -> SettingsType \cup {Closed}] /\ settings[Here] # Closed
  BY <1>1 DEF InitStore, Tabs
<1>3. pending \in [Tabs -> BOOLEAN] /\ pending[Here] /\ ~pending[Other]
  BY DEF InitStore, Tabs, Here, Other
<1>4. settings[Other] = Closed
  BY DEF InitStore, Tabs, Here, Other
<1>5. saves \in 0..MaxSaves /\ faults \in 0..MaxFaults
  BY StoreAssumption DEF InitStore
<1>6. stored \in Shelf
  BY DEF InitStore
<1>7. \A t \in Tabs : pending[t] => settings[t] # Closed
  BY <1>2, <1>3 DEF Tabs
<1> QED BY <1>2, <1>3, <1>4, <1>5, <1>6, <1>7 DEF StoreInv, StoreTypeOK, IsOpen

\* A tab that saves changes the keys of the patch, and nothing of the other tab.
LEMMA SaveSteps ==
  ASSUME StoreInv, NEW t \in Tabs, IsOpen(t), NEW patch,
         \A k \in DOMAIN patch : k \in Keys /\ Fits(k, patch[k]), SaveIn(t, patch)
  PROVE  /\ StoreInv'
         /\ settings'[t] = Spread(settings[t], patch) /\ pending'[t] /\ faults' = faults
         /\ saves' = saves + 1
         /\ \A u \in Tabs \ {t} : settings'[u] = settings[u]
<1>1. settings[t] \in SettingsType
  BY OpenIsTyped
<1>2. Spread(settings[t], patch) \in SettingsType /\ Spread(settings[t], patch) # Closed
  BY <1>1, SpreadFits, NotClosed
<1>3. /\ settings' = [settings EXCEPT ![t] = Spread(settings[t], patch)]
      /\ pending' = [pending EXCEPT ![t] = TRUE]
      /\ saves < MaxSaves /\ saves' = saves + 1 /\ stored' = stored /\ faults' = faults
  BY DEF SaveIn
<1>4. /\ settings \in [Tabs -> SettingsType \cup {Closed}] /\ settings[Here] # Closed
      /\ pending \in [Tabs -> BOOLEAN] /\ saves \in 0..MaxSaves /\ faults \in 0..MaxFaults
  BY DEF StoreInv, StoreTypeOK, IsOpen
<1>5. /\ settings' \in [Tabs -> SettingsType \cup {Closed}]
      /\ settings'[t] = Spread(settings[t], patch)
      /\ \A u \in Tabs \ {t} : settings'[u] = settings[u]
  BY <1>2, <1>3, <1>4
<1>6. /\ pending' \in [Tabs -> BOOLEAN] /\ pending'[t]
      /\ \A u \in Tabs \ {t} : pending'[u] = pending[u]
  BY <1>3, <1>4
<1>7. saves' \in 0..MaxSaves
  BY <1>3, <1>4, StoreAssumption
<1>8. settings'[Here] # Closed
  BY <1>2, <1>4, <1>5 DEF Tabs
<1>9. StoreTypeOK'
  BY <1>3, <1>4, <1>5, <1>6, <1>7, <1>8 DEF StoreTypeOK, IsOpen
<1>10. faults = 0 => t = Here
  BY DEF StoreInv, IsOpen, Tabs
<1>11. faults' = 0 => /\ settings'[Other] = Closed /\ ~pending'[Other] /\ pending'[Here]
  BY <1>3, <1>5, <1>6, <1>10 DEF StoreInv, Tabs, Here, Other
<1>12. \A u \in Tabs : pending'[u] => settings'[u] # Closed
  BY <1>2, <1>5, <1>6 DEF StoreInv, IsOpen
<1> QED BY <1>2, <1>3, <1>5, <1>6, <1>9, <1>11, <1>12 DEF StoreInv, IsOpen

\* Nothing of the store changes.
LEMMA StoreStays ==
  ASSUME StoreInv, UNCHANGED store
  PROVE  StoreInv'
BY DEF StoreInv, StoreTypeOK, IsOpen, Mine, store

\* A reload reads the entry, which shows what was shown unless a write was lost.
LEMMA ReloadSteps ==
  ASSUME StoreInv, Reload
  PROVE  /\ StoreInv' /\ settings'[Here] = Read(stored) /\ saves' = saves
         /\ pending'[Here]
         /\ faults' = 0 => faults = 0 /\ settings'[Here] = Mine
<1>1. Read(stored) \in SettingsType /\ Read(stored) # Closed
  BY ReadFits, NotClosed DEF StoreInv
<1>2. /\ settings \in [Tabs -> SettingsType \cup {Closed}] /\ settings[Here] # Closed
      /\ pending \in [Tabs -> BOOLEAN] /\ saves \in 0..MaxSaves /\ faults \in 0..MaxFaults
  BY DEF StoreInv, StoreTypeOK, IsOpen
<1>3. /\ settings' = [settings EXCEPT ![Here] = Read(stored)]
      /\ pending' = [pending EXCEPT ![Here] = TRUE]
      /\ stored' = stored /\ saves' = saves
      /\ pending[Here] => faults < MaxFaults
      /\ faults' = IF pending[Here] THEN faults + 1 ELSE faults
  BY DEF Reload
<1>4. /\ settings' \in [Tabs -> SettingsType \cup {Closed}]
      /\ settings'[Here] = Read(stored) /\ settings'[Other] = settings[Other]
  BY <1>1, <1>2, <1>3 DEF Tabs, Here, Other
<1>5. /\ pending' \in [Tabs -> BOOLEAN] /\ pending'[Here] /\ pending'[Other] = pending[Other]
  BY <1>2, <1>3 DEF Tabs, Here, Other
<1>6. faults' \in 0..MaxFaults /\ (faults' = 0 => faults = 0 /\ ~pending[Here])
  BY <1>2, <1>3, StoreAssumption
<1>7. StoreTypeOK'
  BY <1>1, <1>2, <1>3, <1>4, <1>5, <1>6 DEF StoreTypeOK, IsOpen
<1>8. faults' = 0 => settings'[Here] = Mine
  <2> SUFFICES ASSUME faults' = 0
               PROVE  settings'[Here] = Mine
    OBVIOUS
  <2>1. stored = Mine /\ Mine \in SettingsType
    BY <1>2, <1>6 DEF StoreInv, Mine, Tabs
  <2> QED BY <1>4, <2>1, ReadSame
<1>9. faults' = 0 => settings'[Other] = Closed /\ ~pending'[Other]
  BY <1>4, <1>5, <1>6 DEF StoreInv
<1>10. \A t \in Tabs : pending'[t] => settings'[t] # Closed
  BY <1>1, <1>4, <1>5 DEF StoreInv, IsOpen, Tabs
<1> QED BY <1>3, <1>4, <1>5, <1>6, <1>7, <1>8, <1>9, <1>10 DEF StoreInv, IsOpen

\* The effects and the second tab leave this tab's settings alone, and make an
\* entry of what is shown.
LEMMA StoreSteps ==
  ASSUME StoreInv, StoreStep
  PROVE  StoreInv' /\ settings'[Here] = settings[Here] /\ (faults' = 0 => faults = 0)
<1>1. /\ settings \in [Tabs -> SettingsType \cup {Closed}] /\ settings[Here] # Closed
      /\ pending \in [Tabs -> BOOLEAN] /\ saves \in 0..MaxSaves /\ faults \in 0..MaxFaults
      /\ \A t \in Tabs : pending[t] => settings[t] # Closed
  BY DEF StoreInv, StoreTypeOK, IsOpen
<1>2. MaxSaves \in Nat /\ MaxFaults \in Nat
  BY StoreAssumption
<1>3. ASSUME NEW t \in Tabs, Persist(t)
      PROVE  StoreInv' /\ settings'[Here] = settings[Here] /\ (faults' = 0 => faults = 0)
  <2>1. /\ stored' = settings[t] /\ pending[t] /\ pending' = [pending EXCEPT ![t] = FALSE]
        /\ settings' = settings /\ saves' = saves /\ faults' = faults
    BY <1>3 DEF Persist
  <2>2. /\ pending' \in [Tabs -> BOOLEAN] /\ ~pending'[t]
        /\ \A u \in Tabs \ {t} : pending'[u] = pending[u]
    BY <1>1, <2>1
  <2>3. stored' \in SettingsType
    BY <1>1, <2>1
  <2>4. faults = 0 => t = Here
    BY <2>1 DEF StoreInv, Tabs
  <2>5. faults = 0 => ~pending'[Other]
    BY <2>2, <2>4 DEF StoreInv, Tabs, Here, Other
  <2>6. \A u \in Tabs : pending'[u] => pending[u]
    BY <2>2
  <2> QED BY <1>1, <2>1, <2>2, <2>3, <2>4, <2>5, <2>6 DEF StoreInv, StoreTypeOK, IsOpen, Mine
<1>4. ASSUME NEW t \in Tabs, PersistFails(t)
      PROVE  StoreInv' /\ settings'[Here] = settings[Here] /\ (faults' = 0 => faults = 0)
  <2>1. /\ pending' = [pending EXCEPT ![t] = FALSE] /\ faults < MaxFaults /\ faults' = faults + 1
        /\ settings' = settings /\ saves' = saves /\ stored' = stored
    BY <1>4 DEF PersistFails
  <2>2. pending' \in [Tabs -> BOOLEAN] /\ \A u \in Tabs : pending'[u] => pending[u]
    BY <1>1, <2>1
  <2>3. faults' \in 0..MaxFaults /\ faults' # 0
    BY <1>1, <1>2, <2>1
  <2> QED BY <1>1, <2>1, <2>2, <2>3 DEF StoreInv, StoreTypeOK, IsOpen
<1>5. CASE OpenOther
  <2>1. /\ settings' = [settings EXCEPT ![Other] = Read(stored)] /\ saves' = saves /\ stored' = stored
        /\ pending' = [pending EXCEPT ![Other] = TRUE] /\ faults < MaxFaults /\ faults' = faults + 1
    BY <1>5 DEF OpenOther
  <2>2. Read(stored) \in SettingsType /\ Read(stored) # Closed
    BY ReadFits, NotClosed DEF StoreInv
  <2>3. /\ settings' \in [Tabs -> SettingsType \cup {Closed}]
        /\ settings'[Other] # Closed /\ settings'[Here] = settings[Here]
    BY <1>1, <2>1, <2>2 DEF Tabs, Here, Other
  <2>4. pending' \in [Tabs -> BOOLEAN]
    BY <1>1, <2>1
  <2>5. faults' \in 0..MaxFaults /\ faults' # 0
    BY <1>1, <1>2, <2>1
  <2>6. \A t \in Tabs : settings'[t] # Closed
    BY <1>1, <2>3 DEF Tabs
  <2> QED BY <1>1, <2>1, <2>3, <2>4, <2>5, <2>6 DEF StoreInv, StoreTypeOK, IsOpen
<1>6. CASE CloseOther
  <2>1. /\ settings' = [settings EXCEPT ![Other] = Closed] /\ saves' = saves /\ stored' = stored
        /\ pending' = [pending EXCEPT ![Other] = FALSE] /\ faults' = faults
    BY <1>6 DEF CloseOther
  <2>2. /\ settings' \in [Tabs -> SettingsType \cup {Closed}]
        /\ settings'[Other] = Closed /\ settings'[Here] = settings[Here]
    BY <1>1, <2>1 DEF Tabs, Here, Other
  <2>3. pending' \in [Tabs -> BOOLEAN] /\ ~pending'[Other] /\ pending'[Here] = pending[Here]
    BY <1>1, <2>1 DEF Tabs, Here, Other
  <2>4. \A t \in Tabs : pending'[t] => settings'[t] # Closed
    BY <1>1, <2>2, <2>3 DEF Tabs
  <2> QED BY <1>1, <2>1, <2>2, <2>3, <2>4 DEF StoreInv, StoreTypeOK, IsOpen, Mine
<1>7. CASE OtherSaves
  <2>1. PICK r \in Rules :
          IsOpen(Other) /\ SaveIn(Other, [ruleEnabled |-> [settings[Other].ruleEnabled EXCEPT ![r] = FALSE]])
    BY <1>7 DEF OtherSaves
  <2> DEFINE patch == [ruleEnabled |-> [settings[Other].ruleEnabled EXCEPT ![r] = FALSE]]
  <2>2. settings[Other] \in SettingsType
    BY <2>1, OpenIsTyped DEF Tabs
  <2>3. Fits("ruleEnabled", [settings[Other].ruleEnabled EXCEPT ![r] = FALSE])
    <3>1. settings[Other].ruleEnabled \in [Rules -> {Unset} \cup BOOLEAN]
      BY <2>2 DEF SettingsType
    <3> QED BY <3>1, FitsAre
  <2>4. \A k \in DOMAIN patch : k \in Keys /\ Fits(k, patch[k])
    BY <2>3, PatchOfOne
  <2> HIDE DEF patch
  <2>5. StoreInv' /\ faults' = faults /\ \A u \in Tabs \ {Other} : settings'[u] = settings[u]
    BY <2>1, <2>4, SaveSteps DEF Tabs, patch
  <2> QED BY <2>5 DEF Tabs, Here, Other
<1> QED BY <1>3, <1>4, <1>5, <1>6, <1>7 DEF StoreStep

\* What localStorage holds comes back as what the console shows.
LEMMA StoreIsKept ==
  ASSUME StoreInv
  PROVE  ReloadChangesNothing
<1> SUFFICES ASSUME faults = 0, ~pending[Here]
             PROVE  Read(stored) = Mine
  BY DEF ReloadChangesNothing
<1>1. Mine \in SettingsType
  BY OpenIsTyped DEF StoreInv, StoreTypeOK, Mine, Tabs
<1> QED BY <1>1, ReadSame DEF StoreInv
=============================================================================

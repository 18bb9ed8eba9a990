----------------------------- MODULE AlertsPage -----------------------------
(***************************************************************************)
(* The alerts of the admin console: two tabs, the filters of the events in *)
(* the address and a switch per rule (src/web/src/pages/alerts.tsx).  The  *)
(* page keeps no state of its own; the list itself is not modelled.        *)
(***************************************************************************)
EXTENDS SettingsStore, Router

CONSTANT
  RuleIsOn   \* RuleIsOn[r]: the data source's rule is enabled

AlertsPath == "/alerts"
OnAlerts == loc.path = AlertsPath

AlertTab(l) == pickParam(l, "tab", {"rules"}, "events")
EventState(l) == pickParam(l, "state", {"firing", "resolved"}, "all")

SetAlertParam(k, v) ==
  /\ OnAlerts /\ Param(loc, k) # v
  /\ PushParams(k :> v)
  /\ UNCHANGED store

SwitchRule(r) ==
  /\ OnAlerts /\ AlertTab(loc) = "rules"
  /\ setRuleEnabled(r, ~ruleOn(r, RuleIsOn[r]))
  /\ UNCHANGED url

(* The chip of the state only takes it away; with no event left the page offers
   all levels, which is the same step as the segment. *)
AlertsStep ==
  \/ \E v \in {"", "rules"} : SetAlertParam("tab", v)
  \/ \E v \in {"", "crit", "warn"} : SetAlertParam("level", v)
  \/ EventState(loc) # "all" /\ SetAlertParam("state", "")
  \/ \E r \in Rules : SwitchRule(r)
=============================================================================

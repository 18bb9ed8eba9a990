----------------------------- MODULE ProbesPage -----------------------------
(***************************************************************************)
(* The probe tasks of the admin console: the rows of the data source that  *)
(* were not removed under those created here, a switch and a removal per   *)
(* row, and the sheet of ?new=1 whose form outlives it when it is left by  *)
(* Back (src/web/src/pages/probes.tsx).                                    *)
(***************************************************************************)
EXTENDS SettingsStore, Router

CONSTANTS
  FoundProbes   \* FoundProbes[q]: the rows whose name or target contains q

(* A created task's id is not one of the data source's. *)
ASSUME NewProbesAreNew == NewProbes \cap Probes = {}

VARIABLES
  form,        \* the form of a new task
  deleting,    \* the row the removal dialog names
  word,        \* the search word the rows have caught up with
  deleted      \* history: tasks removed in this tab

probesPage == <<form, deleting, word, deleted>>

Tasks == "/probes"
OnTasks == loc.path = Tasks
Creating == OnTasks /\ Param(loc, "new") = "1"

(* Of the form only matters whether validate() lets it pass.  Which target is
   right depends on the kind, and choosing another kind empties the target. *)
EMPTY_FORM == "empty"
Forms == {EMPTY_FORM, "wrong", "valid"}

alive == Probes \ Mine.probesRemoved
rows == Mine.probesCreated \cup alive
list == IF word = "" THEN rows ELSE rows \cap FoundProbes[word]

OnList == OnTasks /\ ~Creating /\ deleting = Nobody

(* The form and the row asked about go with the page, the form not with the
   sheet: only its own buttons empty it. *)
ProbesFollow ==
  /\ IF loc'.path = Tasks /\ OnTasks THEN UNCHANGED <<form, deleting, word>>
     ELSE /\ form' = EMPTY_FORM /\ deleting' = Nobody
          /\ word' = IF loc'.path = Tasks THEN Param(loc', "q") ELSE ""
  /\ UNCHANGED deleted

SearchProbes(q) ==
  /\ OnList /\ q # Param(loc, "q")
  /\ ReplaceParams([q |-> q])
  /\ UNCHANGED <<store, probesPage>>

ListCatchesUp ==
  /\ OnTasks /\ word # Param(loc, "q")
  /\ word' = Param(loc, "q")
  /\ UNCHANGED <<url, store, form, deleting, deleted>>

(* setParams({ new: "1" }): the search word goes. *)
NewProbe ==
  /\ OnList
  /\ Push(At(Tasks, [new |-> "1"]))
  /\ UNCHANGED <<store, probesPage>>

Fill(v) ==
  /\ Creating /\ deleting = Nobody /\ form # v
  /\ form' = v
  /\ UNCHANGED <<url, store, deleting, word, deleted>>

(* close(): the form is emptied and ?new=1 taken out of the address. *)
CloseForm ==
  /\ form' = EMPTY_FORM
  /\ ReplaceParams([new |-> ""])

CancelProbe ==
  /\ Creating /\ deleting = Nobody
  /\ CloseForm
  /\ UNCHANGED <<store, deleting, word, deleted>>

CreateProbe ==
  /\ Creating /\ deleting = Nobody /\ form = "valid"
  /\ \E p \in NewProbes \ (Mine.probesCreated \cup deleted) : createProbe(p)
  /\ CloseForm
  /\ UNCHANGED <<deleting, word, deleted>>

SwitchProbe(p) ==
  /\ OnList /\ p \in list
  /\ setProbeEnabled(p, ~probeOn(p, TRUE))
  /\ UNCHANGED <<url, probesPage>>

AskDelete(p) ==
  /\ OnList /\ p \in list
  /\ deleting' = p
  /\ UNCHANGED <<url, store, form, word, deleted>>

KeepProbe ==
  /\ deleting # Nobody
  /\ deleting' = Nobody
  /\ UNCHANGED <<url, store, form, word, deleted>>

(* A row without readings is one that was created here. *)
DeleteProbe ==
  /\ deleting # Nobody
  /\ IF deleting \in Probes THEN removeProbe(deleting) ELSE removeCreated(deleting)
  /\ deleting' = Nobody
  /\ deleted' = deleted \cup {deleting}
  /\ UNCHANGED <<url, form, word>>

InitProbes ==
  /\ form = EMPTY_FORM /\ deleting = Nobody /\ deleted = {}
  /\ word = IF OnTasks THEN Param(loc, "q") ELSE ""

ProbesStep ==
  \/ \E q \in {""} \cup DOMAIN FoundProbes : SearchProbes(q)
  \/ NewProbe \/ CancelProbe \/ CreateProbe \/ KeepProbe \/ DeleteProbe
  \/ \E v \in Forms \ {EMPTY_FORM} : Fill(v)
  \/ \E p \in Probes \cup NewProbes : SwitchProbe(p) \/ AskDelete(p)

(* ------------------------------------------------------------ properties *)

ProbesTypeOK ==
  /\ form \in Forms
  /\ deleting \in Probes \cup NewProbes \cup {Nobody}
  /\ deleted \subseteq Probes \cup NewProbes

(* A removed task stays removed, on this page, in the numbers of the overview's
   card and in what a reload will read, as long as no write fails: whatever is
   created, switched or removed afterwards (probes.tsx:514-517, 643-659,
   settings-provider.tsx:148-161). *)
DeletedStaysDeleted ==
  faults = 0 =>
    /\ deleted \cap rows = {}
    /\ ~pending[Here] =>
         LET kept == Read(stored)
         IN  \A p \in deleted :
               p \in kept.probesRemoved \/ (p \in NewProbes /\ p \notin kept.probesCreated)
=============================================================================

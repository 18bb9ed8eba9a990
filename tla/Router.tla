-------------------------------- MODULE Router --------------------------------
(***************************************************************************)
(* The location of a tab: its path and its search parameters, and the      *)
(* entries Back returns to.  The pages keep what must survive a reload or  *)
(* be shared in the parameters (src/web/src/lib/url.ts and, in the admin   *)
(* console, the useSearchParams of react-router, which is external).       *)
(***************************************************************************)
EXTENDS Naturals, Sequences, SequencesExt, TLC

CONSTANTS
  MaxBack,   \* bound: entries Back can return to
  MaxMoves   \* bound: navigations

VARIABLES
  loc,       \* [path, params]; a parameter that is absent is not in the domain
  behind,    \* the entries before it, the latest last
  moves

url == <<loc, behind, moves>>

NoParams == <<>>
At(path, params) == [path |-> path, params |-> params]

Param(l, k) == IF k \in DOMAIN l.params THEN l.params[k] ELSE ""

(* A value that is not on the list, typed into the address, counts as absent. *)
pickParam(l, k, allowed, fallback) ==
  IF Param(l, k) \in allowed THEN Param(l, k) ELSE fallback

(* A patch sets its parameters and deletes those it maps to "". *)
Patched(params, patch) ==
  [k \in {j \in DOMAIN params \cup DOMAIN patch : j \in DOMAIN patch => patch[j] # ""} |->
     IF k \in DOMAIN patch THEN patch[k] ELSE params[k]]

Push(to) ==
  /\ moves < MaxMoves
  /\ moves' = moves + 1
  /\ loc' = to
  /\ behind' = IF Len(behind) < MaxBack THEN Append(behind, loc)
               ELSE Append(Tail(behind), loc)

Replace(to) ==
  /\ moves < MaxMoves
  /\ moves' = moves + 1
  /\ loc' = to
  /\ behind' = behind

(* A link to the very address one is at adds no entry. *)
FollowTo(to) == IF to = loc THEN Replace(to) ELSE Push(to)

(* A route that has no page of its own sends on at once. *)
SendOn(to) == loc' = to /\ UNCHANGED <<behind, moves>>

GoBack ==
  /\ behind # <<>>
  /\ loc' = Last(behind)
  /\ behind' = Front(behind)
  /\ UNCHANGED moves

PushParams(patch) == Push(At(loc.path, Patched(loc.params, patch)))
ReplaceParams(patch) == Replace(At(loc.path, Patched(loc.params, patch)))
=============================================================================

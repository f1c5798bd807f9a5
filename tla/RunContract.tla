----------------------------- MODULE RunContract -----------------------------
(***************************************************************************)
(* What a run of several dependent commands promises, whether they are the *)
(* steps of a workflow or the nodes of a graph: one item at a time, each   *)
(* after its parents and at most once, nothing after a failure, and        *)
(* success only when there are items and every one has finished.  A run    *)
(* that succeeded may be repeated, from nothing.                           *)
(***************************************************************************)

VARIABLES
  parents,     \* the items, and for each the items whose output it needs
  active,      \* the item being executed: empty or a singleton
  finished,    \* items that succeeded
  verdict      \* "running", "completed", "failed" or "aborted"

vars == <<parents, active, finished, verdict>>

Items == DOMAIN parents

Init ==
  /\ \A x \in Items : parents[x] \subseteq Items
  /\ active = {}
  /\ finished = {}
  /\ verdict = "running"

Begin(x) ==
  /\ verdict = "running" /\ active = {}
  /\ x \notin finished /\ parents[x] \subseteq finished
  /\ active' = {x}
  /\ UNCHANGED <<parents, finished, verdict>>

Succeed ==
  /\ verdict = "running" /\ active # {}
  /\ finished' = finished \cup active
  /\ active' = {}
  /\ UNCHANGED <<parents, verdict>>

\* The item failed, or it could not be executed at all.
Stop ==
  /\ verdict = "running" /\ active # {}
  /\ verdict' \in {"failed", "aborted"}
  /\ UNCHANGED <<parents, active, finished>>

Complete ==
  /\ verdict = "running" /\ active = {}
  /\ finished = Items /\ Items # {}
  /\ verdict' = "completed"
  /\ UNCHANGED <<parents, active, finished>>

Repeat ==
  /\ verdict = "completed"
  /\ verdict' = "running"
  /\ finished' = {}
  /\ UNCHANGED <<parents, active>>

Next == (\E x \in Items : Begin(x)) \/ Succeed \/ Stop \/ Complete \/ Repeat

Spec == Init /\ [][Next]_vars
==============================================================================

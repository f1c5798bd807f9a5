--------------------------- MODULE ProcessContract ---------------------------
(***************************************************************************)
(* What run_process promises its callers, run_workflow and                 *)
(* execute_snapshot_outputs: which events one run emits, in which order,   *)
(* and how the result relates to them.  How the command is fed, drained,   *)
(* signalled and reaped is hidden; ProcessRuntime implements this module.  *)
(***************************************************************************)
EXTENDS ProcessResult

VARIABLES
  phase,     \* "idle", "running", "returned" or "aborted"
  feeding,   \* some of the caller's stdin_data is still to be written
  events,    \* events of the run so far
  result     \* empty, or the singleton of the returned result

vars == <<phase, feeding, events, result>>

Init ==
  /\ phase = "idle"
  /\ feeding \in BOOLEAN
  /\ events = <<>>
  /\ result = {}

Launch ==
  /\ phase = "idle"
  /\ phase' = "running"
  /\ events' = <<"started">>
  /\ UNCHANGED <<feeding, result>>

\* All of the input is written before anything else happens.
Feed ==
  /\ phase = "running" /\ feeding
  /\ feeding' = FALSE
  /\ UNCHANGED <<phase, events, result>>

AnnounceStop ==
  /\ phase = "running" /\ ~feeding
  /\ events = <<"started">>
  /\ events' = <<"started", "stop.requested">>

AnnounceKill ==
  /\ phase = "running" /\ ~feeding
  /\ events = <<"started", "stop.requested">>
  /\ events' = <<"started", "stop.requested", "kill.sent">>

Stop == AnnounceStop /\ UNCHANGED <<phase, feeding, result>>

Kill == AnnounceKill /\ UNCHANGED <<phase, feeding, result>>

\* run_process throws, or dies of SIGPIPE, wherever it is, and nothing follows.
\* A signal is announced before it is sent: when kill fails, the event is out.
Abort ==
  /\ phase \in {"idle", "running"}
  /\ phase' = "aborted"
  /\ UNCHANGED events \/ AnnounceStop \/ AnnounceKill
  /\ UNCHANGED <<feeding, result>>

Return ==
  /\ phase = "running" /\ ~feeding
  /\ phase' = "returned"
  /\ \E status \in Statuses : result' = {CollectResult(status, Len(events) > 1)}
  /\ \E captured \in SUBSET Streams : events' = events \o OutputEvents(captured)
  /\ UNCHANGED feeding

Next == Launch \/ Feed \/ Abort \/ Stop \/ Kill \/ Return

Spec == Init /\ [][Next]_vars
==============================================================================

------------------------------ MODULE RunReport ------------------------------
(***************************************************************************)
(* The reports (ProcessEvent) that a run of several commands gives to its  *)
(* event sink, and what makes a sequence of them readable.  Shared by      *)
(* run_workflow (WorkflowRun) and execute_snapshot_outputs (GraphRun).     *)
(*                                                                         *)
(* A report belongs to the run, to an item of it (a workflow step, a graph *)
(* node) or to the process of that item.  Of its fields it keeps those the *)
(* properties tell apart: done is completed_step_count or                  *)
(* completed_node_count.                                                   *)
(***************************************************************************)
EXTENDS ProcessResult, Integers

RunSubject == -1        \* subject of a run's own reports: "workflow", "graph"

Report(scope, name, subject, done, cause) ==
  [scope |-> scope, name |-> name, subject |-> subject, done |-> done,
   cause |-> cause]

RunReport(name, done, cause) == Report("run", name, RunSubject, done, cause)

ItemReport(name, item, done, cause) == Report("item", name, item, done, cause)

\* The events that run_process itself emits; their counters are always 0.
ProcessReports(item, events) ==
  [i \in DOMAIN events |->
    Report("process", events[i], item, 0,
           IF events[i] \in {"stop.requested", "kill.sent"} THEN "timeout"
                                                            ELSE "none")]

\* build_process_event: the terminal report of a process.
ProcessEnd(item, res) ==
  Report("process",
         IF res.signaled THEN "killed"
         ELSE IF res.exit_code = 0 THEN "completed" ELSE "failed",
         item, 0, res.terminal_cause)

Opens(report)  == report.name = "started"
Closes(report) == report.name \in {"completed", "failed", "killed"}

SameSpan(r1, r2) == r1.scope = r2.scope /\ r1.subject = r2.subject

\* The position at which the span opened at position i is closed.
ClosedAt(log, i, j) ==
  j \in i+1 .. Len(log) /\ Closes(log[j]) /\ SameSpan(log[i], log[j])

\* Spans close once, after they open, and contain the spans opened in them.
WellNested(log) ==
  /\ \A j \in 1..Len(log) : Closes(log[j]) =>
       \E i \in 1..j-1 :
         /\ Opens(log[i]) /\ SameSpan(log[i], log[j])
         /\ \A k \in i+1..j-1 :
              /\ SameSpan(log[k], log[j]) => ~Opens(log[k]) /\ ~Closes(log[k])
              /\ Opens(log[k]) => \E l \in k+1..j-1 : ClosedAt(log, k, l)
  /\ \A i \in 1..Len(log) : log[i].scope # "run" =>
       \E j \in 1..i-1 : log[j] = RunReport("started", 0, "none")

\* Nothing is left open.
AllClosed(log) ==
  \A i \in 1..Len(log) : Opens(log[i]) =>
    \E j \in i+1..Len(log) : ClosedAt(log, i, j)

\* Items that the first n reports say are completed.
ReportedDone(log, n) ==
  {log[i].subject : i \in {k \in 1..n : log[k].scope = "item"
                                          /\ log[k].name = "completed"}}

\* The output a process wrote to stdout was captured, says the log.
ReportedOutput(log, item) ==
  \E i \in 1..Len(log) : log[i].scope = "process" /\ log[i].subject = item
                           /\ log[i].name = "output.stdout"
==============================================================================

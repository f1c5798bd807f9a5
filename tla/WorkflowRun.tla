----------------------------- MODULE WorkflowRun -----------------------------
(***************************************************************************)
(* eg_demo_pipeline --workflow: load_workflow reads the commands of a      *)
(* file, and run_workflow executes them one after the other.  The stdout   *)
(* of each is the stdin of the next, and the first failure ends the run.   *)
(* The process of the current step is any process that ProcessContract     *)
(* allows, which is what run_process (ProcessRuntime) is shown to          *)
(* implement.                                                              *)
(***************************************************************************)
EXTENDS RunReport, FiniteSets

CONSTANT MaxLines       \* bound: lines of a workflow file

ASSUME MaxLinesAssumption == MaxLines \in Nat \ {0}

VARIABLES
  text,                  \* kinds of the lines of the file
  cursor,                \* lines read
  pc,                    \* control location of load_workflow and run_workflow
  step_count,            \* workflow.size()
  step,                  \* 1 + step_index
  completed_step_count,
  current_output,        \* step whose stdout is held; 0 for the empty string
  log,                   \* every report given to event_sink
  phase, feeding, events, result  \* the process of the current step

file    == <<text, cursor, step_count>>
process == <<phase, feeding, events, result>>
vars    == <<file, pc, step, completed_step_count, current_output, log, process>>

Process == INSTANCE ProcessContract

NoOutput == 0

\* A line is empty, blank or a comment; or a command with its attributes; or it
\* has an attribute that is no number, or attributes and no command.
LineKinds == {"blank", "command", "faulty"}

Init ==
  /\ text \in UNION {[1..n -> LineKinds] : n \in 0..MaxLines}
  /\ cursor = 0
  /\ pc = "load"
  /\ step_count = 0
  /\ step = 1
  /\ completed_step_count = 0
  /\ current_output = NoOutput
  /\ log = <<>>
  /\ Process!Init /\ ~feeding

(***************************************************************************)
(* load_workflow.                                                          *)
(***************************************************************************)

unrun == <<text, step, completed_step_count, current_output, log, process>>

\* Broken variant: a command that cannot be parsed is passed over.
SkippedFaulty == {"blank", "faulty"}

Skipped == {"blank"}

ReadLine ==
  /\ pc = "load" /\ cursor < Len(text)
  /\ text[cursor + 1] \in Skipped \cup {"command"}
  /\ cursor' = cursor + 1
  /\ step_count' = IF text[cursor + 1] \in Skipped THEN step_count
                                                   ELSE step_count + 1
  /\ UNCHANGED <<unrun, pc>>

\* The file cannot be opened, a line cannot be parsed, or no line is a command.
Reject ==
  /\ pc = "load"
  /\ \/ cursor = 0
     \/ cursor < Len(text) /\ text[cursor + 1] \notin Skipped \cup {"command"}
     \/ cursor = Len(text) /\ step_count = 0
  /\ pc' = "rejected"
  /\ UNCHANGED <<unrun, cursor, step_count>>

Loaded ==
  /\ pc = "load" /\ cursor = Len(text) /\ step_count > 0
  /\ pc' = "start"
  /\ UNCHANGED <<unrun, cursor, step_count>>

(***************************************************************************)
(* run_workflow.                                                           *)
(***************************************************************************)

Begin ==
  /\ pc = "start"
  /\ log' = <<RunReport("started", 0, "none")>>
  /\ pc' = "step"
  /\ UNCHANGED <<file, step, completed_step_count, current_output, process>>

\* The head of the loop; run_process is entered with a fresh process.
StartStep ==
  /\ pc = "step" /\ step <= step_count
  /\ log' = Append(log, ItemReport("started", step, completed_step_count,
                                   "none"))
  /\ phase' = "idle" /\ events' = <<>> /\ result' = {}
  /\ feeding' = (current_output # NoOutput)
  /\ pc' = "process"
  /\ UNCHANGED <<file, step, completed_step_count, current_output>>

\* What run_process emits in one step goes to the same sink.
NewEvents == SubSeq(events', Len(events) + 1, Len(events'))

RunProcess ==
  /\ pc = "process"
  /\ \/ Process!Launch \/ Process!Feed
     \/ Process!Stop \/ Process!Kill \/ Process!Return
  /\ log' = log \o ProcessReports(step, NewEvents)
  /\ UNCHANGED <<file, pc, step, completed_step_count, current_output>>

\* run_process throws through run_workflow, which has no handler, or dies of
\* SIGPIPE: but for a signal it was about to send, nothing more is reported.
AbortStep ==
  /\ pc = "process"
  /\ Process!Abort
  /\ pc' = "aborted"
  /\ log' = log \o ProcessReports(step, NewEvents)
  /\ UNCHANGED <<file, step, completed_step_count, current_output>>

WroteStdout == \E i \in DOMAIN events : events[i] = "output.stdout"

\* Broken variant: an empty stdout leaves the output of an earlier step in place.
CapturedIfAny == IF WroteStdout THEN step ELSE current_output

\* result.stdout_data, told apart by the step that wrote it.
Captured == IF WroteStdout THEN step ELSE NoOutput

CompleteStep ==
  /\ pc = "process"
  /\ \E res \in result :
       /\ res.exit_code = 0
       /\ log' = log \o
            <<ProcessEnd(step, res),
              ItemReport("completed", step, completed_step_count + 1,
                         "exit_zero")>>
  /\ current_output' = Captured
  /\ completed_step_count' = completed_step_count + 1
  /\ step' = step + 1
  /\ pc' = "step"
  /\ UNCHANGED <<file, process>>

\* Broken variant: the workflow fails before its step is closed.
FailureReportsUnclosed(res) ==
  <<RunReport("failed", completed_step_count, res.terminal_cause)>>

FailureReports(res) ==
  <<ItemReport("failed", step, completed_step_count, res.terminal_cause),
    RunReport("failed", completed_step_count, res.terminal_cause)>>

FailStep ==
  /\ pc = "process"
  /\ \E res \in result :
       /\ res.exit_code # 0
       /\ log' = log \o <<ProcessEnd(step, res)>> \o FailureReports(res)
  /\ pc' = "failed"
  /\ UNCHANGED <<file, step, completed_step_count, current_output, process>>

Complete ==
  /\ pc = "step" /\ step > step_count
  /\ log' = Append(log, RunReport("completed", step_count, "exit_zero"))
  /\ pc' = "completed"
  /\ UNCHANGED <<file, step, completed_step_count, current_output, process>>

Load == ReadLine \/ Reject \/ Loaded

Execute ==
  \/ Begin \/ StartStep \/ RunProcess \/ AbortStep
  \/ CompleteStep \/ FailStep \/ Complete

Ended == pc \in {"completed", "failed", "aborted"}

\* Nothing is left to do.
Done == (Ended \/ pc = "rejected") /\ UNCHANGED vars

Next == Load \/ Execute \/ Done

Spec == Init /\ [][Next]_vars

(***************************************************************************)
(* Properties.                                                             *)
(***************************************************************************)

Commands == {i \in DOMAIN text : text[i] = "command"}

\* A reader of the event stream can pair every start with its end: spans of
\* the workflow, its steps and their processes nest, each closes at most once,
\* and a run that completes or fails leaves none open.  The counter of every
\* workflow and step report is the number of steps reported complete so far,
\* that report included, and the final one is the number of commands in the file.
ReportsNest ==
  /\ WellNested(log)
  /\ pc \in {"completed", "failed"} => AllClosed(log)
  /\ \A i \in 1..Len(log) : log[i].scope # "process" =>
       ReportedDone(log, i) = 1..log[i].done
  /\ pc = "completed" =>
       log[Len(log)].done = Cardinality(Commands)

\* A step is fed exactly what its predecessor wrote to stdout, nothing when it
\* wrote nothing, and never the output of an earlier step.
FedByPredecessor ==
  pc = "process" =>
    current_output = IF step > 1 /\ ReportedOutput(log, step - 1)
                     THEN step - 1 ELSE NoOutput

\* The documents: per-process terminal events on both success and failure.  A
\* run that is over has closed every process it reported as started.
StartedProcessIsClosed ==
  Ended => \A i \in 1..Len(log) : log[i].scope = "process" /\ Opens(log[i]) =>
    \E j \in 1..Len(log) : ClosedAt(log, i, j)

(***************************************************************************)
(* Refinement: a workflow is a run of the chain of the commands of its     *)
(* file, and a file with a line that cannot be parsed is no workflow.      *)
(***************************************************************************)

Chain ==
  [i \in 1 .. IF \E l \in DOMAIN text : text[l] = "faulty"
              THEN 0 ELSE Cardinality(Commands)
     |-> IF i = 1 THEN {} ELSE {i - 1}]

Run == INSTANCE RunContract WITH
  parents  <- Chain,
  active   <- IF pc \in {"process", "failed", "aborted"} THEN {step} ELSE {},
  finished <- 1..completed_step_count,
  verdict  <- IF Ended THEN pc ELSE "running"

\* Nothing is executed unless the whole file can be parsed; then its commands
\* are, in order, one at a time and none after a failure, the run completes only
\* when all have, and only a run that completed is repeated.
ImplementsRun == Run!Spec
==============================================================================

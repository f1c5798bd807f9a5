---------------------------- MODULE DemoPipeline ----------------------------
(***************************************************************************)
(* main of eg_demo_pipeline with --workflow: the file is loaded once, the  *)
(* workflow is run as often as --benchmark asks for, and the output of the *)
(* last run is printed once all have completed.  Any exception ends main.  *)
(***************************************************************************)
EXTENDS WorkflowRun

CONSTANT MaxIterations  \* bound: value of --benchmark

ASSUME MaxIterationsAssumption == MaxIterations \in Nat \ {0}

VARIABLES
  iterations,
  iteration,            \* runs that have returned
  last_output,          \* step of that run whose stdout it is
  printed,              \* what main printed, apart from events and timings
  exit_status           \* "none" while it runs, "0", "1" or "signal"

main == <<iterations, iteration, last_output, printed, exit_status>>

PipelineInit ==
  /\ Init
  /\ iterations \in 1..MaxIterations
  /\ iteration = 0
  /\ last_output = NoOutput
  /\ printed = NoOutput
  /\ exit_status = "none"

\* Broken variant: a run that wrote nothing leaves the output of the run before.
ReturnedIfAny == IF current_output = NoOutput THEN last_output
                                              ELSE current_output

\* What run_workflow returns.
Returned == current_output

\* The next run starts from nothing, with the same commands.
RunAgain ==
  /\ pc = "completed" /\ iteration + 1 < iterations
  /\ iteration' = iteration + 1
  /\ last_output' = Returned
  /\ pc' = "start" /\ step' = 1 /\ completed_step_count' = 0
  /\ current_output' = NoOutput
  /\ log' = <<>>
  /\ phase' = "idle" /\ feeding' = FALSE /\ events' = <<>> /\ result' = {}
  /\ UNCHANGED <<file, iterations, printed, exit_status>>

PrintOutput ==
  /\ pc = "completed" /\ iteration + 1 = iterations
  /\ iteration' = iteration + 1
  /\ last_output' = Returned
  /\ printed' = last_output'
  /\ exit_status' = "0"
  /\ UNCHANGED <<vars, iterations>>

\* load_workflow, run_workflow or run_process has thrown.
Catch ==
  /\ pc \in {"rejected", "failed", "aborted"} /\ exit_status = "none"
  /\ exit_status' = "1"
  /\ UNCHANGED <<vars, iterations, iteration, last_output, printed>>

\* SIGPIPE, or the runner is killed.
Die ==
  /\ pc = "aborted" /\ exit_status = "none"
  /\ exit_status' = "signal"
  /\ UNCHANGED <<vars, iterations, iteration, last_output, printed>>

\* main has returned.
Exited == exit_status # "none" /\ UNCHANGED <<vars, main>>

PipelineNext ==
  \/ (Load \/ Execute) /\ UNCHANGED main
  \/ RunAgain \/ PrintOutput \/ Catch \/ Die \/ Exited

PipelineSpec == PipelineInit /\ [][PipelineNext]_<<vars, main>>

(***************************************************************************)
(* Properties.                                                             *)
(***************************************************************************)

\* Success means that every run asked for has completed and that what is shown
\* is what the last command of the last of them wrote, although it may have
\* written nothing; a failure of any run shows no output, of no earlier run.
OutputIsOfLastRun ==
  IF exit_status = "0"
  THEN /\ iteration = iterations
       /\ printed = IF ReportedOutput(log, Cardinality(Commands))
                    THEN Cardinality(Commands) ELSE NoOutput
  ELSE printed = NoOutput
==============================================================================

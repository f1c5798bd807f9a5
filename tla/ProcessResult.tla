---------------------------- MODULE ProcessResult ----------------------------
(***************************************************************************)
(* Wait statuses of a child, the ProcessResult that the runtime derives    *)
(* from one, and the names of the process events.  Shared by the           *)
(* supervisor (ProcessRuntime), by its contract (ProcessContract) and by   *)
(* the callers that report a result (WorkflowRun, GraphRun).               *)
(***************************************************************************)
EXTENDS Naturals, Sequences

CONSTANT ExitCodes      \* exit codes a command may use; 0 is success

ASSUME ExitCodesAssumption == ExitCodes \subseteq 0..255 /\ 0 \in ExitCodes

SIGKILL == 9
SIGSEGV == 11           \* stands for every fatal signal not sent by the runner
SIGTERM == 15

Signals == {SIGKILL, SIGTERM}

Statuses ==
  [kind : {"exited"}, code : ExitCodes] \cup
  [kind : {"signaled"}, code : Signals \cup {SIGSEGV}]

TerminalCauses == {"exit_zero", "exit_non_zero", "signal", "timeout"}

ProcessResults ==
  [exit_code : Nat, signaled : BOOLEAN, signal_number : Nat,
   terminal_cause : TerminalCauses]

\* What the caller of collect_process_result learns of a reaped child: the
\* cause is "timeout" whenever a stop was requested, whatever the status says.
CollectResult(status, stopped) ==
  IF status.kind = "exited"
  THEN [exit_code      |-> status.code,
        signaled       |-> FALSE,
        signal_number  |-> 0,
        terminal_cause |-> IF stopped THEN "timeout"
                           ELSE IF status.code = 0 THEN "exit_zero"
                           ELSE "exit_non_zero"]
  ELSE [exit_code      |-> 128 + status.code,
        signaled       |-> TRUE,
        signal_number  |-> status.code,
        terminal_cause |-> IF stopped THEN "timeout" ELSE "signal"]

(***************************************************************************)
(* Events of one run of a process, before its terminal event.              *)
(***************************************************************************)

Streams == {"stdout", "stderr"}

EventNames == {"started", "stop.requested", "kill.sent", "output.stdout",
               "output.stderr"}

\* One process.output event for each stream that captured anything.
OutputEvents(captured) ==
  (IF "stdout" \in captured THEN <<"output.stdout">> ELSE <<>>) \o
  (IF "stderr" \in captured THEN <<"output.stderr">> ELSE <<>>)
==============================================================================

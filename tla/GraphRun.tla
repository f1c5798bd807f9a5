------------------------------- MODULE GraphRun -------------------------------
(***************************************************************************)
(* execute_snapshot_outputs and render_graph_outputs: the nodes of a       *)
(* snapshot are executed in its execution order, each fed the stdout of    *)
(* its parent, until one fails or all are done and the sinks are rendered. *)
(* The process of the current node is any process ProcessContract allows.  *)
(***************************************************************************)
EXTENDS RunReport, Functions, FiniteSets

CONSTANT MaxNodes       \* bound: nodes of a snapshot

ASSUME MaxNodesAssumption == MaxNodes \in Nat \ {0}

VARIABLES
  pc,                    \* control location of execute_snapshot_outputs
  incoming,              \* parents of each node id, from the snapshot
  execution_order,       \* node ids, from the snapshot
  next,                  \* position in execution_order
  completed_node_count,
  outputs,               \* partial map: a node's output, NoOutput if empty
  rendered,              \* what render_graph_outputs shows of each sink
  log,                   \* every report given to event_sink
  stdin_data,            \* input of the current node
  phase, feeding, events, result  \* the process of the current node

snapshot == <<incoming, execution_order>>
process  == <<phase, feeding, events, result>>
vars     == <<pc, snapshot, next, completed_node_count, outputs, rendered, log,
              stdin_data, process>>

Process == INSTANCE ProcessContract
Order   == INSTANCE GraphOrder

\* A node's output is told apart by the node it comes from.
NoOutput == -1

Ids        == DOMAIN incoming
node_id    == execution_order[next]
Parents(n) == Range(incoming[n])
Sinks      == {n \in Ids : \A m \in Ids : n \notin Parents(m)}

\* Any snapshot: GraphSnapshot!ScheduleIsSafe says that build_snapshot makes one.
Init ==
  /\ pc = "start"
  /\ \E n \in 1..MaxNodes : Order!IsSnapshot(n, incoming, execution_order)
  /\ next = 1
  /\ completed_node_count = 0
  /\ outputs = [n \in {} |-> NoOutput]
  /\ rendered = [n \in {} |-> NoOutput]
  /\ log = <<>>
  /\ stdin_data = NoOutput
  /\ Process!Init /\ ~feeding

Begin ==
  /\ pc = "start"
  /\ log' = <<RunReport("started", 0, "none")>>
  /\ pc' = "node"
  /\ UNCHANGED <<snapshot, next, completed_node_count, outputs, rendered,
                 stdin_data, process>>

\* Broken variant: a node is fed what the node before it in the order wrote.
InputInOrder(n) == IF incoming[n] = <<>> THEN NoOutput
                   ELSE outputs[execution_order[next - 1]]

Input(n) == IF incoming[n] = <<>> THEN NoOutput ELSE outputs[Head(incoming[n])]

\* outputs.at(parent) throws when the parent has no output yet.
StartNode ==
  /\ pc = "node" /\ next <= Len(execution_order)
  /\ Parents(node_id) \subseteq DOMAIN outputs
  /\ stdin_data' = Input(node_id)
  /\ log' = Append(log, ItemReport("started", node_id, completed_node_count,
                                   "none"))
  /\ phase' = "idle" /\ events' = <<>> /\ result' = {}
  /\ feeding' = (stdin_data' # NoOutput)
  /\ pc' = "process"
  /\ UNCHANGED <<snapshot, next, completed_node_count, outputs, rendered>>

\* What run_process emits in one step goes to the same sink.
NewEvents == SubSeq(events', Len(events) + 1, Len(events'))

RunProcess ==
  /\ pc = "process"
  /\ \/ Process!Launch \/ Process!Feed
     \/ Process!Stop \/ Process!Kill \/ Process!Return
  /\ log' = log \o ProcessReports(node_id, NewEvents)
  /\ UNCHANGED <<pc, snapshot, next, completed_node_count, outputs, rendered,
                 stdin_data>>

\* run_process throws, or dies of SIGPIPE: but for a signal it was about to
\* send, nothing more is reported.
AbortNode ==
  /\ pc = "process"
  /\ Process!Abort
  /\ pc' = "aborted"
  /\ log' = log \o ProcessReports(node_id, NewEvents)
  /\ UNCHANGED <<snapshot, next, completed_node_count, outputs, rendered,
                 stdin_data>>

Captured == IF "output.stdout" \in Range(events) THEN node_id ELSE NoOutput

\* Broken variant: an empty output is not entered into outputs.
EnteredIfAny == {n \in {node_id} : Captured = n}

Entered == {node_id}

\* Broken variant: the node is reported before it is counted.
CompletionUncounted ==
  ItemReport("completed", node_id, completed_node_count, "exit_zero")

Completion ==
  ItemReport("completed", node_id, completed_node_count + 1, "exit_zero")

CompleteNode ==
  /\ pc = "process"
  /\ \E res \in result :
       /\ res.exit_code = 0
       /\ log' = log \o <<ProcessEnd(node_id, res), Completion>>
  /\ outputs' = [n \in DOMAIN outputs \cup Entered |->
                   IF n = node_id THEN Captured ELSE outputs[n]]
  /\ completed_node_count' = completed_node_count + 1
  /\ next' = next + 1
  /\ pc' = "node"
  /\ UNCHANGED <<snapshot, rendered, stdin_data, process>>

FailNode ==
  /\ pc = "process"
  /\ \E res \in result :
       /\ res.exit_code # 0
       /\ log' = log \o
            <<ProcessEnd(node_id, res),
              ItemReport("failed", node_id, completed_node_count,
                         res.terminal_cause),
              RunReport("failed", completed_node_count, res.terminal_cause)>>
  /\ pc' = "failed"
  /\ UNCHANGED <<snapshot, next, completed_node_count, outputs, rendered,
                 stdin_data, process>>

\* Broken variant: every sink is shown with the output of the last node.
ShownLast(sink) == outputs[execution_order[next - 1]]

Shown(sink) == outputs[sink]

\* The run completes, and the caller renders outputs.at(sink) of every sink,
\* which throws when one is missing.
Complete ==
  /\ pc = "node" /\ next > Len(execution_order)
  /\ Sinks \subseteq DOMAIN outputs
  /\ log' = Append(log, RunReport("completed", Len(execution_order),
                                  "exit_zero"))
  /\ rendered' = [s \in Sinks |-> Shown(s)]
  /\ pc' = "completed"
  /\ UNCHANGED <<snapshot, next, completed_node_count, outputs, stdin_data,
                 process>>

Ended == pc \in {"completed", "failed", "aborted"}

\* A run that is over.
Done == Ended /\ UNCHANGED vars

Next ==
  \/ Begin \/ StartNode \/ RunProcess \/ AbortNode
  \/ CompleteNode \/ FailNode \/ Complete \/ Done

Spec == Init /\ [][Next]_vars

(***************************************************************************)
(* Properties.                                                             *)
(***************************************************************************)

\* A reader of the event stream can pair every start with its end, and finds
\* completed_node_count equal to the nodes reported complete so far.
ReportsNest ==
  /\ WellNested(log)
  /\ pc \in {"completed", "failed"} => AllClosed(log)
  /\ \A i \in 1..Len(log) : log[i].scope # "process" =>
       log[i].done = Cardinality(ReportedDone(log, i))

\* A node is fed what its parent, and no other node, was reported to have
\* written to stdout; a root is fed nothing.
FedByParent ==
  pc = "process" =>
    \/ /\ incoming[node_id] = <<>>
       /\ stdin_data = NoOutput
    \/ \E p \in Parents(node_id) :
         stdin_data = IF ReportedOutput(log, p) THEN p ELSE NoOutput

\* What is shown of each sink is what that sink wrote in this run.
SinksAreRendered ==
  pc = "completed" =>
    \A s \in Sinks :
      rendered[s] = IF ReportedOutput(log, s) THEN s ELSE NoOutput

(***************************************************************************)
(* Refinement: a graph run is a run of its nodes under its edges.          *)
(***************************************************************************)

Run == INSTANCE RunContract WITH
  parents  <- [n \in Ids |-> Parents(n)],
  active   <- IF pc \in {"process", "failed", "aborted"} THEN {node_id} ELSE {},
  finished <- DOMAIN outputs,
  verdict  <- IF Ended THEN pc ELSE "running"

\* Each node runs at most once, after its parent succeeded, one at a time, and
\* none after a failure; the run completes only when all have.
ImplementsRun == Run!Spec
==============================================================================

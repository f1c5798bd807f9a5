# execGraph in TLA+

TLA+ modules, TLC configurations and TLAPS proofs for
[execGraph](../src/README.md): a C++ runtime that executes shell-like workflows
and process graphs, a SQLite store for graphs, and `autoswe`, a Python CLI that
keeps a design ledger in SQLite. Paths below are relative to the repository
root; `runtime` stands for `exec_graph/src/runtime/process_runtime.cpp`,
`document` for `exec_graph/src/graph/graph_document.cpp`, `snapshot` for
`exec_graph/src/graph_core/graph_snapshot.cpp` and `cli` for `autoswe/cli.py`.

## 1. The system

| component | state | operations | interacts with |
|---|---|---|---|
| process supervision (`runtime` 39-276, 306-396) | local: deadlines, `child_running`, `stop_requested`, `kill_sent`, two descriptors, two buffers; in the kernel: three pipes, a process group, its signals | `run_process`, `write_all`, `collect_process_result`, `send_signal_to_process_group` | the command and its descendants, through pipes, signals and `waitpid`; its caller, through `event_sink` and the returned `ProcessResult` |
| workflow runner (`runtime` 280-304, 399-440) | step index, `current_output`, `completed_step_count` | `load_workflow`, `run_workflow` | calls `run_process` once per step and shares its event sink |
| process events (`runtime` 442-888) | none | one builder per event, JSON rendering | every runner |
| graph document (`document`) | nodes, edges; the queue and counters of Kahn's algorithm | `load_graph_document[_from_string]`, `topological_order` | input of the snapshot and of the repository |
| graph snapshot (`snapshot` 12-182) | node records with offsets into three shared vectors, the execution order | `build_snapshot`, `argv_copy`, `incoming`, `outgoing`, `sink_nodes` | read by the graph runner |
| graph runner (`snapshot` 188-281, `demo_pipeline.cpp` 41-53) | `outputs`, `completed_node_count` | `execute_snapshot_outputs`, `render_graph_outputs` | calls `run_process` once per node |
| graph repository (`graph_repository_sqlite.cpp`, `connection.cpp`) | table `graph_snapshots` | `save_graph`, `load_graph` | other processes, through SQLite locks |
| migration runner (`migration_runner.cpp`, `migrate.cpp`) | table `schema_migrations` | `apply_all` | other processes, through SQLite locks |
| design ledger (`cli` 638-1302) | tables of projects, nodes, artifacts, decisions, questions, packages and events | about thirty subcommands, each one process | other CLI processes, through SQLite |
| code index (`cli` 350-457) | tables `code_index_runs`, `code_files`, `code_symbols` | `refresh_code_index`, first thing every subcommand does | the files of the workspace; other CLI processes |
| ledger queries (`cli` 1305-1640) | none | `query ...`, `resume` | the ledger, with one SELECT after the other; the agents that do what `resume` offers |
| demo pipeline (`demo_pipeline.cpp` 56-221) | `last_output`, the number of runs left | `main` | loads, stores and runs workflows and graphs, `--benchmark` times |

What is hard in it, and what makes each part correct:

* *Process supervision* is the only truly concurrent part: a single-threaded
  runner against arbitrary processes that may fork, trap SIGTERM, close
  descriptors, fill pipes and die at any point. It is correct when no captured
  output is lost, back pressure is released, the timeout is enforced against the
  whole group with a grace period before SIGKILL, signals never reach a foreign
  group, the result is that of the reaped child, and the run ends.
* *Workflow and graph runners* are sequential, but combine the events of three
  layers in one stream and carry data between commands. They are correct when
  the stream can be read as nested spans with exact counters, each command is
  fed the right output, and a failure ends the run.
* *Documents and snapshots* are pure algorithms over unordered containers and
  offsets. They are correct when exactly the executable documents are accepted,
  the order is topological for every iteration order of the hash maps, and the
  dense storage says what the document says.
* *Repository and migrations* are read-then-write programs run by several
  processes against one database file, any of which may die between two
  statements. They are correct when a stored graph is a compare-and-set
  register, migrations are applied once, in order and whole, and nobody works on
  half a schema.
* *Ledger and code index* read outside transactions and write inside them. They
  are correct when links, event log and rows agree after every commit, an update
  is lost at most to one that overlaps it, and the index is that of one run.
* *Resume* collects its answer from many SELECTs while others commit, and the
  agents act on it later. It is correct when undisturbed answers are right, what
  it offers can be started, and agents that follow it finish the work.

`PROJECT.json` lists the components and, under `hazards`, every place of the
code that a test would hardly exercise, with the properties that watch it.

## 2. Modules

| module | models | role |
|---|---|---|
| `ProcessResult` | wait statuses, `ProcessResult`, event names | shared definitions |
| `ProcessContract` | what callers of `run_process` may rely on | abstract specification |
| `ProcessRuntime` | `run_process` and `collect_process_result` with pipes, group, signals, clock and command | detailed specification; refines `ProcessContract` |
| `ProcessRuntime_proofs` | | theorems about `ProcessRuntime` |
| `RunReport` | the event builders, and what a readable stream is | shared definitions |
| `RunReport_proofs` | | lemmas about reports and readable streams, for the two proof modules below |
| `RunContract` | what a run of dependent commands promises | abstract specification |
| `WorkflowRun` | `load_workflow` and `run_workflow`, composed with `ProcessContract` | detailed specification |
| `DemoPipeline` | `main` of `eg_demo_pipeline` with `--workflow`: load once, run `--benchmark` times, print; extends `WorkflowRun` | refines `RunContract` |
| `DemoPipeline_proofs` | | theorems about `WorkflowRun` and `DemoPipeline` |
| `GraphRun` | `execute_snapshot_outputs` and `render_graph_outputs`, composed with `ProcessContract` | refines `RunContract` |
| `GraphRun_proofs` | | theorems about `GraphRun` |
| `GraphOrder` | what a graph document means, and what a snapshot of one is | reference definitions |
| `LoadContract` | what loading a text promises | abstract specification |
| `GraphDocument` | `load_graph_document_from_string`, `topological_order` | refines `LoadContract` |
| `GraphSnapshot` | `build_snapshot` and the accessors | extends `GraphDocument` |
| `MCGraphSnapshot` | | small names and argument lists |
| `GraphSnapshot_proofs` | | theorems about `GraphDocument` and `GraphSnapshot` |
| `SqliteFile` | a database file, its readers and its one writer (`connection.cpp`, Python's `sqlite3`) | shared state |
| `RevisionRegister` | what the graph store promises | abstract specification |
| `GraphStore` | `apply_all`, `save_graph`, `load_graph` by the processes that share a database; extends `SqliteFile` | refines `RevisionRegister` |
| `GraphStore_proofs` | | theorems about `GraphStore` |
| `DecisionLedger` | the CLI commands and `refresh_code_index`; extends `SqliteFile` | detailed specification |
| `DecisionLedger_proofs` | | theorems about `DecisionLedger` |
| `MCDecisionLedger` | | symmetry of the processes |
| `Resume` | `next_work_payload`, `select_resume_project`, `resume`, the commands of others and the agents that do what they are offered | detailed specification |
| `Resume_proofs` | | theorems about `Resume` |
| `MCResume` | | agents, first ledgers and dependencies |

The composition is layered the way the code is. `ProcessRuntime` is shown to
implement `ProcessContract`; `WorkflowRun` and `GraphRun` instantiate the
contract in place of the runtime, so that their runs range over every process
behaviour without exploring pipes and signals again. `Resume` in the same way
takes each command for one step, which `DecisionLedger` shows it to be as far as
its links, status and event go. `GraphSnapshot` extends
`GraphDocument` with the construction of the snapshot, and `GraphRun` starts
from anything that satisfies `GraphOrder!IsSnapshot`, which `ScheduleIsSafe`
says of what `build_snapshot` makes.

### ProcessRuntime

`pc` is the control location of the runner: `spawn`, `feed` (inside
`write_all`), then the loop `reap -> timer -> poll -> stdout -> stderr` of
`collect_process_result`. One action stands for the code between two system
calls whose order relative to the command matters; `Spawn` is the one exception,
because nothing of the command is observable before its descriptors are set up
and both sides call `setpgid` before they go on.

The kernel and the command are actions of the same specification: `Exit`,
`DieBySignal`, `Fork`, `Detach` (leave the group), `TrapTerm`, `CloseEnd`,
`ReadStdin`, `WriteOutput`, by any member, in any order, as often as the bounds
allow. Three kinds of command step that the runner cannot observe are left out
to keep runs small: trapping SIGTERM or leaving the group when no signal is to
come, and using stdin once the runner has nothing more to write.

Data are units: a pipe holds `PipeCapacity` of them and a read takes up to
`ReadSize`. The clock is the last deadline of the code that has passed
(`running`, `timed_out`, `grace_over`): the code only ever compares the time
with those two deadlines. `poll`'s own timeout (25 ms or less) is the
possibility of `Poll` reporting nothing.

Every system call whose result the code checks may fail, at any time, with the
actions of `Failure`: `pipe`, `fork` and the runner's `setpgid` (`SpawnFails`, in
the last case with the child already there), `waitpid` (`ReapFails`), `kill` other
than with ESRCH (`SignalFails`), `poll` (`PollFails`) and `read` (`ReadFails`);
`write` fails when nobody can read stdin any more (`FeedBroken`, or SIGPIPE).
All of them are an exception that nobody handles before `main` does, which then
ends (`Throw`): the read ends are closed, what was captured is lost, and the
command is neither stopped nor reaped. `SignalFails` comes after the event, which
the code emits before it calls `kill`. `ProcessContract` has the same exceptions
as `Abort`: from the beginning to the return, with the events so far or with one
more, the announcement of the signal that could not be sent. Why a call fails is
not modelled. In particular the kernel never reaps a child by itself, as it does
for a runner that inherited SIGCHLD ignored: the `waitpid` that then fails is
`ReapFails`, but `SignalsHitOwnGroup` takes it that an unreaped child keeps its id.

### WorkflowRun, DemoPipeline and GraphRun

`load_workflow` reads its file line by line (`ReadLine`); a line is blank, a
command or faulty, which is all that the function tells apart, and the first
faulty line or a file without commands ends it (`Reject`) before anything runs.
`DemoPipeline` adds what `main` keeps between the runs of `--benchmark`:
`last_output` and the number of runs that have returned. `RunContract` is about
all of them, so `ImplementsRun` also says that a rejected file runs nothing, that
a file without commands is rejected (`RunContract` completes no run without
items), and that only a completed run is repeated.

`log` is the sequence of reports given to `event_sink`, those of the process
included. A step's (node's) stdout is represented by the step (node) it came
from, so that feeding the wrong output shows. `AbortStep` and `AbortNode` are an
exception of `run_process`, which neither runner handles, or the death of the
runner by SIGPIPE, before, while or after the process is fed; a signal announced
and not sent is in the log by then. An output that is looked up before it is there
(`outputs.at`) would leave `StartNode` or `Complete` without a next state: the
deadlock check of `graph_run` covers it.

### GraphDocument and GraphSnapshot

Texts are read line by line, with any name on any line, so every document within
the bounds is covered. The two unordered maps that `topological_order` iterates
over are the choice of `PushRoot`; the children of a node come in document
order, which makes `Outgoing` a set with one list in it. A node id is a sequence
of atoms, because the code tells edges apart by the text `from->to`; the
instance holds ids for which two different edges of a forest are written alike,
and `LoadContract` says that such a document is rejected. That is what the code
does; no document of the repository promises otherwise. `build_snapshot` calls
`topological_order` a second time; that call is modelled by its result, any
topological order.

### SqliteFile, GraphStore and DecisionLedger

`SqliteFile` keeps the file twice: `committed` is what readers see, `staged`
what the writer sees. `BEGIN IMMEDIATE`, and the implicit `BEGIN` that Python
issues before the first INSERT or UPDATE, are `Begin`, which waits while another
process is in a transaction; the busy timeout of five seconds is one of the ways
to fail. `Rollback` is the destructor of `Transaction`, the end of a Python
process that has not committed, or the journal after a crash. That SQLite works
this way is taken for granted; everything the code does with it is modelled
statement by statement.

In `GraphStore` a process is one `eg_migrate` or one `eg_demo_pipeline` with
`--save-graph` or `--stored-graph`. Rows of `graph_snapshots` are sets, empty or
a singleton, so that "no row" and "no expected revision" are the same value; the
code tells them apart by an empty source text and `std::nullopt`, which agree
with it because an empty text is not a graph. `Fails` is possible everywhere: an
exception, or the death of the process. A second runner that applies a migration
another one has just committed fails loudly (`ApplyFails`): ADD COLUMN and the
primary key reject it, and the file is unchanged.

In `DecisionLedger` a process is one CLI invocation: `start`, the scan and the
transaction of the code index, the SELECTs that a command requires, the
transaction with its row, its links and its event, the final SELECT. The handlers
of all tables have this shape and share the actions; a row has the columns of
every kind, and what tells the commands apart is in `Adds`, `Columns`, `Linking`,
`TellsStatus` and `TellsVersion`. `Updated` writes what the command was given and,
for its other columns, what it read before it had the lock, as the code does.

### Resume

`query` is what one `resume` has read so far. It goes `idle -> context -> nodes
-> lookups` once for every active project it ranks and once more for the project
it selects, with a command of somebody else possible before every SELECT; then it
is `answered`. An agent that is offered a node marks it `in_progress` (`Take`)
and later `done` (`Finish`), which are `node update-status`; otherwise it asks
again. Ids can be chosen (`--node-id`), so a node may depend on one that does not
exist yet; `Unknown` is an id that nobody ever creates. Of the twelve canonical
stages and three downstream ones one of each is kept: the code only asks whether
a stage is in the set. The time of the last activity, which decides between
projects that rank alike, is a nondeterministic choice. Open questions cannot be
made any more (`question open` is disabled), so there are none. `witness` is a
history variable: whether anything was committed since the query began, and which
nodes have been done since.

## 3. Runs

| run | module, cfg | what it shows |
|---|---|---|
| `process_single` | `ProcessRuntime`, `ProcessSingle.cfg` | one process, two units of stdin, pipes of two, reads of one: output is complete, pipes are drained, the timeout is enforced, runs return, the contract holds, whatever system call fails |
| `process_group` | `ProcessRuntime`, `ProcessGroup.cfg` | a leader and a descendant that may leave the group: only the own group is signalled, SIGKILL is last, the result is honest, SIGKILL ends the run unless a call fails |
| `process_lingering` | `ProcessRuntime`, `ProcessLingering.cfg` | **violation**: a descendant that traps SIGTERM outlives the stop |
| `process_stdin_blocked` | `ProcessRuntime`, `ProcessStdinBlocked.cfg` | **violation**: with more stdin than the pipe holds, the timeout is never armed |
| `workflow_run` | `DemoPipeline`, `DemoPipeline.cfg` | nothing runs unless the file parses, spans nest with exact counters, input is the predecessor's output, what is printed is the output of the last run, `RunContract` holds |
| `workflow_abort` | `WorkflowRun`, `WorkflowAbort.cfg` | **violation**: a step whose `run_process` throws leaves a started process without terminal event |
| `graph_load` | `MCGraphSnapshot`, `GraphSnapshot.cfg` | exactly the executable documents are accepted, the order is topological, the snapshot says what the document says, every text is decided |
| `graph_run` | `GraphRun`, `GraphRun.cfg` | no lookup of an output fails, each node is fed its parent's output, sinks are rendered, `RunContract` holds |
| `graph_store` | `GraphStore`, `GraphStore.cfg` | migrations are applied once, in order and whole; saves are compare-and-set, none that was acknowledged is lost; no two processes wait for each other; `RevisionRegister` holds |
| `ledger` | `MCDecisionLedger`, `DecisionLedger.cfg` | links, event log and rows agree after every commit, the log is append-only, updates and index runs are lost only to overlapping ones, the code index is that of one run |
| `resume` | `MCResume`, `Resume.cfg` | undisturbed answers of `resume` are right, the dependencies of an offered node were done since the query began, all work that can be done gets done |
| `resume_dangling` | `MCResume`, `ResumeDangling.cfg` | **violation**: a dependency on an unknown id ends `query next-work` and `resume` |

The properties are defined at the end of each module, each with a comment that
says what it means for the code.

### Bounds, and why they are enough

* `ProcessSingle`: two units in a pipe and reads of one make partial reads, a
  full pipe and an empty one distinct; input up to the capacity covers every
  point at which the command may close stdin while the runner writes. More than
  the capacity is `process_stdin_blocked`.
* `ProcessGroup`: one descendant is enough for every question about the group,
  because the runner never looks at descendants: it sees signals accepted by
  *some* member and pipes held by *some* member. `MaxInput = 0` because stdin
  plays no part in them.
* `DemoPipeline`: with three steps there is one with a predecessor and a
  successor, and one whose predecessor's predecessor has an output that must not
  be used; with three lines there is a faulty one after good ones and a blank one
  between commands. Exit codes 0 and 1 are the two that the code tells apart. Two
  runs (`MaxIterations`) are the first, and one that another preceded.
* `GraphSnapshot`: three names, node lines and edge lines give chains, forks,
  joins, self-loops, cycles, cycles beside trees, unknown ids, repeated nodes
  and edges, and isolated nodes. Argument lists have one, two and three members,
  so that an offset that counts something else goes wrong.
* `GraphRun`: every forest over at most three nodes with every topological
  order.
* `GraphStore`: three processes are one that creates a graph, one that updates
  it and one that conflicts with either, and, among migration runners, one that
  applies, one that skips and one that comes too late. A caller expects no
  revision or revision 1, which is current, outdated or too new depending on the
  others. Only saves can expect a revision (`demo_pipeline.cpp` 144).
* `DecisionLedger`: two processes give every pair of commands in every
  interleaving; the properties relate a command to what one other does between
  its steps. One edit of the workspace makes two scans differ. The processes are
  interchangeable, so the run uses their symmetry.
* `Resume`: two projects are needed to rank, three nodes to have a command add
  one to a chain, one command of others to disturb an answer; the agents' own
  commands disturb each other besides. The first ledgers are a chain through both
  stages of one project, and a project that waits for another one, with every
  status of every node. Others may store no dependency, one on node 2, which also
  makes nodes wait for each other or for themselves, and one on an unknown id.

### Fairness

`ProcessRuntime!Fairness` is weak fairness of the runner (a thread the kernel
schedules, whose system calls return when they can), of time, and of the
delivery of a signal the kernel has accepted. The command gets none: it may stop
doing anything at any point, and all liveness properties hold or fail with that.
`Failure` is no part of it: calls may fail and need not. A run in which one fails
is over without having drained, stopped or awaited anything, so the liveness
properties except it (`pc = "threw"`).
`GraphSnapshot!FairSnapshotSpec` is weak fairness of a single thread.
`GraphStore!FairSpec` is weak fairness of each process: it is scheduled, and a
BEGIN that stays possible succeeds; failing is never required.
`Resume!FairSpec` is weak fairness of each agent, which goes on asking and
working; the others need never do anything. There is one agent per project, or
one that selects among all: `designctl.md` 274 limits the tool to one active LLM
per project, and `WorkGetsDone` needs it, because nothing is claimed between
`resume` and `node update-status`, and two agents on one project can set back each
other's nodes for ever. `WorkflowRun`, `DemoPipeline`, `GraphRun` and
`DecisionLedger` state safety only.

### Disagreements with the documents

Each is a `violation` run and a finding of `PROJECT.json`.

1. *A descendant can outlive a timeout* (`runtime` 189). Deadlines are looked at
   only while `child_running`. When the leader dies of SIGTERM and is reaped, a
   member of its group that traps SIGTERM never gets the SIGKILL, and while it
   holds an output pipe the runner waits in `poll(-1)`.
2. *A timeout may never be armed* (`runtime` 379). All of stdin is written,
   blocking, before the clock is started.
3. *A started process may have no terminal event* (`runtime` 379, 45). A step
   that ends before it was fed makes `write_all` fail; no handler closes the
   spans, and SIGPIPE is not ignored. So does every exception of
   `collect_process_result` (`read` 59, `kill` 159, `waitpid` 181, `poll` 223 and
   237); TLC reports whichever comes first.
4. *One mistyped dependency ends `resume`* (`cli` 1338). Dependencies are stored
   unchecked (777, 815) and looked up with `Database.one`, which exits with
   `record not found`.

Three things look like disagreements and are not, because no document promises
otherwise. A step that is stopped by its timeout and exits 0 is a success
(`runtime` 421: only the exit code decides). Overlapping updates of one row lose
one of the two (an artifact's version may go down), and the slower of two
overlapping scans stays in the code index; `UpdatesStick` and `IndexIsWhole` say
how far this goes: never beyond commands that overlap. An answer of `resume` that
others interfere with may be true at no moment; `OfferIsFresh` says what holds
nevertheless.

## 4. Proofs

`ProcessRuntime_proofs` proves, for every set of descendants, pipe capacity,
read size and input, from `ExitCodesAssumption`, `MembersAssumption` and
`SizesAssumption` alone:

| theorem | statement |
|---|---|
| `TypeCorrect` | `Spec => []TypeOK` |
| `Inductive` | `Spec => []IInv` |
| `OutputIsComplete` | `Spec => []NoOutputLost` |
| `GracefulFirst` | `Spec => []KillIsLastResort` |
| `OwnGroupOnly` | `Spec => SignalsHitOwnGroup` |
| `ResultIsHonest` | `Spec => []ResultIsOfReapedChild` |
| `Refinement` | `Spec => ImplementsContract` |

None of the properties is inductive. `NoOutputLost` needs to know what the last
`poll` promised: `revents` were sampled several steps before they are acted
upon, and the command goes on meanwhile. `PollInv` says why acting on them is
right: a reported hangup is final (nobody holds the write end, and a dead
process cannot get it back, `KernelInv`), so a hangup without data means the
pipe is and stays empty. `DrainInv` follows from it. `EscalationInv` orders
stop, grace window and kill; `ReapInv` ties `child_running` to the kernel's view
of the leader; `EventInv` and `ResultInv` give the exact event list and result,
from which the refinement follows: each action of `Next` is one contract action
or a stutter. A failing call is `Abort` wherever it happens, because `EventInv`
gives the events at that point and the announcement of a signal that is not sent
is the next event of the contract. Each conjunct of `IInv` has a lemma that it is preserved, with a
step per action that can disturb it.

`GraphStore_proofs` proves, for any set of processes and of graph ids and every
bound on the expected revision, from `BoundAssumption` alone:

| theorem | statement |
|---|---|
| `TypeCorrect` | `Spec => []TypeOK` |
| `Inductive` | `Spec => []IInv` |
| `Versioned` | `Spec => []SchemaIsVersioned` |
| `Once` | `Spec => []AppliedOnce` |
| `Ready` | `Spec => []StoreIsReady` |
| `Serial` | `Spec => []SavesAreSerial` |
| `Refinement` | `Spec => ImplementsRegister` |

The argument follows the lock. `LockInv` says at which steps a process is the
writer and that nothing is staged before its first change; so the second
question, inside the transaction (`Applicable`), is asked of what is committed.
From it `MigrationInv` says what the writer is about to commit and that a process
has only passed migrations that are committed, although it asked for them outside
a transaction: versions are never removed (`StepKeepsSchema`). `SaveInv` says that
the row a save has read is still there when it commits. Steps of other processes
leave all of this alone because whoever may change the file must hold the lock
(`OthersAreLeftAlone`). The refinement follows from `IInv`: a commit of a save is
`Store`, every other step answers once or changes nothing a caller can see.
`SavesAreSerial` needs more, because a row that was saved may have been replaced:
`SerialInv` bounds the revisions of all rows ever made by the current one.

`DemoPipeline_proofs` proves, for files and benchmarks of any length and any exit
codes, from `ExitCodesAssumption` and `MaxLinesAssumption` alone, and
`GraphRun_proofs`, for snapshots of any size, from `ExitCodesAssumption` and
`MaxNodesAssumption` alone:

| theorem | of `DemoPipeline` | of `GraphRun` |
|---|---|---|
| `Inductive` | `PipelineSpec => []IInv` | `Spec => []IInv` |
| `ReportsAreNested` | `PipelineSpec => []ReportsNest` | `Spec => []ReportsNest` |
| `StepsAreFed`, `NodesAreFed` | `PipelineSpec => []FedByPredecessor` | `Spec => []FedByParent` |
| `OutputIsLast`, `SinksAreShown` | `PipelineSpec => []OutputIsOfLastRun` | `Spec => []SinksAreRendered` |
| `NothingIsMissing` | | the lookups `outputs.at` never throw |
| `Refinement` | `PipelineSpec => ImplementsRun` | `Spec => ImplementsRun` |

`WellNested` speaks of all reports of a stream at once, so the invariant says
where its open end is: between two items (`BetweenItems`), or `n` reports in,
where the current item began and after which there is nothing but what its
process has emitted (`InItem`). `RunReport_proofs` shows that a stream stays
readable when reports are added that close nothing (`StreamGrows`) or one that
closes the innermost open span (`StreamCloses`), and lifts this to the four
things that happen to an item: it starts, its process goes on, it ends, or the
run ends with it. `CountInv` says that each counter is the number of items the
log reports as done, and `OutputInv` that the outputs that are held are those the
log tells of, from which both feeding properties follow. A graph run needs one
more argument: every node scheduled before the current one has an output
(`OrderInv`), and a completed run, in which as many nodes are done as there are,
has scheduled all of them (`AllScheduled`, by counting). Then neither
`outputs.at(parent)` nor `outputs.at(sink)` can throw.

`GraphSnapshot_proofs` proves, for texts of any length over any names, and for
any argument lists, from `ArgvAssumption` alone:

| theorem | statement |
|---|---|
| `Inductive` | `SnapshotSpec => []IInv` |
| `TypeCorrect` | `SnapshotSpec => []TypeOK` |
| `Refinement` | `SnapshotSpec => ImplementsLoad` |
| `SlicesAreRight` | `SnapshotSpec => []SlicesMatchDocument` |
| `ScheduleHolds` | `SnapshotSpec => []ScheduleIsSafe` |

That Kahn's algorithm is right follows from `queued`, the order followed by the
queue: everything that has ever been in the queue. `QueueInv` says that nothing
entered it twice, that it has exactly the nodes whose parents are all placed, and
that of the nodes placed, every set has a first one. The last part is what
acyclic means when all nodes are placed (`PlacedIsAcyclic`); when the queue runs
empty before that, the nodes left over have each a parent among them
(`LeftOverIsCyclic`). That counts do not fall below zero and a child enters the
queue once needs what validation has established (`EdgesInv`): every node has at
most one edge into it (`OneParent`). `BuildInv` follows the loops of
`build_snapshot`: which records, which edges and which slices are there already
(`Appended`, `Linked`, `Adjacent`). A vector that holds a sequence from an offset
on (`HoldsAt`) still does when something is appended to it, and cutting the slice
out again returns the sequence (`SliceOfHeld`). `ScheduleHolds` is also what links
the two halves of graph execution: its first conjunct is the assumption `GraphRun`
makes of its input.

`DecisionLedger_proofs` proves, for any set of processes, commands and number of
edits of the workspace, from `EditsAssumption` and `FreshIdsAssumption` (the id of
a new row is not one that the first ledger has, nor the id of no row) alone:

| theorem | statement |
|---|---|
| `Inductive` | `Spec => []IInv` |
| `TypeCorrect` | `Spec => []TypeOK` |
| `LinksAreKept` | `Spec => []LinksAreExact` |
| `EventsAgree` | `Spec => []EventsTellState` |
| `IndexStaysWhole` | `Spec => []IndexIsWhole` |
| `UpdatesAreKept` | `Spec => []UpdatesStick` |
| `AuditHolds` | `Spec => AuditIsComplete` |

Again along the lock. What the properties say of committed contents
(`Consistent`) is broken while a command runs, so `StagedInv` says, for each step
of a transaction, how what is staged differs from what is committed, and that at
the commit the two lists of links, the row and its event fit again. `ReadInv`
says what is left of what a command read before it had the lock: the row is still
there, though it may have changed. The events of a row that come after a given one
(`After`) tell whether its status, version or text may have been replaced since.

`Resume_proofs` proves, for any agents, projects, first ledgers and commands of
others, from `BoundsAssumption` alone:

| theorem | statement |
|---|---|
| `Inductive` | `Spec => []IInv` |
| `OffersAreFresh` | `Spec => []OfferIsFresh` |
| `AnswersAreCurrent` | `Spec => []AnswerIsCurrent` |

For each agent `Fresh` says that a dependency of a candidate was seen to be done
since the query began, is still to be looked up, or has ruled the candidate out;
and `Current` says, as long as nobody has committed anything, what the projects
ranked so far, the rows and the lookups tell about the ledger itself.

Only model-checked:

* liveness (`FullPipeIsDrained`, `DeadCommandReturns`, `KillEndsRun`,
  `StoppedGroupDies`, `TimeoutIsArmed`, `TextIsLoaded`, `EveryCallEnds`,
  `WorkGetsDone`), which needs fairness and `ENABLED`: out of reach of the prover;
* that the runs end and do not get stuck (deadlock), which is `ENABLED` again;
  `NothingIsMissing` proves the part of it that the code itself could break.

Every safety invariant, action property and refinement that a passing run checks
is the statement of a theorem.

## 5. Plan

Written, in this order: process supervision and its contract; the workflow
runner; documents and snapshots; the graph runner; the proofs about process
supervision; the graph store; the ledger; the proofs about the graph store;
loading and repeating workflows; `resume` and the agents that follow it; the
proofs about the ledger, `resume`, workflow runs, graph runs, documents and
snapshots.

Next: the safety half of the liveness properties, as action properties that can
be proved: the quantities that fall with every step of the runner, of
`topological_order` and of `build_snapshot`.

Not modelled, and not planned:

* argument parsing and the JSON and text formatting of the CLIs, `query tree`,
  `query events`, `query code-map`, `artifact_template` and the list and get
  commands: they read and format, and decide nothing;
* the tokenizer of documents and workflows: a line is good or faulty;
* the `--benchmark` loop around graphs: it has the shape of the one in
  `DemoPipeline`, and a graph run keeps nothing from the one before;
* the memory arena of the snapshot and the Python symbol extraction of the code
  index, and the shell tests;
* SQLite, the kernel and the commands that are run, except as the environment of
  the code: what they do is assumed, not checked.

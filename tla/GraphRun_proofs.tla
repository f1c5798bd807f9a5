---------------------------- MODULE GraphRun_proofs ----------------------------
(***************************************************************************)
(* Proofs about GraphRun, for any exit codes and snapshots of any size.    *)
(***************************************************************************)
EXTENDS GraphRun, RunReport_proofs, FiniteSetTheorems

(***************************************************************************)
(* The inductive invariant.                                                *)
(***************************************************************************)

Labels == {"start", "node", "process", "completed", "failed", "aborted"}

Size == Len(execution_order)

SnapshotInv ==
  /\ Size \in Nat \ {0}
  /\ Order!IsSnapshot(Size, incoming, execution_order)

\* The nodes scheduled before position i.
Before(i) == {execution_order[j] : j \in 1..i-1}

\* One node after the other, in order; all that were left behind have an output.
OrderInv ==
  /\ pc \in Labels
  /\ next \in 1..Size+1
  /\ completed_node_count = next - 1
  /\ DOMAIN outputs = Before(next)
  /\ IsFiniteSet(DOMAIN outputs) /\ Cardinality(DOMAIN outputs) = completed_node_count
  /\ pc = "start" => next = 1
  /\ pc \in {"process", "failed", "aborted"} => next <= Size
  /\ pc = "completed" => next = Size + 1

\* What the contract of run_process leaves of the current process.
ProcessInv ==
  /\ Emitted(events)
  /\ phase = "idle" => events = <<>>
  /\ phase \in {"running", "returned"} => Len(events) > 0
  /\ result \subseteq ProcessResults
  /\ result # {} => phase = "returned"

\* Where the reports of the current node begin; all of earlier ones are before.
NodeBegins(n) ==
  /\ InItem(log, n, node_id, events)
  /\ \A k \in 1..n-1 : log[k].scope = "process" => log[k].subject \in DOMAIN outputs

LogInv ==
  /\ log \in Seq(Reports)
  /\ WellNested(log)
  /\ pc = "start" => log = <<>>
  /\ pc = "node" => BetweenItems(log)
  /\ pc = "process" => \E n \in 1..Len(log) : NodeBegins(n)
  /\ pc \in {"completed", "failed"} => AllClosed(log)
  /\ pc = "node" =>
       \A k \in 1..Len(log) : log[k].scope = "process" => log[k].subject \in DOMAIN outputs

CountInv ==
  /\ ReportedDone(log, Len(log)) = DOMAIN outputs
  /\ \A i \in 1..Len(log) : log[i].scope # "process" =>
       log[i].done = Cardinality(ReportedDone(log, i))

\* The output of a node, as the log tells it.
Told(n) == IF ReportedOutput(log, n) THEN n ELSE NoOutput

OutputInv ==
  /\ \A n \in DOMAIN outputs : outputs[n] = Told(n)
  /\ FedByParent
  /\ pc = "completed" => rendered = [s \in Sinks |-> outputs[s]]

IInv == SnapshotInv /\ OrderInv /\ ProcessInv /\ LogInv /\ CountInv /\ OutputInv

(***************************************************************************)
(* The process of the current node.                                        *)
(***************************************************************************)

LEMMA ProcessSteps ==
  ASSUME ProcessInv,
         \/ Process!Launch \/ Process!Feed
         \/ Process!Stop \/ Process!Kill \/ Process!Return \/ Process!Abort
  PROVE  /\ ProcessInv' /\ events' \in Seq(EventNames) /\ events \in Seq(EventNames)
         /\ Len(events) <= Len(events')
         /\ \A i \in 1..Len(events) : events'[i] = events[i]
<1>1. /\ Emitted(events) /\ events \in Seq(EventNames) /\ Len(events) \in Nat
      /\ result \subseteq ProcessResults /\ (result # {} => phase = "returned")
      /\ phase = "idle" => events = <<>>
      /\ phase \in {"running", "returned"} => Len(events) > 0
  BY LenProperties DEF ProcessInv, Emitted
<1>2. CASE Process!Launch
  <2>1. /\ events = <<>> /\ events' = <<"started">> /\ phase' = "running"
        /\ phase = "idle" /\ result' = result
    BY <1>1, <1>2 DEF Process!Launch
  <2>2. Len(events) = 0 /\ 1..Len(events) = {}
    BY <2>1, EmptyIsEmitted
  <2>3. QED BY <1>1, <2>1, <2>2, FirstEvents DEF ProcessInv, Emitted
<1>3. CASE Process!Feed
  BY <1>1, <1>3 DEF Process!Feed, ProcessInv
<1> DEFINE Grows == /\ Emitted(events') /\ Len(events) <= Len(events')
                    /\ Len(events') > 0
                    /\ \A i \in 1..Len(events) : events'[i] = events[i]
<1>4. ASSUME Process!AnnounceStop PROVE Grows /\ phase = "running"
  <2>1. /\ events = <<"started">> /\ events' = <<"started", "stop.requested">>
        /\ phase = "running"
    BY <1>4 DEF Process!AnnounceStop
  <2>2. Len(events) = 1 /\ Len(events') = 2 /\ events'[1] = events[1]
    BY <2>1
  <2>3. QED BY <2>1, <2>2, FirstEvents
<1>5. ASSUME Process!AnnounceKill PROVE Grows /\ phase = "running"
  <2>1. /\ events = <<"started", "stop.requested">>
        /\ events' = <<"started", "stop.requested", "kill.sent">>
        /\ phase = "running"
    BY <1>5 DEF Process!AnnounceKill
  <2>2. /\ Len(events) = 2 /\ Len(events') = 3
        /\ events'[1] = events[1] /\ events'[2] = events[2]
    BY <2>1
  <2>3. QED BY <2>1, <2>2, FirstEvents
<1>6. CASE Process!Stop \/ Process!Kill
  <2>1. Grows /\ phase = "running" /\ phase' = phase /\ result' = result
    BY <1>4, <1>5, <1>6 DEF Process!Stop, Process!Kill
  <2>2. QED BY <1>1, <2>1 DEF ProcessInv, Emitted
<1>7. CASE Process!Abort
  <2>1. phase # "returned" /\ phase' = "aborted" /\ result' = result
    BY <1>7 DEF Process!Abort
  <2>2. UNCHANGED events \/ Grows
    BY <1>4, <1>5, <1>7 DEF Process!Abort
  <2>3. CASE UNCHANGED events
    BY <1>1, <2>1, <2>3 DEF ProcessInv
  <2>4. CASE Grows
    BY <1>1, <2>1, <2>4 DEF ProcessInv, Emitted
  <2>5. QED BY <2>2, <2>3, <2>4
<1>8. CASE Process!Return
  <2>1. PICK status \in Process!Statuses :
          result' = {Process!CollectResult(status, Len(events) > 1)}
    BY <1>8 DEF Process!Return
  <2>2. PICK captured \in SUBSET Process!Streams :
          events' = events \o Process!OutputEvents(captured)
    BY <1>8 DEF Process!Return
  <2>3. phase = "running" /\ phase' = "returned"
    BY <1>8 DEF Process!Return
  <2>4. status \in Statuses /\ result' = {CollectResult(status, Len(events) > 1)}
    BY <2>1 DEF Process!Statuses, Statuses, Process!Signals, Signals, Process!SIGTERM,
         SIGTERM, Process!SIGKILL, SIGKILL, Process!SIGSEGV, SIGSEGV,
         Process!CollectResult, CollectResult
  <2>5. captured \in SUBSET Streams /\ events' = events \o OutputEvents(captured)
    BY <2>2 DEF Process!Streams, Streams, Process!OutputEvents, OutputEvents
  <2>6. result' \subseteq ProcessResults
    <3>1. (Len(events) > 1) \in BOOLEAN
      OBVIOUS
    <3>2. CollectResult(status, Len(events) > 1) \in ProcessResults
      BY <2>4, <3>1, CollectFacts
    <3>3. QED BY <2>4, <3>2
  <2>7. /\ Emitted(events)' /\ Len(events) <= Len(events') /\ Len(events') > 0
        /\ \A i \in 1..Len(events) : events'[i] = events[i]
    BY <1>1, <2>3, <2>5, EmittedGrows
  <2>8. QED BY <1>1, <2>3, <2>6, <2>7 DEF ProcessInv, Emitted
<1>9. QED BY <1>2, <1>3, <1>6, <1>7, <1>8

(***************************************************************************)
(* The snapshot.                                                           *)
(***************************************************************************)

LEMMA SnapshotFacts ==
  ASSUME SnapshotInv
  PROVE  /\ Size \in Nat \ {0} /\ DOMAIN execution_order = 1..Size /\ Ids = 0..Size-1
         /\ \A i \in 1..Size : execution_order[i] \in 0..Size-1
         /\ \A i, j \in 1..Size : execution_order[i] = execution_order[j] => i = j
         /\ \A i \in 1..Size : Parents(execution_order[i]) \subseteq Before(i)
         /\ \A n \in Ids : incoming[n] = <<>> \/ \E p \in Ids : incoming[n] = <<p>>
<1>1. /\ Size \in Nat \ {0} /\ DOMAIN execution_order = 1..Size /\ Ids = 0..Size-1
      /\ \A i \in 1..Size : execution_order[i] \in 0..Size-1
      /\ \A n \in Ids : incoming[n] = <<>> \/ \E p \in Ids : incoming[n] = <<p>>
  BY DEF SnapshotInv, Order!IsSnapshot, Ids
<1>2. /\ \A i, j \in 1..Size : execution_order[i] = execution_order[j] => i = j
      /\ \A i \in 1..Size : Parents(execution_order[i]) \subseteq Before(i)
  BY <1>1 DEF SnapshotInv, Order!IsSnapshot, Order!IsInjective, IsInjective, Order!Range, Parents, Range,
         Before
<1>3. QED BY <1>1, <1>2

\* The node that is next has no output yet, and its parents have theirs.
LEMMA NodeFacts ==
  ASSUME SnapshotInv, OrderInv, next <= Size
  PROVE  /\ node_id \in Ids /\ node_id \in Int /\ node_id \notin DOMAIN outputs
         /\ Parents(node_id) \subseteq DOMAIN outputs
         /\ Before(next + 1) = DOMAIN outputs \cup {node_id}
<1>1. /\ next \in 1..Size /\ Size \in Nat /\ DOMAIN outputs = Before(next)
  BY SnapshotFacts DEF OrderInv
<1>2. node_id \in 0..Size-1 /\ node_id \in Ids /\ Parents(node_id) \subseteq Before(next)
  BY <1>1, SnapshotFacts DEF node_id
<1>3. node_id \notin Before(next)
  <2>1. \A j \in 1..next-1 : j \in 1..Size /\ j # next
    BY <1>1
  <2>2. QED BY <1>1, <2>1, SnapshotFacts DEF Before, node_id
<1>4. Before(next + 1) = Before(next) \cup {node_id}
  <2>1. 1..(next + 1)-1 = (1..next-1) \cup {next}
    BY <1>1
  <2>2. QED BY <2>1 DEF Before, node_id
<1>5. node_id \in Int
  BY <1>1, <1>2
<1>6. QED BY <1>1, <1>2, <1>3, <1>4, <1>5

\* When all positions are behind, every node has an output.
LEMMA AllScheduled ==
  ASSUME SnapshotInv, OrderInv, next = Size + 1
  PROVE  DOMAIN outputs = Ids
<1>1. Size \in Nat \ {0} /\ Ids = 0..Size-1 /\ completed_node_count = Size
  BY SnapshotFacts DEF OrderInv
<1>2. IsFiniteSet(Ids) /\ Cardinality(Ids) = Size
  <2>1. 0 \in Int /\ Size - 1 \in Int
    BY <1>1
  <2>2. IsFiniteSet(0..Size-1)
        /\ Cardinality(0..Size-1) = IF 0 > Size-1 THEN 0 ELSE (Size-1)-0+1
    BY <2>1, FS_Interval
  <2>3. QED BY <1>1, <2>2
<1>3. DOMAIN outputs \subseteq Ids
  <2>1. \A j \in 1..next-1 : j \in 1..Size
    BY <1>1
  <2>2. QED BY <1>1, <2>1, SnapshotFacts DEF OrderInv, Before
<1>4. Cardinality(DOMAIN outputs) = Cardinality(Ids)
  BY <1>1, <1>2 DEF OrderInv
<1>5. QED BY <1>2, <1>3, <1>4, FS_Subset

LEMMA SnapshotStays ==
  ASSUME SnapshotInv, UNCHANGED snapshot
  PROVE  /\ SnapshotInv' /\ incoming' = incoming /\ execution_order' = execution_order
         /\ Size' = Size /\ Sinks' = Sinks
         /\ \A n : Parents(n)' = Parents(n)
         /\ \A i : Before(i)' = Before(i)
<1>1. incoming' = incoming /\ execution_order' = execution_order
  BY DEF snapshot
<1>2. QED BY <1>1 DEF SnapshotInv, Size, Sinks, Ids, Parents, Before

(***************************************************************************)
(* Running the nodes.                                                      *)
(***************************************************************************)

LEMMA EmptyLog ==
  /\ <<>> \in Seq(Reports) /\ Len(<<>>) = 0 /\ ReportedDone(<<>>, 0) = {}
<1>1. <<>> \in Seq(Reports) /\ Len(<<>>) = 0 /\ 1..0 = {}
  OBVIOUS
<1>2. QED BY <1>1 DEF ReportedDone

\* What is told of a node stays, unless its process reports.
LEMMA ToldStays ==
  ASSUME log \in Seq(Reports), log' \in Seq(Reports), Len(log) <= Len(log'),
         \A k \in 1..Len(log) : log'[k] = log[k], NEW n,
         \A k \in Len(log)+1..Len(log') : log'[k].scope = "process" => log'[k].subject # n
  PROVE  Told(n)' = Told(n)
<1>1. ReportedOutput(log', n) <=> ReportedOutput(log, n)
  BY OutputStays
<1>2. QED BY <1>1 DEF Told

LEMMA BeginKeepsInv ==
  ASSUME IInv, Begin
  PROVE  IInv'
<1>1. /\ pc = "start" /\ pc' = "node" /\ log' = <<RunStarted>> /\ UNCHANGED snapshot
      /\ next' = next /\ completed_node_count' = completed_node_count /\ outputs' = outputs
      /\ phase' = phase /\ events' = events /\ result' = result
  BY DEF Begin, RunStarted, process
<1>2. /\ log' \in Seq(Reports) /\ WellNested(log)' /\ BetweenItems(log)' /\ Len(log') = 1
  BY <1>1, RunBegins
<1>3. RunStarted.scope = "run" /\ RunStarted.done = 0 /\ log'[1] = RunStarted
  BY <1>1 DEF RunStarted, RunReport, Report
<1>4. next = 1 /\ DOMAIN outputs = {} /\ Cardinality(DOMAIN outputs) = 0
  <2>1. next = 1 /\ DOMAIN outputs = Before(1) /\ 1..1-1 = {}
    BY <1>1 DEF IInv, OrderInv
  <2>2. Before(1) = {}
    BY <2>1 DEF Before
  <2>3. QED BY <2>1, <2>2, FS_EmptySet
<1>5. SnapshotInv' /\ OrderInv' /\ ProcessInv'
  <2>1. SnapshotInv' /\ Size' = Size /\ \A i : Before(i)' = Before(i)
    BY <1>1, SnapshotStays DEF IInv
  <2>2. OrderInv'
    BY <1>1, <2>1 DEF IInv, OrderInv, Labels, Before
  <2>3. QED BY <1>1, <2>1, <2>2 DEF IInv, ProcessInv
<1>6. LogInv'
  BY <1>1, <1>2, <1>3 DEF LogInv
<1>7. CountInv'
  <2>1. 1..Len(log') = {1} /\ ReportedDone(log', 1) = {}
    BY <1>2, <1>3 DEF ReportedDone
  <2>2. QED BY <1>1, <1>2, <1>3, <1>4, <2>1 DEF CountInv
<1>8. OutputInv'
  BY <1>1, <1>4 DEF OutputInv, FedByParent
<1>9. QED BY <1>5, <1>6, <1>7, <1>8 DEF IInv

LEMMA StartKeepsInv ==
  ASSUME IInv, StartNode
  PROVE  IInv'
<1> DEFINE r == ItemReport("started", node_id, completed_node_count, "none")
<1>1. /\ pc = "node" /\ pc' = "process" /\ next <= Size /\ log' = Append(log, r)
      /\ UNCHANGED snapshot /\ stdin_data' = Input(node_id)
      /\ next' = next /\ completed_node_count' = completed_node_count /\ outputs' = outputs
      /\ phase' = "idle" /\ events' = <<>> /\ result' = {}
  BY DEF StartNode, Size
<1>2. /\ SnapshotInv /\ OrderInv /\ log \in Seq(Reports) /\ WellNested(log)
      /\ BetweenItems(log) /\ completed_node_count \in Nat /\ Len(log) \in Nat
      /\ \A k \in 1..Len(log) : log[k].scope = "process" => log[k].subject \in DOMAIN outputs
  <2>1. next \in 1..Size+1 /\ Size \in Nat /\ completed_node_count = next - 1
    BY SnapshotFacts DEF IInv, OrderInv
  <2>2. completed_node_count \in Nat
    BY <2>1
  <2>3. QED BY <1>1, <2>2, LenProperties DEF IInv, LogInv
<1>3. /\ node_id \in Ids /\ node_id \in Int /\ node_id \notin DOMAIN outputs
      /\ Parents(node_id) \subseteq DOMAIN outputs /\ node_id' = node_id
  BY <1>1, <1>2, NodeFacts DEF node_id, snapshot
<1>4. /\ r \in Reports /\ r.scope = "item" /\ r.name = "started" /\ r.subject = node_id
      /\ r.done = completed_node_count
  <2>1. "started" \in Names /\ "none" \in Causes
    BY DEF Names, EventNames, Causes
  <2>2. PICK x \in Int, d \in Nat : x = node_id /\ d = completed_node_count
    BY <1>2, <1>3
  <2>3. r = ItemReport("started", x, d, "none")
    BY <2>2
  <2> HIDE DEF r
  <2>4. /\ r \in Reports /\ r.scope = "item" /\ r.name = "started" /\ r.subject = x
        /\ r.done = d
    BY <2>1, <2>3, ItemReportFacts
  <2>5. QED BY <2>2, <2>4
<1> HIDE DEF r
<1>5. /\ log' \in Seq(Reports) /\ WellNested(log') /\ InItem(log', Len(log) + 1, node_id, <<>>)
  BY <1>1, <1>2, <1>3, <1>4, ItemStarts
<1>6. /\ Len(log') = Len(log) + 1 /\ log'[Len(log) + 1] = r
      /\ \A k \in 1..Len(log) : log'[k] = log[k]
  BY <1>1, <1>2, <1>4, SingleReport
<1>7. Len(log) <= Len(log') /\ \A k \in Len(log)+1..Len(log') : log'[k] = r
  BY <1>2, <1>6
<1>8. SnapshotInv' /\ OrderInv' /\ ProcessInv'
  <2>1. SnapshotInv' /\ Size' = Size /\ \A i : Before(i)' = Before(i)
    BY <1>1, <1>2, SnapshotStays
  <2>2. OrderInv'
    BY <1>1, <1>2, <2>1 DEF OrderInv, Labels, Before
  <2>3. QED BY <1>1, <2>1, <2>2, EmptyIsEmitted DEF ProcessInv
<1>9. LogInv'
  <2>1. PICK n \in Nat : n = Len(log) + 1
    BY <1>2
  <2>2. NodeBegins(n)'
    <3>1. \A k \in 1..n-1 : k \in 1..Len(log)
      BY <1>2, <2>1
    <3>2. \A k \in 1..n-1 : log'[k].scope = "process" => log'[k].subject \in DOMAIN outputs
      BY <1>2, <1>6, <3>1
    <3>3. QED BY <1>1, <1>3, <1>5, <2>1, <3>2 DEF NodeBegins
  <2>3. n \in 1..Len(log')
    BY <1>2, <1>6, <2>1
  <2>4. QED BY <1>1, <1>5, <2>2, <2>3 DEF LogInv
<1>10. CountInv'
  <2>1. ReportedDone(log, Len(log)) = DOMAIN outputs
        /\ \A i \in 1..Len(log) : log[i].scope # "process" =>
             log[i].done = Cardinality(ReportedDone(log, i))
    BY DEF IInv, CountInv
  <2>2. ReportedDone(log', Len(log')) = ReportedDone(log, Len(log))
    BY <1>2, <1>4, <1>5, <1>6, <1>7, DoneUnchanged
  <2>3. ASSUME NEW i \in 1..Len(log'), log'[i].scope # "process"
        PROVE  log'[i].done = Cardinality(ReportedDone(log', i))
    <3>1. CASE i \in 1..Len(log)
      <4>1. ReportedDone(log', i) = ReportedDone(log, i)
        BY <1>2, <1>5, <1>6, <1>7, <3>1, DoneOfPrefix
      <4>2. QED BY <1>6, <2>1, <2>3, <3>1, <4>1
    <3>2. CASE i = Len(log')
      BY <1>2, <1>4, <1>6, <2>1, <2>2, <3>2 DEF OrderInv
    <3>3. QED BY <1>2, <1>6, <3>1, <3>2
  <2>4. QED BY <1>1, <2>1, <2>2, <2>3 DEF CountInv
<1>11. OutputInv'
  <2>1. \A n : Told(n)' = Told(n)
    BY <1>2, <1>4, <1>5, <1>6, <1>7, ToldStays
  <2>2. \A n \in DOMAIN outputs : outputs[n] = Told(n)
    BY DEF IInv, OutputInv
  <2>3. FedByParent'
    <3>1. CASE incoming[node_id] = <<>>
      BY <1>1, <1>3, <3>1 DEF FedByParent, Input, snapshot
    <3>2. CASE incoming[node_id] # <<>>
      <4>1. PICK p \in Ids : incoming[node_id] = <<p>>
        BY <1>2, <1>3, <3>2, SnapshotFacts
      <4>2. p \in Parents(node_id)
        BY <4>1 DEF Parents, Range
      <4>3. stdin_data' = outputs[p]
        BY <1>1, <3>2, <4>1 DEF Input
      <4>4. outputs[p] = Told(p)
        BY <1>3, <2>2, <4>2
      <4>5. p \in Parents(node_id)' /\ stdin_data' = Told(p)'
        BY <1>1, <1>2, <1>3, <2>1, <4>2, <4>3, <4>4, SnapshotStays
      <4>6. QED BY <4>5 DEF FedByParent, Told
    <3>3. QED BY <3>1, <3>2
  <2>4. QED BY <1>1, <2>1, <2>2, <2>3 DEF OutputInv
<1>12. QED BY <1>8, <1>9, <1>10, <1>11 DEF IInv

LEMMA RunKeepsInv ==
  ASSUME IInv, RunProcess \/ AbortNode
  PROVE  IInv'
<1>1. /\ pc = "process" /\ pc' \in {"process", "aborted"} /\ UNCHANGED snapshot
      /\ next' = next /\ completed_node_count' = completed_node_count
      /\ outputs' = outputs /\ stdin_data' = stdin_data
      /\ log' = log \o ProcessReports(node_id, SubSeq(events', Len(events) + 1, Len(events')))
      /\ ProcessInv' /\ events \in Seq(EventNames) /\ events' \in Seq(EventNames)
      /\ Len(events) <= Len(events') /\ \A i \in 1..Len(events) : events'[i] = events[i]
  BY ProcessSteps DEF RunProcess, AbortNode, NewEvents, IInv
<1>2. /\ SnapshotInv /\ OrderInv /\ log \in Seq(Reports) /\ WellNested(log)
      /\ Len(log) \in Nat /\ next <= Size
      /\ \E n \in 1..Len(log) : NodeBegins(n)
  BY <1>1, LenProperties DEF IInv, LogInv, OrderInv
<1>3. /\ node_id \in Int /\ node_id \notin DOMAIN outputs
      /\ Parents(node_id) \subseteq DOMAIN outputs /\ node_id' = node_id
  BY <1>1, <1>2, NodeFacts DEF node_id, snapshot
<1>4. PICK n \in 1..Len(log) : NodeBegins(n)
  BY <1>2
<1>5. InItem(log, n, node_id, events)
      /\ \A k \in 1..n-1 : log[k].scope = "process" => log[k].subject \in DOMAIN outputs
  BY <1>4 DEF NodeBegins
<1>6. /\ log' \in Seq(Reports) /\ WellNested(log') /\ InItem(log', n, node_id, events')
      /\ Len(log) <= Len(log') /\ \A k \in 1..Len(log) : log'[k] = log[k]
      /\ \A k \in Len(log)+1..Len(log') : log'[k].scope = "process" /\ log'[k].subject = node_id
  <2>1. PICK x \in Int : x = node_id
    BY <1>3
  <2>2. PICK was \in Seq(EventNames), now \in Seq(EventNames) : was = events /\ now = events'
    BY <1>1
  <2> DEFINE new == log \o ProcessReports(x, SubSeq(now, Len(was) + 1, Len(now)))
  <2>3. /\ new \in Seq(Reports) /\ WellNested(new) /\ InItem(new, n, x, now)
        /\ Len(log) <= Len(new) /\ \A k \in 1..Len(log) : new[k] = log[k]
        /\ \A k \in Len(log)+1..Len(new) : new[k].scope = "process" /\ new[k].subject = x
    <3>1. GoesOn(log, n, x, was, now)
      BY <1>1, <1>2, <1>5, <2>1, <2>2 DEF GoesOn
    <3>2. QED BY <3>1, ItemGoesOn
  <2>4. log' = new
    BY <1>1, <2>1, <2>2
  <2> HIDE DEF new
  <2>5. QED BY <2>1, <2>2, <2>3, <2>4
<1>7. Len(log') \in Nat /\ n \in 1..Len(log')
  BY <1>2, <1>6, LenProperties
<1>8. SnapshotInv' /\ OrderInv'
  <2>1. SnapshotInv' /\ Size' = Size /\ \A i : Before(i)' = Before(i)
    BY <1>1, <1>2, SnapshotStays
  <2>2. QED BY <1>1, <1>2, <2>1 DEF OrderInv, Labels, Before
<1>9. LogInv'
  <2>1. \A k \in 1..n-1 : log'[k].scope = "process" => log'[k].subject \in DOMAIN outputs
    <3>1. \A k \in 1..n-1 : k \in 1..Len(log)
      BY <1>2
    <3>2. QED BY <1>5, <1>6, <3>1
  <2>2. NodeBegins(n)'
    BY <1>1, <1>3, <1>6, <2>1 DEF NodeBegins
  <2>3. QED BY <1>1, <1>6, <1>7, <2>2 DEF LogInv
<1>10. CountInv'
  <2>1. ReportedDone(log, Len(log)) = DOMAIN outputs
        /\ \A i \in 1..Len(log) : log[i].scope # "process" =>
             log[i].done = Cardinality(ReportedDone(log, i))
    BY DEF IInv, CountInv
  <2>2. ReportedDone(log', Len(log')) = ReportedDone(log, Len(log))
    BY <1>2, <1>6, DoneUnchanged
  <2>3. ASSUME NEW i \in 1..Len(log'), log'[i].scope # "process"
        PROVE  log'[i].done = Cardinality(ReportedDone(log', i))
    <3>1. i \in 1..Len(log)
      BY <1>2, <1>6, <1>7, <2>3
    <3>2. ReportedDone(log', i) = ReportedDone(log, i)
      BY <1>2, <1>6, <3>1, DoneOfPrefix
    <3>3. QED BY <1>6, <2>1, <2>3, <3>1, <3>2
  <2>4. QED BY <1>1, <2>1, <2>2, <2>3 DEF CountInv
<1>11. OutputInv'
  <2>1. \A m \in DOMAIN outputs : Told(m)' = Told(m)
    <3> TAKE m \in DOMAIN outputs
    <3>1. \A k \in Len(log)+1..Len(log') : log'[k].subject # m
      BY <1>3, <1>6
    <3>2. QED BY <1>2, <1>6, <3>1, ToldStays
  <2>2. \A m \in DOMAIN outputs : outputs[m] = Told(m)
    BY DEF IInv, OutputInv
  <2>3. FedByParent'
    <3>1. FedByParent
      BY DEF IInv, OutputInv
    <3>2. CASE incoming[node_id] = <<>> /\ stdin_data = NoOutput
      BY <1>1, <1>3, <3>2 DEF FedByParent, snapshot
    <3>3. CASE \E p \in Parents(node_id) : stdin_data = Told(p)
      <4>1. PICK p \in Parents(node_id) : stdin_data = Told(p)
        BY <3>3
      <4>2. p \in Parents(node_id)' /\ stdin_data' = Told(p)'
        BY <1>1, <1>2, <1>3, <2>1, <4>1, SnapshotStays
      <4>3. QED BY <4>2 DEF FedByParent, Told
    <3>4. QED BY <1>1, <3>1, <3>2, <3>3 DEF FedByParent, Told
  <2>4. QED BY <1>1, <2>1, <2>2, <2>3 DEF OutputInv
<1>12. QED BY <1>1, <1>8, <1>9, <1>10, <1>11 DEF IInv

\* The process of the node has returned.
LEMMA NodeReturned ==
  ASSUME IInv, pc = "process", NEW res \in result
  PROVE  /\ res \in ProcessResults /\ Emitted(events) /\ Len(events) > 0
         /\ SnapshotInv /\ OrderInv /\ next <= Size
         /\ completed_node_count \in Nat /\ completed_node_count = next - 1
         /\ log \in Seq(Reports) /\ WellNested(log) /\ Len(log) \in Nat
         /\ node_id \in Ids /\ node_id \in Int /\ node_id \notin DOMAIN outputs
         /\ Before(next + 1) = DOMAIN outputs \cup {node_id}
         /\ \E n \in Nat : n \in 1..Len(log) /\ NodeBegins(n)
<1>1. /\ res \in ProcessResults /\ Emitted(events) /\ Len(events) > 0
      /\ SnapshotInv /\ OrderInv /\ next <= Size
      /\ log \in Seq(Reports) /\ WellNested(log) /\ Len(log) \in Nat
  BY LenProperties DEF IInv, OrderInv, ProcessInv, LogInv
<1>2. completed_node_count \in Nat /\ completed_node_count = next - 1
  BY <1>1, SnapshotFacts DEF OrderInv
<1>3. PICK n \in 1..Len(log) : NodeBegins(n)
  BY DEF IInv, LogInv
<1>4. n \in Nat /\ n \in 1..Len(log)
  BY <1>1, <1>3
<1>5. QED BY <1>1, <1>2, <1>3, <1>4, NodeFacts

LEMMA CompleteNodeKeepsInv ==
  ASSUME IInv, CompleteNode
  PROVE  IInv'
<1>1. PICK res \in result : log' = log \o <<ProcessEnd(node_id, res), Completion>>
  BY DEF CompleteNode
<1>2. /\ pc = "process" /\ pc' = "node" /\ UNCHANGED snapshot /\ next' = next + 1
      /\ completed_node_count' = completed_node_count + 1
      /\ outputs' = [n \in DOMAIN outputs \cup {node_id} |->
                       IF n = node_id THEN Captured ELSE outputs[n]]
      /\ phase' = phase /\ events' = events /\ result' = result
  BY DEF CompleteNode, Entered, process
<1>3. /\ res \in ProcessResults /\ Emitted(events) /\ Len(events) > 0
      /\ SnapshotInv /\ OrderInv /\ next <= Size
      /\ completed_node_count \in Nat /\ completed_node_count = next - 1
      /\ log \in Seq(Reports) /\ WellNested(log) /\ Len(log) \in Nat
      /\ node_id \in Ids /\ node_id \in Int /\ node_id \notin DOMAIN outputs
      /\ Before(next + 1) = DOMAIN outputs \cup {node_id}
      /\ \E n \in Nat : n \in 1..Len(log) /\ NodeBegins(n)
  BY <1>1, <1>2, NodeReturned
<1>4. PICK n \in Nat : n \in 1..Len(log) /\ NodeBegins(n)
  BY <1>3
<1>5. PICK x \in Int : x = node_id
  BY <1>3
<1>6. /\ InItem(log, n, x, events)
      /\ \A k \in 1..n-1 : log[k].scope = "process" => log[k].subject \in DOMAIN outputs
  BY <1>4, <1>5 DEF NodeBegins
<1>7. PICK r1 \in Reports : r1 = ProcessEnd(x, res) /\ r1.scope = "process"
                            /\ r1.subject = x /\ Closes(r1) /\ ~Opens(r1)
  BY <1>3, ProcessEndFacts
<1>8. PICK r2 \in Reports :
        /\ r2 = Completion /\ r2.scope = "item" /\ r2.name = "completed" /\ r2.subject = x
        /\ r2.done = completed_node_count + 1 /\ Closes(r2) /\ ~Opens(r2)
  <2> DEFINE r == ItemReport("completed", x, completed_node_count + 1, "exit_zero")
  <2>1. "completed" \in Names /\ "exit_zero" \in Causes /\ completed_node_count + 1 \in Nat
    BY <1>3 DEF Names, Causes, TerminalCauses
  <2>2. /\ r \in Reports /\ r.scope = "item" /\ r.name = "completed"
        /\ r.subject = x /\ r.done = completed_node_count + 1
    BY <2>1, ItemReportFacts
  <2>3. r = Completion
    BY <1>5 DEF Completion
  <2> HIDE DEF r
  <2>4. QED BY <2>2, <2>3 DEF Closes, Opens
<1>9. log' = Append(Append(log, r1), r2)
  <2>1. log' = log \o <<r1, r2>>
    BY <1>1, <1>5, <1>7, <1>8
  <2>2. QED BY <1>3, <2>1, SeveralReports
<1>10. /\ log' \in Seq(Reports) /\ WellNested(log') /\ BetweenItems(log')
       /\ Len(log') = Len(log) + 2 /\ \A k \in 1..Len(log) : log'[k] = log[k]
       /\ log'[Len(log) + 1] = r1 /\ log'[Len(log) + 2] = r2
  BY <1>3, <1>6, <1>7, <1>8, <1>9, ItemEnds
<1>11. Len(log) <= Len(log') /\ \A k \in Len(log)+1..Len(log') : log'[k] = r1 \/ log'[k] = r2
  BY <1>3, <1>10
<1>12. DOMAIN outputs' = DOMAIN outputs \cup {node_id}
  BY <1>2
<1>13. IsFiniteSet(DOMAIN outputs')
       /\ Cardinality(DOMAIN outputs') = completed_node_count + 1
  <2>1. PICK S : S = DOMAIN outputs
    OBVIOUS
  <2>2. IsFiniteSet(S) /\ Cardinality(S) = completed_node_count /\ x \notin S
    BY <1>3, <1>5, <2>1 DEF OrderInv
  <2>3. IsFiniteSet(S \cup {x}) /\ Cardinality(S \cup {x}) = Cardinality(S) + 1
    BY <2>2, FS_AddElement
  <2>4. DOMAIN outputs' = S \cup {x}
    BY <1>5, <1>12, <2>1
  <2>5. QED BY <2>2, <2>3, <2>4
<1>14. SnapshotInv' /\ OrderInv' /\ ProcessInv'
  <2>1. /\ SnapshotInv' /\ execution_order' = execution_order /\ Size' = Size
    BY <1>2, <1>3, SnapshotStays
  <2>2. Before(next)' = Before(next + 1)
    BY <1>2, <2>1 DEF Before
  <2>3. next' \in 1..Size+1 /\ completed_node_count' = next' - 1
    BY <1>2, <1>3, SnapshotFacts DEF OrderInv
  <2>4. OrderInv'
    BY <1>2, <1>3, <1>12, <1>13, <2>1, <2>2, <2>3 DEF OrderInv, Labels
  <2>5. QED BY <1>2, <2>1, <2>4 DEF IInv, ProcessInv
<1>15. LogInv'
  <2>1. ASSUME NEW k \in 1..Len(log'), log'[k].scope = "process"
        PROVE  log'[k].subject \in DOMAIN outputs'
    <3>1. CASE k \in 1..n-1
      <4>1. k \in 1..Len(log)
        BY <1>4, <3>1
      <4>2. QED BY <1>6, <1>10, <1>12, <2>1, <3>1, <4>1
    <3>2. CASE k \in n..Len(log)
      <4>1. log[k].subject = x /\ k \in 1..Len(log)
        BY <1>3, <1>4, <1>6, <3>2, ItemSubjects
      <4>2. QED BY <1>5, <1>10, <1>12, <4>1
    <3>3. CASE k = Len(log) + 1 \/ k = Len(log) + 2
      BY <1>5, <1>7, <1>8, <1>10, <1>12, <3>3
    <3>4. \/ k \in 1..n-1 \/ k \in n..Len(log) \/ k = Len(log) + 1 \/ k = Len(log) + 2
      BY <1>3, <1>4, <1>10, SMTT(30)
    <3>5. QED BY <3>1, <3>2, <3>3, <3>4
  <2>2. QED BY <1>2, <1>10, <2>1 DEF LogInv
<1>16. CountInv'
  <2>1. ReportedDone(log, Len(log)) = DOMAIN outputs
        /\ \A i \in 1..Len(log) : log[i].scope # "process" =>
             log[i].done = Cardinality(ReportedDone(log, i))
    BY DEF IInv, CountInv
  <2>2. ReportedDone(log', Len(log')) = DOMAIN outputs'
    <3>1. ReportedDone(log', Len(log')) = ReportedDone(log, Len(log)) \cup {x}
      <4>1. PICK new \in Seq(Reports) : new = log'
        BY <1>10
      <4>2. /\ Len(new) = Len(log) + 2 /\ \A k \in 1..Len(log) : new[k] = log[k]
            /\ new[Len(log) + 1].scope = "process" /\ new[Len(log) + 2].scope = "item"
            /\ new[Len(log) + 2].name = "completed" /\ new[Len(log) + 2].subject = x
        BY <1>7, <1>8, <1>10, <4>1
      <4>3. ReportedDone(new, Len(new)) = ReportedDone(log, Len(log)) \cup {x}
        BY <1>3, <4>2, ItemDone
      <4>4. QED BY <4>1, <4>3
    <3>2. QED BY <1>5, <1>12, <2>1, <3>1
  <2>3. ASSUME NEW i \in 1..Len(log'), log'[i].scope # "process"
        PROVE  log'[i].done = Cardinality(ReportedDone(log', i))
    <3>1. CASE i \in 1..Len(log)
      <4>1. ReportedDone(log', i) = ReportedDone(log, i)
        BY <1>3, <1>10, <1>11, <3>1, DoneOfPrefix
      <4>2. QED BY <1>10, <2>1, <2>3, <3>1, <4>1
    <3>2. CASE i = Len(log')
      BY <1>8, <1>10, <1>13, <2>2, <3>2
    <3>3. i # Len(log) + 1
      BY <1>7, <1>10, <2>3
    <3>4. QED BY <1>3, <1>10, <3>1, <3>2, <3>3
  <2>4. QED BY <2>2, <2>3 DEF CountInv
<1>17. OutputInv'
  <2>1. ASSUME NEW m \in DOMAIN outputs
        PROVE  outputs'[m] = Told(m)'
    <3>1. m # x
      BY <1>3, <1>5
    <3>2. \A k \in Len(log)+1..Len(log') : log'[k].scope = "process" => log'[k].subject # m
      BY <1>7, <1>8, <1>11, <3>1
    <3>3. Told(m)' = Told(m)
      BY <1>3, <1>10, <1>11, <3>2, ToldStays
    <3>4. outputs[m] = Told(m)
      BY DEF IInv, OutputInv
    <3>5. QED BY <1>2, <1>5, <3>1, <3>3, <3>4
  <2>2. outputs'[x] = Told(x)'
    <3>1. \A k \in 1..n-1 : log[k].scope = "process" => log[k].subject # x
      BY <1>3, <1>5, <1>6
    <3>2. EndsItem(log, n, x, events, log')
      BY <1>3, <1>6, <1>7, <1>8, <1>10, <3>1 DEF EndsItem
    <3>3. ReportedOutput(log', x) <=> \E i \in DOMAIN events : events[i] = "output.stdout"
      BY <1>3, <1>10, <3>2, ItemOutput
    <3>4. outputs'[x] = IF \E i \in DOMAIN events : events[i] = "output.stdout"
                        THEN x ELSE NoOutput
      BY <1>2, <1>5 DEF Captured, Range
    <3>5. QED BY <3>3, <3>4 DEF Told
  <2>3. \A m \in DOMAIN outputs' : outputs'[m] = Told(m)'
    BY <1>5, <1>12, <2>1, <2>2
  <2>4. QED BY <1>2, <2>3 DEF OutputInv, FedByParent
<1>18. QED BY <1>14, <1>15, <1>16, <1>17 DEF IInv

LEMMA FailNodeKeepsInv ==
  ASSUME IInv, FailNode
  PROVE  IInv'
<1>1. PICK res \in result :
        log' = log \o <<ProcessEnd(node_id, res),
                        ItemReport("failed", node_id, completed_node_count, res.terminal_cause),
                        RunReport("failed", completed_node_count, res.terminal_cause)>>
  BY DEF FailNode
<1>2. /\ pc = "process" /\ pc' = "failed" /\ UNCHANGED snapshot /\ next' = next
      /\ completed_node_count' = completed_node_count /\ outputs' = outputs
      /\ phase' = phase /\ events' = events /\ result' = result
  BY DEF FailNode, process
<1>3. /\ res \in ProcessResults /\ Emitted(events) /\ Len(events) > 0
      /\ SnapshotInv /\ OrderInv /\ next <= Size
      /\ completed_node_count \in Nat /\ completed_node_count = next - 1
      /\ log \in Seq(Reports) /\ WellNested(log) /\ Len(log) \in Nat
      /\ node_id \in Ids /\ node_id \in Int /\ node_id \notin DOMAIN outputs
      /\ \E n \in Nat : n \in 1..Len(log) /\ NodeBegins(n)
  BY <1>1, <1>2, NodeReturned
<1>4. PICK n \in Nat : n \in 1..Len(log) /\ NodeBegins(n)
  BY <1>3
<1>5. PICK x \in Int : x = node_id
  BY <1>3
<1>6. InItem(log, n, x, events)
  BY <1>4, <1>5 DEF NodeBegins
<1>7. PICK r1 \in Reports : r1 = ProcessEnd(x, res) /\ r1.scope = "process"
                            /\ r1.subject = x /\ Closes(r1) /\ ~Opens(r1)
  BY <1>3, ProcessEndFacts
<1>8. PICK cause \in Causes : cause = res.terminal_cause
  BY <1>3 DEF Causes, ProcessResults
<1>9. PICK r2 \in Reports :
        /\ r2 = ItemReport("failed", x, completed_node_count, cause) /\ r2.scope = "item"
        /\ r2.name = "failed" /\ r2.done = completed_node_count /\ r2.subject = x
        /\ Closes(r2) /\ ~Opens(r2)
  <2> DEFINE r == ItemReport("failed", x, completed_node_count, cause)
  <2>1. "failed" \in Names
    BY DEF Names
  <2>2. /\ r \in Reports /\ r.scope = "item" /\ r.name = "failed"
        /\ r.done = completed_node_count /\ r.subject = x
    BY <1>3, <2>1, ItemReportFacts
  <2>3. r = ItemReport("failed", x, completed_node_count, cause)
    OBVIOUS
  <2> HIDE DEF r
  <2>4. QED BY <2>2, <2>3 DEF Closes, Opens
<1>10. PICK r3 \in Reports :
         /\ r3 = RunReport("failed", completed_node_count, cause) /\ r3.scope = "run"
         /\ r3.name = "failed" /\ r3.done = completed_node_count /\ r3.subject = RunSubject
         /\ Closes(r3) /\ ~Opens(r3)
  <2> DEFINE r == RunReport("failed", completed_node_count, cause)
  <2>1. "failed" \in Names
    BY DEF Names
  <2>2. /\ r \in Reports /\ r.scope = "run" /\ r.name = "failed"
        /\ r.done = completed_node_count /\ r.subject = RunSubject
    BY <1>3, <2>1, RunReportFacts
  <2>3. r = RunReport("failed", completed_node_count, cause)
    OBVIOUS
  <2> HIDE DEF r
  <2>4. QED BY <2>2, <2>3 DEF Closes, Opens
<1> DEFINE mid == Append(Append(log, r1), r2)
<1>11. log' = Append(mid, r3)
  <2>1. log' = log \o <<r1, r2, r3>>
    BY <1>1, <1>5, <1>7, <1>8, <1>9, <1>10
  <2>2. QED BY <1>3, <2>1, SeveralReports
<1>12. /\ mid \in Seq(Reports) /\ WellNested(mid) /\ BetweenItems(mid)
       /\ Len(mid) = Len(log) + 2 /\ \A k \in 1..Len(log) : mid[k] = log[k]
       /\ mid[Len(log) + 1] = r1 /\ mid[Len(log) + 2] = r2
  BY <1>3, <1>6, <1>7, <1>9, ItemEnds
<1> HIDE DEF mid
<1>13. /\ log' \in Seq(Reports) /\ WellNested(log') /\ AllClosed(log')
       /\ Len(log') = Len(mid) + 1 /\ \A k \in 1..Len(mid) : log'[k] = mid[k]
       /\ log'[Len(mid) + 1] = r3
  BY <1>10, <1>11, <1>12, RunEnds
<1>14. /\ Len(log') = Len(log) + 3 /\ \A k \in 1..Len(log) : log'[k] = log[k]
       /\ log'[Len(log) + 1] = r1 /\ log'[Len(log) + 2] = r2 /\ log'[Len(log) + 3] = r3
       /\ Len(log) <= Len(log')
  <2>1. \A k \in 1..Len(log) : k \in 1..Len(mid)
    BY <1>3, <1>12
  <2>2. /\ Len(log) + 1 \in 1..Len(mid) /\ Len(log) + 2 \in 1..Len(mid)
        /\ Len(mid) + 1 = Len(log) + 3 /\ Len(log) <= Len(log) + 3
    BY <1>3, <1>12
  <2>3. QED BY <1>12, <1>13, <2>1, <2>2
<1>15. SnapshotInv' /\ OrderInv' /\ ProcessInv'
  <2>1. SnapshotInv' /\ Size' = Size /\ \A i : Before(i)' = Before(i)
    BY <1>2, <1>3, SnapshotStays
  <2>2. OrderInv'
    BY <1>2, <1>3, <2>1 DEF OrderInv, Labels, Before
  <2>3. QED BY <1>2, <2>1, <2>2 DEF IInv, ProcessInv
<1>16. LogInv'
  BY <1>2, <1>13 DEF LogInv
<1>17. CountInv'
  <2>1. ReportedDone(log, Len(log)) = DOMAIN outputs
        /\ Cardinality(DOMAIN outputs) = completed_node_count
        /\ \A i \in 1..Len(log) : log[i].scope # "process" =>
             log[i].done = Cardinality(ReportedDone(log, i))
    BY <1>3 DEF IInv, CountInv, OrderInv
  <2>2. ReportedDone(mid, Len(mid)) = ReportedDone(log, Len(log))
    <3>1. Len(log) <= Len(mid) /\ \A k \in Len(log)+1..Len(mid) : mid[k] = r1 \/ mid[k] = r2
      BY <1>3, <1>12, SMTT(30)
    <3>2. QED BY <1>3, <1>7, <1>9, <1>12, <3>1, DoneUnchanged
  <2>3. /\ ReportedDone(log', Len(log) + 3) = ReportedDone(log, Len(log))
        /\ ReportedDone(log', Len(log) + 2) = ReportedDone(log, Len(log))
    <3>1. Len(mid) <= Len(log') /\ Len(mid) \in 1..Len(mid)
          /\ \A k \in Len(mid)+1..Len(log') : log'[k] = r3
      BY <1>3, <1>12, <1>13, <1>14
    <3>2. ReportedDone(log', Len(log')) = ReportedDone(mid, Len(mid))
      BY <1>10, <1>12, <1>13, <3>1, DoneUnchanged
    <3>3. ReportedDone(log', Len(mid)) = ReportedDone(mid, Len(mid))
      BY <1>12, <1>13, <3>1, DoneOfPrefix
    <3>4. QED BY <1>12, <1>14, <2>2, <3>2, <3>3
  <2>4. ASSUME NEW i \in 1..Len(log'), log'[i].scope # "process"
        PROVE  log'[i].done = Cardinality(ReportedDone(log', i))
    <3>1. CASE i \in 1..Len(log)
      <4>1. ReportedDone(log', i) = ReportedDone(log, i)
        BY <1>3, <1>13, <1>14, <3>1, DoneOfPrefix
      <4>2. QED BY <1>14, <2>1, <2>4, <3>1, <4>1
    <3>2. CASE i = Len(log) + 2 \/ i = Len(log) + 3
      BY <1>9, <1>10, <1>14, <2>1, <2>3, <3>2
    <3>3. i # Len(log) + 1
      BY <1>7, <1>14, <2>4
    <3>4. QED BY <1>3, <1>14, <3>1, <3>2, <3>3
  <2>5. QED BY <1>2, <1>14, <2>1, <2>3, <2>4 DEF CountInv
<1>18. OutputInv'
  <2>1. ASSUME NEW m \in DOMAIN outputs
        PROVE  outputs[m] = Told(m)'
    <3>1. m # x
      BY <1>3, <1>5
    <3>2. \A k \in Len(log)+1..Len(log') : log'[k] = r1 \/ log'[k] = r2 \/ log'[k] = r3
      BY <1>3, <1>14, SMTT(30)
    <3>3. \A k \in Len(log)+1..Len(log') : log'[k].scope = "process" => log'[k].subject # m
      BY <1>7, <1>9, <1>10, <3>1, <3>2
    <3>4. Told(m)' = Told(m)
      BY <1>3, <1>13, <1>14, <3>3, ToldStays
    <3>5. QED BY <3>4 DEF IInv, OutputInv
  <2>2. QED BY <1>2, <2>1 DEF OutputInv, FedByParent
<1>19. QED BY <1>15, <1>16, <1>17, <1>18 DEF IInv

LEMMA CompleteKeepsInv ==
  ASSUME IInv, Complete
  PROVE  IInv'
<1> DEFINE r == RunReport("completed", Size, "exit_zero")
<1>1. /\ pc = "node" /\ pc' = "completed" /\ next > Size /\ log' = Append(log, r)
      /\ UNCHANGED snapshot /\ next' = next /\ completed_node_count' = completed_node_count
      /\ outputs' = outputs /\ rendered' = [s \in Sinks |-> outputs[s]]
      /\ phase' = phase /\ events' = events /\ result' = result
  BY DEF Complete, Shown, process, Size
<1>2. /\ SnapshotInv /\ OrderInv /\ log \in Seq(Reports) /\ WellNested(log)
      /\ BetweenItems(log) /\ Size \in Nat /\ Len(log) \in Nat
      /\ next = Size + 1 /\ completed_node_count = Size
  <2>1. next \in 1..Size+1 /\ Size \in Nat /\ completed_node_count = next - 1
    BY SnapshotFacts DEF IInv, OrderInv
  <2>2. next = Size + 1 /\ completed_node_count = Size
    BY <1>1, <2>1
  <2>3. QED BY <1>1, <2>1, <2>2, LenProperties DEF IInv, LogInv
<1>3. /\ r \in Reports /\ r.scope = "run" /\ r.name = "completed" /\ r.subject = RunSubject
      /\ r.done = Size /\ Closes(r) /\ ~Opens(r)
  <2>1. "completed" \in Names /\ "exit_zero" \in Causes
    BY DEF Names, Causes, TerminalCauses
  <2>2. /\ r \in Reports /\ r.scope = "run" /\ r.name = "completed"
        /\ r.subject = RunSubject /\ r.done = Size
    BY <1>2, <2>1, RunReportFacts
  <2> HIDE DEF r
  <2>3. QED BY <2>2 DEF Closes, Opens
<1> HIDE DEF r
<1>4. /\ log' \in Seq(Reports) /\ WellNested(log') /\ AllClosed(log')
      /\ Len(log') = Len(log) + 1 /\ \A k \in 1..Len(log) : log'[k] = log[k]
      /\ log'[Len(log) + 1] = r
  BY <1>1, <1>2, <1>3, RunEnds
<1>5. Len(log) <= Len(log') /\ \A k \in Len(log)+1..Len(log') : log'[k] = r
  BY <1>2, <1>4
<1>6. SnapshotInv' /\ OrderInv' /\ ProcessInv'
  <2>1. SnapshotInv' /\ Size' = Size /\ \A i : Before(i)' = Before(i)
    BY <1>1, <1>2, SnapshotStays
  <2>2. OrderInv'
    BY <1>1, <1>2, <2>1 DEF OrderInv, Labels, Before
  <2>3. QED BY <1>1, <2>1, <2>2 DEF IInv, ProcessInv
<1>7. LogInv'
  BY <1>1, <1>4 DEF LogInv
<1>8. CountInv'
  <2>1. ReportedDone(log, Len(log)) = DOMAIN outputs
        /\ Cardinality(DOMAIN outputs) = Size
        /\ \A i \in 1..Len(log) : log[i].scope # "process" =>
             log[i].done = Cardinality(ReportedDone(log, i))
    BY <1>2 DEF IInv, CountInv, OrderInv
  <2>2. ReportedDone(log', Len(log')) = ReportedDone(log, Len(log))
    BY <1>2, <1>3, <1>4, <1>5, DoneUnchanged
  <2>3. ASSUME NEW i \in 1..Len(log'), log'[i].scope # "process"
        PROVE  log'[i].done = Cardinality(ReportedDone(log', i))
    <3>1. CASE i \in 1..Len(log)
      <4>1. ReportedDone(log', i) = ReportedDone(log, i)
        BY <1>2, <1>4, <1>5, <3>1, DoneOfPrefix
      <4>2. QED BY <1>4, <2>1, <2>3, <3>1, <4>1
    <3>2. CASE i = Len(log')
      BY <1>2, <1>3, <1>4, <2>1, <2>2, <3>2
    <3>3. QED BY <1>2, <1>4, <3>1, <3>2
  <2>4. QED BY <1>1, <2>1, <2>2, <2>3 DEF CountInv
<1>9. OutputInv'
  <2>1. \A m : Told(m)' = Told(m)
    BY <1>2, <1>3, <1>4, <1>5, ToldStays
  <2>2. Sinks' = Sinks
    BY <1>1, <1>2, SnapshotStays
  <2>3. QED BY <1>1, <2>1, <2>2 DEF IInv, OutputInv, FedByParent
<1>10. QED BY <1>6, <1>7, <1>8, <1>9 DEF IInv

LEMMA InvStutters ==
  ASSUME IInv, UNCHANGED vars
  PROVE  IInv'
<1>1. /\ incoming' = incoming /\ execution_order' = execution_order /\ pc' = pc
      /\ next' = next /\ completed_node_count' = completed_node_count
      /\ outputs' = outputs /\ rendered' = rendered /\ log' = log
      /\ stdin_data' = stdin_data
      /\ phase' = phase /\ events' = events /\ result' = result
  BY DEF vars, snapshot, process
<1>2. SnapshotInv' /\ OrderInv' /\ ProcessInv'
  BY <1>1 DEF IInv, SnapshotInv, OrderInv, ProcessInv, Size, Before
<1>3. LogInv' /\ CountInv'
  BY <1>1 DEF IInv, LogInv, CountInv, NodeBegins, node_id
<1>4. OutputInv'
  BY <1>1 DEF IInv, OutputInv, FedByParent, Told, node_id, Parents, Sinks, Ids
<1>5. QED BY <1>2, <1>3, <1>4 DEF IInv

LEMMA NextKeepsInv == IInv /\ [Next]_vars => IInv'
BY BeginKeepsInv, StartKeepsInv, RunKeepsInv, CompleteNodeKeepsInv,
   FailNodeKeepsInv, CompleteKeepsInv, InvStutters DEF Next, Done

LEMMA FirstRun == Init => IInv
<1> SUFFICES ASSUME Init PROVE IInv
  OBVIOUS
<1>1. /\ pc = "start" /\ next = 1 /\ completed_node_count = 0
      /\ outputs = [n \in {} |-> NoOutput] /\ log = <<>>
      /\ phase = "idle" /\ events = <<>> /\ result = {}
  BY DEF Init, Process!Init
<1>2. SnapshotInv
  <2>1. PICK n \in 1..MaxNodes : /\ Order!IsSnapshot(n, incoming, execution_order)
                                 /\ execution_order \in [1..n -> 0..n-1]
    BY DEF Init, Order!IsSnapshot
  <2>2. n \in Nat \ {0}
    BY <2>1, MaxNodesAssumption
  <2>3. execution_order \in Seq(0..n-1) /\ DOMAIN execution_order = 1..n
    BY <2>1, <2>2, SeqDef
  <2>4. Len(execution_order) = n
    <3>1. Len(execution_order) \in Nat /\ DOMAIN execution_order = 1..Len(execution_order)
      BY <2>3, LenProperties
    <3>2. QED BY <2>2, <2>3, <3>1
  <2>5. QED BY <2>1, <2>2, <2>4 DEF SnapshotInv, Size
<1>3. DOMAIN outputs = {}
  BY <1>1
<1>4. OrderInv
  <2>1. Before(1) = {} /\ 1 \in 1..Size+1
    BY <1>2, SnapshotFacts DEF Before
  <2>2. QED BY <1>1, <1>3, <2>1, FS_EmptySet DEF OrderInv, Labels
<1>5. ProcessInv
  BY <1>1, EmptyIsEmitted DEF ProcessInv
<1>6. LogInv /\ CountInv
  <2>1. 1..Len(log) = {}
    BY <1>1, EmptyLog
  <2>2. QED BY <1>1, <1>3, <2>1, EmptyLog, EmptyIsNested DEF LogInv, CountInv
<1>7. OutputInv
  BY <1>1, <1>3 DEF OutputInv, FedByParent
<1>8. QED BY <1>2, <1>4, <1>5, <1>6, <1>7 DEF IInv

\* The inductive invariant of execute_snapshot_outputs: who has an output, what has
\* been reported so far, and where the current node began in it.
THEOREM Inductive == Spec => []IInv
<1>1. QED BY FirstRun, NextKeepsInv, PTL DEF Spec

(***************************************************************************)
(* The properties.                                                         *)
(***************************************************************************)

\* execute_snapshot_outputs calls event_sink so that a reader of the stream can
\* pair every start with its end, and completed_node_count is the number of nodes
\* reported complete, for any snapshot.
THEOREM ReportsAreNested == Spec => []ReportsNest
<1>1. IInv => ReportsNest
  BY DEF IInv, LogInv, CountInv, ReportsNest
<1>2. QED BY <1>1, Inductive, PTL

\* execute_snapshot_outputs feeds each node the output of its parent and of no
\* other node, whatever ran between the two.
THEOREM NodesAreFed == Spec => []FedByParent
<1>1. IInv => FedByParent
  BY DEF IInv, OutputInv
<1>2. QED BY <1>1, Inductive, PTL

\* render_graph_outputs shows of each sink what it wrote in this run.
THEOREM SinksAreShown == Spec => []SinksAreRendered
<1>1. IInv => SinksAreRendered
  <2> SUFFICES ASSUME IInv, pc = "completed", NEW s \in Sinks
               PROVE  rendered[s] = IF ReportedOutput(log, s) THEN s ELSE NoOutput
    BY DEF SinksAreRendered
  <2>1. rendered = [n \in Sinks |-> outputs[n]] /\ DOMAIN outputs = Ids
    BY AllScheduled DEF IInv, OutputInv, OrderInv
  <2>2. s \in DOMAIN outputs
    BY <2>1 DEF Sinks
  <2>3. QED BY <2>1, <2>2 DEF IInv, OutputInv, Told
<1>2. QED BY <1>1, Inductive, PTL

\* The lookups outputs.at(parent) and outputs.at(sink) never throw: a parent has
\* its output when the node is next, and every sink has one at the end.
THEOREM NothingIsMissing ==
  Spec => [](pc = "node" => IF next <= Len(execution_order)
                            THEN Parents(node_id) \subseteq DOMAIN outputs
                            ELSE Sinks \subseteq DOMAIN outputs)
<1>1. IInv => (pc = "node" => IF next <= Len(execution_order)
                              THEN Parents(node_id) \subseteq DOMAIN outputs
                              ELSE Sinks \subseteq DOMAIN outputs)
  <2> SUFFICES ASSUME IInv
               PROVE  IF next <= Size THEN Parents(node_id) \subseteq DOMAIN outputs
                                      ELSE Sinks \subseteq DOMAIN outputs
    BY DEF Size
  <2>1. SnapshotInv /\ OrderInv
    BY DEF IInv
  <2>2. next <= Size \/ next = Size + 1
    BY <2>1, SnapshotFacts DEF OrderInv
  <2>3. CASE next <= Size
    BY <2>1, <2>3, NodeFacts
  <2>4. CASE ~(next <= Size)
    BY <2>1, <2>2, <2>4, AllScheduled DEF Sinks
  <2>5. QED BY <2>3, <2>4
<1>2. QED BY <1>1, Inductive, PTL

(***************************************************************************)
(* A graph run is a run of its nodes under its edges.                      *)
(***************************************************************************)

LEMMA GraphImplements ==
  ASSUME IInv, [Next]_vars
  PROVE  [Run!Next]_Run!vars
<1> DEFINE parents == [n \in Ids |-> Parents(n)]
<1>1. incoming' = incoming /\ execution_order' = execution_order
  BY DEF Next, Begin, StartNode, RunProcess, AbortNode, CompleteNode, FailNode, Complete,
     Done, vars, snapshot
<1>2. parents' = parents /\ DOMAIN parents = Ids
  BY <1>1 DEF Ids, Parents
<1>3. SnapshotInv /\ OrderInv
  BY DEF IInv
<1>4. CASE Begin
  BY <1>2, <1>4 DEF Begin, Run!vars, Ended
<1>5. CASE StartNode
  <2>1. /\ pc = "node" /\ pc' = "process" /\ next <= Size /\ next' = next
        /\ outputs' = outputs
    BY <1>5 DEF StartNode, Size
  <2>2. /\ node_id \in Ids /\ node_id \notin DOMAIN outputs /\ node_id' = node_id
        /\ Parents(node_id) \subseteq DOMAIN outputs
    BY <1>1, <1>3, <2>1, NodeFacts DEF node_id
  <2>3. Run!Begin(node_id)
    BY <1>2, <2>1, <2>2 DEF Run!Begin, Ended
  <2>4. QED BY <1>2, <2>2, <2>3 DEF Run!Next, Run!Items
<1>6. CASE RunProcess
  BY <1>1, <1>2, <1>6 DEF RunProcess, Run!vars, Ended, node_id
<1>7. CASE AbortNode
  <2>1. Run!Stop
    BY <1>1, <1>2, <1>7 DEF AbortNode, Run!Stop, Ended, node_id
  <2>2. QED BY <2>1 DEF Run!Next
<1>8. CASE CompleteNode
  <2>1. /\ pc = "process" /\ pc' = "node"
        /\ DOMAIN outputs' = DOMAIN outputs \cup {node_id}
    BY <1>8 DEF CompleteNode, Entered
  <2>2. Run!Succeed
    BY <1>2, <2>1 DEF Run!Succeed, Ended
  <2>3. QED BY <2>2 DEF Run!Next
<1>9. CASE FailNode
  <2>1. Run!Stop
    BY <1>1, <1>2, <1>9 DEF FailNode, Run!Stop, Ended, node_id
  <2>2. QED BY <2>1 DEF Run!Next
<1>10. CASE Complete
  <2>1. /\ pc = "node" /\ pc' = "completed" /\ next > Size /\ outputs' = outputs
    BY <1>10 DEF Complete, Size
  <2>2. next = Size + 1
    BY <1>3, <2>1, SnapshotFacts DEF OrderInv
  <2>3. DOMAIN outputs = Ids /\ 0 \in Ids
    BY <1>3, <2>2, AllScheduled, SnapshotFacts
  <2>4. Run!Complete
    BY <1>2, <2>1, <2>3 DEF Run!Complete, Run!Items, Ended
  <2>5. QED BY <2>4 DEF Run!Next
<1>11. CASE UNCHANGED vars
  BY <1>1, <1>2, <1>11 DEF vars, Run!vars, Ended, node_id
<1>12. QED BY <1>4, <1>5, <1>6, <1>7, <1>8, <1>9, <1>10, <1>11 DEF Next, Done

\* execute_snapshot_outputs runs each node at most once, after its parent succeeded,
\* one at a time and none after a failure, and completes only when all have run.
THEOREM Refinement == Spec => ImplementsRun
<1>1. Init => Run!Init
  <2> SUFFICES ASSUME Init PROVE Run!Init
    OBVIOUS
  <2>1. pc = "start" /\ DOMAIN outputs = {} /\ SnapshotInv
    BY FirstRun DEF Init, IInv
  <2>2. \A n \in Ids : Parents(n) \subseteq Ids
    <3> TAKE n \in Ids
    <3>1. incoming[n] = <<>> \/ \E p \in Ids : incoming[n] = <<p>>
      BY <2>1, SnapshotFacts
    <3>2. QED BY <3>1 DEF Parents, Range
  <2>3. QED BY <2>1, <2>2 DEF Run!Init, Run!Items, Ended
<1>2. QED BY <1>1, GraphImplements, Inductive, PTL DEF Spec, ImplementsRun, Run!Spec
==============================================================================

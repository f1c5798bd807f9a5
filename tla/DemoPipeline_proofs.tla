-------------------------- MODULE DemoPipeline_proofs --------------------------
(***************************************************************************)
(* Proofs about WorkflowRun and DemoPipeline, for any exit codes, and for  *)
(* files and benchmarks of any length.                                     *)
(***************************************************************************)
EXTENDS DemoPipeline, RunReport_proofs, FiniteSetTheorems

(***************************************************************************)
(* The inductive invariant.                                                *)
(***************************************************************************)

Labels == {"load", "rejected", "start", "step", "process", "completed", "failed",
           "aborted"}

TypeInv ==
  /\ text \in Seq(LineKinds) /\ cursor \in 0..Len(text)
  /\ pc \in Labels
  /\ step_count \in Nat /\ step \in Nat \ {0} /\ completed_step_count \in Nat
  /\ current_output \in Nat
  /\ log \in Seq(Reports)

\* The lines that were read can all be parsed, and the commands are counted.
FileInv ==
  /\ step_count = Cardinality({i \in 1..cursor : text[i] = "command"})
  /\ \A i \in 1..cursor : text[i] # "faulty"
  /\ pc \notin {"load", "rejected"} => cursor = Len(text) /\ step_count > 0

\* Step by step, in order.
StepInv ==
  /\ step = completed_step_count + 1
  /\ pc \in {"load", "rejected", "start"} => step = 1
  /\ pc = "step" => step <= step_count + 1
  /\ pc \in {"process", "failed", "aborted"} => step <= step_count
  /\ pc = "completed" => step = step_count + 1

\* What the contract of run_process leaves of the current process.
ProcessInv ==
  /\ Emitted(events)
  /\ phase = "idle" => events = <<>>
  /\ phase \in {"running", "returned"} => Len(events) > 0
  /\ result \subseteq ProcessResults
  /\ result # {} => phase = "returned"

\* Where the reports of the current step begin; all of earlier ones are before.
StepBegins(n) ==
  /\ InItem(log, n, step, events)
  /\ \A k \in 1..n-1 : log[k].scope = "process" => log[k].subject < step

LogInv ==
  /\ WellNested(log)
  /\ pc \in {"load", "rejected", "start"} => log = <<>>
  /\ pc = "step" => BetweenItems(log)
  /\ pc = "process" => \E n \in 1..Len(log) : StepBegins(n)
  /\ pc \in {"completed", "failed"} => AllClosed(log)
  /\ pc \in {"step", "completed"} =>
       \A k \in 1..Len(log) : log[k].scope = "process" => log[k].subject < step

CountInv ==
  /\ ReportedDone(log, Len(log)) = 1..completed_step_count
  /\ \A i \in 1..Len(log) : log[i].scope # "process" =>
       ReportedDone(log, i) = 1..log[i].done
  /\ pc = "completed" => Len(log) > 0 /\ log[Len(log)].done = step_count

\* The output that is held.
Held == IF step > 1 /\ ReportedOutput(log, step - 1) THEN step - 1 ELSE NoOutput

OutputInv ==
  /\ pc \in {"load", "rejected", "start"} => current_output = NoOutput
  /\ pc \in {"step", "process", "completed"} => current_output = Held

WorkflowInv ==
  TypeInv /\ FileInv /\ StepInv /\ ProcessInv /\ LogInv /\ CountInv /\ OutputInv

MainInv ==
  /\ iteration \in Nat /\ iterations \in Nat
  /\ IF exit_status = "0"
     THEN pc = "completed" /\ iteration = iterations /\ printed = current_output
     ELSE printed = NoOutput

IInv == WorkflowInv /\ MainInv

(***************************************************************************)
(* The process of the current step.                                        *)
(***************************************************************************)

LEMMA ProcessSteps ==
  ASSUME ProcessInv,
         \/ Process!Launch \/ Process!Feed
         \/ Process!Stop \/ Process!Kill \/ Process!Return \/ Process!Abort
  PROVE  /\ ProcessInv' /\ events' \in Seq(EventNames) /\ events \in Seq(EventNames)
         /\ Len(events) <= Len(events')
         /\ \A i \in 1..Len(events) : events'[i] = events[i]
<1>1. /\ Emitted(events) /\ events \in Seq(EventNames) /\ Len(events) \in Nat
      /\ result \subseteq ProcessResults /\ (result # {} => phase = "returned")
      /\ phase = "idle" => events = <<>>
      /\ phase \in {"running", "returned"} => Len(events) > 0
  BY LenProperties DEF ProcessInv, Emitted
<1>2. CASE Process!Launch
  <2>1. /\ events = <<>> /\ events' = <<"started">> /\ phase' = "running"
        /\ phase = "idle" /\ result' = result
    BY <1>1, <1>2 DEF Process!Launch
  <2>2. Len(events) = 0 /\ 1..Len(events) = {}
    BY <2>1, EmptyIsEmitted
  <2>3. QED BY <1>1, <2>1, <2>2, FirstEvents DEF ProcessInv, Emitted
<1>3. CASE Process!Feed
  BY <1>1, <1>3 DEF Process!Feed, ProcessInv
<1> DEFINE Grows == /\ Emitted(events') /\ Len(events) <= Len(events')
                    /\ Len(events') > 0
                    /\ \A i \in 1..Len(events) : events'[i] = events[i]
<1>4. ASSUME Process!AnnounceStop PROVE Grows /\ phase = "running"
  <2>1. /\ events = <<"started">> /\ events' = <<"started", "stop.requested">>
        /\ phase = "running"
    BY <1>4 DEF Process!AnnounceStop
  <2>2. Len(events) = 1 /\ Len(events') = 2 /\ events'[1] = events[1]
    BY <2>1
  <2>3. QED BY <2>1, <2>2, FirstEvents
<1>5. ASSUME Process!AnnounceKill PROVE Grows /\ phase = "running"
  <2>1. /\ events = <<"started", "stop.requested">>
        /\ events' = <<"started", "stop.requested", "kill.sent">>
        /\ phase = "running"
    BY <1>5 DEF Process!AnnounceKill
  <2>2. /\ Len(events) = 2 /\ Len(events') = 3
        /\ events'[1] = events[1] /\ events'[2] = events[2]
    BY <2>1
  <2>3. QED BY <2>1, <2>2, FirstEvents
<1>6. CASE Process!Stop \/ Process!Kill
  <2>1. Grows /\ phase = "running" /\ phase' = phase /\ result' = result
    BY <1>4, <1>5, <1>6 DEF Process!Stop, Process!Kill
  <2>2. QED BY <1>1, <2>1 DEF ProcessInv, Emitted
<1>7. CASE Process!Abort
  <2>1. phase # "returned" /\ phase' = "aborted" /\ result' = result
    BY <1>7 DEF Process!Abort
  <2>2. UNCHANGED events \/ Grows
    BY <1>4, <1>5, <1>7 DEF Process!Abort
  <2>3. CASE UNCHANGED events
    BY <1>1, <2>1, <2>3 DEF ProcessInv
  <2>4. CASE Grows
    BY <1>1, <2>1, <2>4 DEF ProcessInv, Emitted
  <2>5. QED BY <2>2, <2>3, <2>4
<1>8. CASE Process!Return
  <2>1. PICK status \in Process!Statuses :
          result' = {Process!CollectResult(status, Len(events) > 1)}
    BY <1>8 DEF Process!Return
  <2>2. PICK captured \in SUBSET Process!Streams :
          events' = events \o Process!OutputEvents(captured)
    BY <1>8 DEF Process!Return
  <2>3. phase = "running" /\ phase' = "returned"
    BY <1>8 DEF Process!Return
  <2>4. status \in Statuses /\ result' = {CollectResult(status, Len(events) > 1)}
    BY <2>1 DEF Process!Statuses, Statuses, Process!Signals, Signals, Process!SIGTERM,
         SIGTERM, Process!SIGKILL, SIGKILL, Process!SIGSEGV, SIGSEGV,
         Process!CollectResult, CollectResult
  <2>5. captured \in SUBSET Streams /\ events' = events \o OutputEvents(captured)
    BY <2>2 DEF Process!Streams, Streams, Process!OutputEvents, OutputEvents
  <2>6. result' \subseteq ProcessResults
    <3>1. (Len(events) > 1) \in BOOLEAN
      OBVIOUS
    <3>2. CollectResult(status, Len(events) > 1) \in ProcessResults
      BY <2>4, <3>1, CollectFacts
    <3>3. QED BY <2>4, <3>2
  <2>7. /\ Emitted(events)' /\ Len(events) <= Len(events') /\ Len(events') > 0
        /\ \A i \in 1..Len(events) : events'[i] = events[i]
    BY <1>1, <2>3, <2>5, EmittedGrows
  <2>8. QED BY <1>1, <2>3, <2>6, <2>7 DEF ProcessInv, Emitted
<1>9. QED BY <1>2, <1>3, <1>6, <1>7, <1>8

(***************************************************************************)
(* Loading the file.                                                       *)
(***************************************************************************)

LEMMA LoadKeepsInv ==
  ASSUME WorkflowInv, Load
  PROVE  WorkflowInv'
<1>1. UNCHANGED unrun /\ pc = "load"
  BY DEF Load, ReadLine, Reject, Loaded
<1>2. /\ text' = text /\ step' = step /\ completed_step_count' = completed_step_count
      /\ current_output' = current_output /\ log' = log
      /\ phase' = phase /\ events' = events /\ result' = result
  BY <1>1 DEF unrun, process
<1>3. pc' \in {"load", "rejected", "start"}
  BY <1>1 DEF Load, ReadLine, Reject, Loaded
<1>4. /\ text \in Seq(LineKinds) /\ Len(text) \in Nat /\ cursor \in 0..Len(text)
      /\ step_count \in Nat /\ DOMAIN text = 1..Len(text)
  BY LenProperties DEF WorkflowInv, TypeInv
<1>5. TypeInv' /\ FileInv'
  <2>1. CASE ReadLine
    <3>1. /\ cursor < Len(text) /\ cursor' = cursor + 1
          /\ text[cursor + 1] \in {"blank", "command"} /\ pc' = "load"
          /\ step_count' = IF text[cursor + 1] = "command" THEN step_count + 1 ELSE step_count
      BY <1>1, <2>1 DEF ReadLine, Skipped
    <3> DEFINE read == {i \in 1..cursor : text[i] = "command"}
               new  == {i \in 1..cursor+1 : text[i] = "command"}
    <3>2. IsFiniteSet(read) /\ cursor + 1 \notin read
      <4>1. IsFiniteSet(1..cursor) /\ read \subseteq 1..cursor
        BY <1>4, FS_Interval
      <4>2. IsFiniteSet(read)
        BY <4>1, FS_Subset
      <4>3. QED BY <1>4, <4>1, <4>2
    <3>3. new = IF text[cursor + 1] = "command" THEN read \cup {cursor + 1} ELSE read
      BY <1>4
    <3>4. step_count = Cardinality(read)
      BY DEF WorkflowInv, FileInv
    <3> HIDE DEF read, new
    <3>5. Cardinality(read \cup {cursor + 1}) = Cardinality(read) + 1
      BY <3>2, FS_AddElement
    <3>6. step_count' = Cardinality(new)
      BY <3>1, <3>3, <3>4, <3>5
    <3>7. step_count' = Cardinality({i \in 1..cursor' : text'[i] = "command"})
      BY <1>2, <3>1, <3>6 DEF new
    <3>8. \A i \in 1..cursor' : text'[i] # "faulty"
      <4>1. \A i \in 1..cursor : text[i] # "faulty"
        BY DEF WorkflowInv, FileInv
      <4>2. \A i \in 1..cursor+1 : i \in 1..cursor \/ i = cursor + 1
        BY <1>4
      <4>3. QED BY <1>2, <3>1, <4>1, <4>2
    <3>9. cursor' \in 0..Len(text) /\ step_count' \in Nat
      BY <1>4, <3>1
    <3>10. QED BY <1>2, <3>1, <3>7, <3>8, <3>9 DEF WorkflowInv, TypeInv, FileInv, Labels
  <2>2. CASE Reject
    BY <1>2, <2>2 DEF Reject, WorkflowInv, TypeInv, FileInv, Labels
  <2>3. CASE Loaded
    BY <1>2, <2>3 DEF Loaded, WorkflowInv, TypeInv, FileInv, Labels
  <2>4. QED BY <2>1, <2>2, <2>3 DEF Load
<1>6. StepInv' /\ ProcessInv'
  BY <1>1, <1>2, <1>3 DEF WorkflowInv, StepInv, ProcessInv
<1>7. LogInv' /\ CountInv' /\ OutputInv'
  BY <1>1, <1>2, <1>3 DEF WorkflowInv, LogInv, CountInv, OutputInv
<1>8. QED BY <1>5, <1>6, <1>7 DEF WorkflowInv

(***************************************************************************)
(* Running the steps.                                                      *)
(***************************************************************************)

LEMMA FileStays ==
  ASSUME WorkflowInv, UNCHANGED file, pc \notin {"load", "rejected"}
  PROVE  FileInv' /\ text' \in Seq(LineKinds) /\ cursor' \in 0..Len(text') /\ step_count' \in Nat
<1>1. text' = text /\ cursor' = cursor /\ step_count' = step_count
  BY DEF file
<1>2. QED BY <1>1 DEF WorkflowInv, TypeInv, FileInv

\* Nothing has been reported.
LEMMA EmptyLog ==
  /\ <<>> \in Seq(Reports) /\ Len(<<>>) = 0 /\ ReportedDone(<<>>, 0) = 1..0
<1>1. <<>> \in Seq(Reports) /\ Len(<<>>) = 0 /\ 1..0 = {}
  OBVIOUS
<1>2. QED BY <1>1 DEF ReportedDone

LEMMA BeginKeepsInv ==
  ASSUME WorkflowInv, Begin
  PROVE  WorkflowInv'
<1>1. /\ pc = "start" /\ pc' = "step" /\ log' = <<RunStarted>>
      /\ step' = step /\ completed_step_count' = completed_step_count
      /\ current_output' = current_output /\ UNCHANGED file
      /\ phase' = phase /\ events' = events /\ result' = result
  BY DEF Begin, RunStarted, process
<1>2. /\ step = 1 /\ completed_step_count = 0 /\ current_output = NoOutput
      /\ step_count \in Nat /\ step_count > 0
  BY <1>1 DEF WorkflowInv, StepInv, OutputInv, FileInv, TypeInv
<1>3. /\ log' \in Seq(Reports) /\ WellNested(log)' /\ BetweenItems(log)' /\ Len(log') = 1
  BY <1>1, RunBegins
<1>4. RunStarted.scope = "run" /\ RunStarted.done = 0 /\ log'[1] = RunStarted
  BY <1>1 DEF RunStarted, RunReport, Report
<1>5. TypeInv' /\ FileInv'
  BY <1>1, <1>3, FileStays DEF WorkflowInv, TypeInv, Labels
<1>6. StepInv' /\ ProcessInv'
  BY <1>1, <1>2 DEF WorkflowInv, StepInv, ProcessInv, file
<1>7. ReportedDone(log', 0) = {} /\ ReportedDone(log', 1) = {}
  BY <1>4 DEF ReportedDone
<1>8. LogInv'
  BY <1>1, <1>3, <1>4 DEF LogInv
<1>9. CountInv'
  <2>1. 1..0 = {} /\ 1..Len(log') = {1} /\ log'[1].done = 0
    BY <1>3, <1>4
  <2>2. \A i \in 1..Len(log') : ReportedDone(log', i) = 1..log'[i].done
    BY <1>7, <2>1
  <2>3. ReportedDone(log', Len(log')) = 1..completed_step_count'
    BY <1>1, <1>2, <1>3, <1>7, <2>1
  <2>4. QED BY <1>1, <2>2, <2>3 DEF CountInv
<1>10. OutputInv'
  BY <1>1, <1>2 DEF OutputInv, Held
<1>11. QED BY <1>5, <1>6, <1>8, <1>9, <1>10 DEF WorkflowInv

LEMMA StartKeepsInv ==
  ASSUME WorkflowInv, StartStep
  PROVE  WorkflowInv'
<1> DEFINE r == ItemReport("started", step, completed_step_count, "none")
<1>1. /\ pc = "step" /\ pc' = "process" /\ step <= step_count /\ log' = Append(log, r)
      /\ step' = step /\ completed_step_count' = completed_step_count
      /\ current_output' = current_output /\ UNCHANGED file
      /\ phase' = "idle" /\ events' = <<>> /\ result' = {}
  BY DEF StartStep
<1>2. /\ step \in Int /\ completed_step_count \in Nat /\ log \in Seq(Reports)
      /\ WellNested(log) /\ BetweenItems(log) /\ step = completed_step_count + 1
      /\ \A k \in 1..Len(log) : log[k].scope = "process" => log[k].subject < step
  BY <1>1 DEF WorkflowInv, TypeInv, LogInv, StepInv
<1>3. /\ r \in Reports /\ r.scope = "item" /\ r.name = "started" /\ r.subject = step
      /\ r.done = completed_step_count
  BY <1>2, ItemReportFacts DEF Names, EventNames, Causes
<1> HIDE DEF r
<1>4. /\ log' \in Seq(Reports) /\ WellNested(log') /\ InItem(log', Len(log) + 1, step, <<>>)
  BY <1>1, <1>2, <1>3, ItemStarts
<1>5. /\ Len(log') = Len(log) + 1 /\ Len(log) \in Nat /\ log'[Len(log) + 1] = r
      /\ \A k \in 1..Len(log) : log'[k] = log[k]
  BY <1>1, <1>2, <1>3, SingleReport
<1>6. TypeInv' /\ FileInv'
  BY <1>1, <1>4, FileStays DEF WorkflowInv, TypeInv, Labels
<1>7. StepInv'
  <2>1. step_count' = step_count
    BY <1>1 DEF file
  <2>2. QED BY <1>1, <2>1 DEF WorkflowInv, StepInv
<1>8. ProcessInv'
  BY <1>1, EmptyIsEmitted DEF ProcessInv
<1>9. LogInv'
  <2>1. PICK n \in Nat : n = Len(log) + 1
    BY <1>5
  <2>2. StepBegins(n)'
    <3>1. \A k \in 1..n-1 : k \in 1..Len(log)
      BY <1>5, <2>1
    <3>2. \A k \in 1..n-1 : log'[k].scope = "process" => log'[k].subject < step
      BY <1>2, <1>5, <3>1
    <3>3. QED BY <1>1, <1>4, <2>1, <3>2 DEF StepBegins
  <2>3. n \in 1..Len(log')
    BY <1>5, <2>1
  <2>4. QED BY <1>1, <1>4, <2>2, <2>3 DEF LogInv
<1>10. CountInv'
  <2>1. ReportedDone(log, Len(log)) = 1..completed_step_count
        /\ \A i \in 1..Len(log) : log[i].scope # "process" =>
             ReportedDone(log, i) = 1..log[i].done
    BY DEF WorkflowInv, CountInv
  <2>2. ReportedDone(log', Len(log')) = ReportedDone(log, Len(log))
    <3>1. \A k \in Len(log)+1..Len(log') : ~(log'[k].scope = "item" /\ log'[k].name = "completed")
      BY <1>3, <1>5
    <3>2. QED BY <1>2, <1>4, <1>5, <3>1, DoneUnchanged
  <2>3. ASSUME NEW i \in 1..Len(log'), log'[i].scope # "process"
        PROVE  ReportedDone(log', i) = 1..log'[i].done
    <3>1. CASE i \in 1..Len(log)
      <4>1. i \in 0..Len(log) /\ Len(log) <= Len(log')
        BY <1>5, <3>1
      <4>2. ReportedDone(log', i) = ReportedDone(log, i)
        BY <1>2, <1>4, <1>5, <4>1, DoneStays
      <4>3. QED BY <1>5, <2>1, <2>3, <3>1, <4>2
    <3>2. CASE i = Len(log')
      BY <1>3, <1>5, <2>1, <2>2, <3>2
    <3>3. QED BY <1>5, <3>1, <3>2
  <2>4. QED BY <1>1, <2>1, <2>2, <2>3 DEF CountInv
<1>11. OutputInv'
  <2>1. current_output = Held
    BY <1>1 DEF WorkflowInv, OutputInv
  <2>2. ReportedOutput(log', step - 1) <=> ReportedOutput(log, step - 1)
    <3>1. \A k \in Len(log)+1..Len(log') : log'[k].scope = "process" => log'[k].subject # step - 1
      BY <1>3, <1>5
    <3>2. QED BY <1>2, <1>4, <1>5, <3>1, OutputStays
  <2>3. QED BY <1>1, <2>1, <2>2 DEF OutputInv, Held
<1>12. QED BY <1>6, <1>7, <1>8, <1>9, <1>10, <1>11 DEF WorkflowInv

LEMMA RunKeepsInv ==
  ASSUME WorkflowInv, RunProcess \/ AbortStep
  PROVE  WorkflowInv'
<1>1. /\ pc = "process" /\ pc' \in {"process", "aborted"}
      /\ UNCHANGED file /\ step' = step
      /\ completed_step_count' = completed_step_count /\ current_output' = current_output
      /\ log' = log \o ProcessReports(step, SubSeq(events', Len(events) + 1, Len(events')))
      /\ ProcessInv' /\ events \in Seq(EventNames) /\ events' \in Seq(EventNames)
      /\ Len(events) <= Len(events') /\ \A i \in 1..Len(events) : events'[i] = events[i]
  BY ProcessSteps DEF RunProcess, AbortStep, NewEvents, WorkflowInv
<1>2. /\ step \in Int /\ log \in Seq(Reports) /\ WellNested(log) /\ Len(log) \in Nat
      /\ step = completed_step_count + 1 /\ completed_step_count \in Nat
      /\ \E n \in 1..Len(log) : StepBegins(n)
  BY <1>1, LenProperties DEF WorkflowInv, TypeInv, LogInv, StepInv
<1>3. PICK n \in 1..Len(log) : StepBegins(n)
  BY <1>2
<1>4. InItem(log, n, step, events)
      /\ \A k \in 1..n-1 : log[k].scope = "process" => log[k].subject < step
  BY <1>3 DEF StepBegins
<1>5. /\ log' \in Seq(Reports) /\ WellNested(log') /\ InItem(log', n, step, events')
      /\ Len(log) <= Len(log') /\ \A k \in 1..Len(log) : log'[k] = log[k]
      /\ \A k \in Len(log)+1..Len(log') : log'[k].scope = "process" /\ log'[k].subject = step
  <2>1. GoesOn(log, n, step, events, events')
    BY <1>1, <1>2, <1>4 DEF GoesOn
  <2>2. QED BY <1>1, <2>1, ItemGoesOn
<1>6. Len(log') \in Nat /\ n \in 1..Len(log')
  BY <1>2, <1>5, LenProperties
<1>7. TypeInv' /\ FileInv'
  BY <1>1, <1>5, FileStays DEF WorkflowInv, TypeInv, Labels
<1>8. StepInv'
  <2>1. step_count' = step_count
    BY <1>1 DEF file
  <2>2. QED BY <1>1, <2>1 DEF WorkflowInv, StepInv
<1>9. LogInv'
  <2>1. \A k \in 1..n-1 : log'[k].scope = "process" => log'[k].subject < step
    <3>1. \A k \in 1..n-1 : k \in 1..Len(log)
      BY <1>2
    <3>2. QED BY <1>4, <1>5, <3>1
  <2>2. StepBegins(n)'
    BY <1>1, <1>5, <2>1 DEF StepBegins
  <2>3. QED BY <1>1, <1>5, <1>6, <2>2 DEF LogInv
<1>10. CountInv'
  <2>1. ReportedDone(log, Len(log)) = 1..completed_step_count
        /\ \A i \in 1..Len(log) : log[i].scope # "process" =>
             ReportedDone(log, i) = 1..log[i].done
    BY DEF WorkflowInv, CountInv
  <2>2. ReportedDone(log', Len(log')) = ReportedDone(log, Len(log))
    BY <1>2, <1>5, DoneUnchanged
  <2>3. ASSUME NEW i \in 1..Len(log'), log'[i].scope # "process"
        PROVE  ReportedDone(log', i) = 1..log'[i].done
    <3>1. i \in 1..Len(log)
      BY <1>2, <1>5, <1>6, <2>3
    <3>2. ReportedDone(log', i) = ReportedDone(log, i)
      BY <1>2, <1>5, <3>1, DoneOfPrefix
    <3>3. QED BY <1>5, <2>1, <2>3, <3>1, <3>2
  <2>4. QED BY <1>1, <2>1, <2>2, <2>3 DEF CountInv
<1>11. OutputInv'
  <2>1. current_output = Held
    BY <1>1 DEF WorkflowInv, OutputInv
  <2>2. \A k \in Len(log)+1..Len(log') : log'[k].subject # step - 1
    <3>1. step # step - 1
      BY <1>2
    <3>2. QED BY <1>5, <3>1
  <2>3. ReportedOutput(log', step - 1) <=> ReportedOutput(log, step - 1)
    BY <1>2, <1>5, <2>2, OutputStays
  <2>4. QED BY <1>1, <2>1, <2>3 DEF OutputInv, Held
<1>12. QED BY <1>1, <1>7, <1>8, <1>9, <1>10, <1>11 DEF WorkflowInv

\* The process of the step has returned.
LEMMA StepReturned ==
  ASSUME WorkflowInv, pc = "process", NEW res \in result
  PROVE  /\ res \in ProcessResults /\ Emitted(events) /\ Len(events) > 0
         /\ step \in Int /\ completed_step_count \in Nat /\ step = completed_step_count + 1
         /\ log \in Seq(Reports) /\ WellNested(log) /\ Len(log) \in Nat
         /\ \E n \in 1..Len(log) : StepBegins(n)
BY LenProperties DEF WorkflowInv, TypeInv, StepInv, ProcessInv, LogInv

LEMMA CompleteStepKeepsInv ==
  ASSUME WorkflowInv, CompleteStep
  PROVE  WorkflowInv'
<1> DEFINE r2 == ItemReport("completed", step, completed_step_count + 1, "exit_zero")
<1>1. PICK res \in result : log' = log \o <<ProcessEnd(step, res), r2>>
  BY DEF CompleteStep
<1>2. /\ pc = "process" /\ pc' = "step" /\ UNCHANGED file /\ step' = step + 1
      /\ completed_step_count' = completed_step_count + 1
      /\ current_output' = IF \E i \in DOMAIN events : events[i] = "output.stdout"
                           THEN step ELSE NoOutput
      /\ phase' = phase /\ events' = events /\ result' = result
  BY DEF CompleteStep, Captured, WroteStdout, process
<1>3. /\ res \in ProcessResults /\ Emitted(events) /\ Len(events) > 0
      /\ step \in Int /\ completed_step_count \in Nat /\ step = completed_step_count + 1
      /\ log \in Seq(Reports) /\ WellNested(log) /\ Len(log) \in Nat
      /\ \E n \in 1..Len(log) : StepBegins(n)
  BY <1>1, <1>2, StepReturned
<1>4. PICK n \in 1..Len(log) : StepBegins(n)
  BY <1>3
<1>5. InItem(log, n, step, events)
      /\ \A k \in 1..n-1 : log[k].scope = "process" => log[k].subject < step
  BY <1>4 DEF StepBegins
<1>6. PICK r1 \in Reports : r1 = ProcessEnd(step, res) /\ r1.scope = "process"
                            /\ r1.subject = step /\ Closes(r1) /\ ~Opens(r1)
  BY <1>3, ProcessEndFacts
<1>7. /\ r2 \in Reports /\ r2.scope = "item" /\ r2.name = "completed" /\ r2.subject = step
      /\ r2.done = completed_step_count + 1 /\ Closes(r2) /\ ~Opens(r2)
  <2>1. "completed" \in Names /\ "exit_zero" \in Causes /\ completed_step_count + 1 \in Nat
    BY <1>3 DEF Names, Causes, TerminalCauses
  <2>2. /\ r2 \in Reports /\ r2.scope = "item" /\ r2.name = "completed"
        /\ r2.subject = step /\ r2.done = completed_step_count + 1
    BY <1>3, <2>1, ItemReportFacts
  <2> HIDE DEF r2
  <2>3. QED BY <2>2 DEF Closes, Opens
<1> HIDE DEF r2
<1>8. log' = Append(Append(log, r1), r2)
  BY <1>1, <1>3, <1>6, <1>7, SeveralReports
<1>9. /\ log' \in Seq(Reports) /\ WellNested(log') /\ BetweenItems(log')
      /\ Len(log') = Len(log) + 2 /\ \A k \in 1..Len(log) : log'[k] = log[k]
      /\ log'[Len(log) + 1] = r1 /\ log'[Len(log) + 2] = r2
  BY <1>3, <1>5, <1>6, <1>7, <1>8, ItemEnds
<1>10. TypeInv' /\ FileInv'
  <2>1. current_output' \in Nat /\ step' \in Nat \ {0} /\ completed_step_count' \in Nat
    BY <1>2, <1>3 DEF NoOutput
  <2>2. QED BY <1>2, <1>9, <2>1, FileStays DEF TypeInv, Labels
<1>11. StepInv'
  <2>1. step_count' = step_count /\ step <= step_count /\ step_count \in Nat
    BY <1>2 DEF WorkflowInv, StepInv, TypeInv, file
  <2>2. QED BY <1>2, <1>3, <2>1 DEF StepInv
<1>12. ProcessInv'
  BY <1>2 DEF WorkflowInv, ProcessInv
<1>13. \A k \in 1..Len(log) : log[k].scope = "process" => log[k].subject <= step
  <2>1. \A k \in n..Len(log) : log[k].subject = step
    <3>1. PICK m \in Nat : m = n
      BY <1>3
    <3>2. InItem(log, m, step, events)
      BY <1>5, <3>1
    <3>3. QED BY <1>3, <3>1, <3>2, ItemSubjects
  <2>2. ASSUME NEW k \in 1..Len(log), log[k].scope = "process"
        PROVE  log[k].subject <= step
    <3>1. CASE k \in 1..n-1
      <4>1. log[k].subject < step /\ log[k].subject \in Int
        <5>1. log[k] \in Reports
          BY <1>3, <2>2, ElementOfSeq
        <5>2. QED BY <1>5, <2>2, <3>1, <5>1 DEF Reports
      <4>2. QED BY <1>3, <4>1
    <3>2. CASE k \in n..Len(log)
      BY <1>3, <2>1, <3>2
    <3>3. QED BY <1>3, <3>1, <3>2
  <2>3. QED BY <2>2
<1>14. LogInv'
  <2>1. ASSUME NEW k \in 1..Len(log'), log'[k].scope = "process"
        PROVE  log'[k].subject < step'
    <3>1. CASE k \in 1..Len(log)
      <4>1. log[k].subject <= step /\ log'[k] = log[k] /\ log[k].subject \in Int
        <5>1. log[k] \in Reports
          BY <1>3, <3>1, ElementOfSeq
        <5>2. QED BY <1>9, <1>13, <2>1, <3>1, <5>1 DEF Reports
      <4>2. QED BY <1>2, <1>3, <4>1
    <3>2. CASE k = Len(log) + 1
      <4>1. log'[k].subject = step
        BY <1>6, <1>9, <3>2
      <4>2. QED BY <1>2, <1>3, <4>1
    <3>3. CASE k = Len(log) + 2
      BY <1>7, <1>9, <2>1, <3>3
    <3>4. QED BY <1>3, <1>9, <3>1, <3>2, <3>3, SMTT(30)
  <2>2. QED BY <1>2, <1>9, <2>1 DEF LogInv
<1>15. CountInv'
  <2>1. ReportedDone(log, Len(log)) = 1..completed_step_count
        /\ \A i \in 1..Len(log) : log[i].scope # "process" =>
             ReportedDone(log, i) = 1..log[i].done
    BY DEF WorkflowInv, CountInv
  <2>2. ReportedDone(log', Len(log')) = 1..completed_step_count + 1
    <3>1. ReportedDone(log', Len(log')) = ReportedDone(log, Len(log)) \cup {step}
      BY <1>3, <1>6, <1>7, <1>9, ItemDone
    <3>2. (1..completed_step_count) \cup {completed_step_count + 1} = 1..completed_step_count+1
      BY <1>3
    <3>3. QED BY <1>3, <2>1, <3>1, <3>2
  <2>3. ASSUME NEW i \in 1..Len(log'), log'[i].scope # "process"
        PROVE  ReportedDone(log', i) = 1..log'[i].done
    <3>1. CASE i \in 1..Len(log)
      <4>1. Len(log) <= Len(log')
        BY <1>3, <1>9
      <4>2. ReportedDone(log', i) = ReportedDone(log, i)
        BY <1>3, <1>9, <3>1, <4>1, DoneOfPrefix
      <4>3. QED BY <1>9, <2>1, <2>3, <3>1, <4>2
    <3>2. CASE i = Len(log')
      BY <1>7, <1>9, <2>2, <3>2
    <3>3. i # Len(log) + 1
      BY <1>6, <1>9, <2>3
    <3>4. QED BY <1>3, <1>9, <3>1, <3>2, <3>3
  <2>4. QED BY <1>2, <2>2, <2>3 DEF CountInv
<1>16. OutputInv'
  <2>1. \A k \in 1..n-1 : log[k].scope = "process" => log[k].subject # step
    <3>1. \A k \in 1..n-1 : log[k].scope = "process" => log[k].subject < step /\ log[k].subject \in Int
      <4>1. \A k \in 1..n-1 : k \in 1..Len(log)
        BY <1>3
      <4>2. \A k \in 1..n-1 : log[k] \in Reports
        BY <1>3, <4>1, ElementOfSeq
      <4>3. QED BY <1>5, <4>2 DEF Reports
    <3>2. \A s \in Int : s < step => s # step
      BY <1>3
    <3>3. QED BY <3>1, <3>2
  <2>2. ReportedOutput(log', step) <=> \E i \in DOMAIN events : events[i] = "output.stdout"
    <3>1. /\ log'[Len(log) + 1].scope = "process" /\ log'[Len(log) + 1].subject = step
          /\ Closes(log'[Len(log) + 1]) /\ log'[Len(log) + 2].scope = "item"
      BY <1>6, <1>7, <1>9
    <3>2. PICK m \in Nat : m = n
      BY <1>3
    <3>3. EndsItem(log, m, step, events, log')
      BY <1>3, <1>5, <1>9, <2>1, <3>1, <3>2 DEF EndsItem
    <3>4. QED BY <1>3, <1>9, <3>3, ItemOutput
  <2>3. step' - 1 = step /\ step' > 1
    BY <1>2, <1>3
  <2>4. QED BY <1>2, <2>2, <2>3 DEF OutputInv, Held
<1>17. QED BY <1>10, <1>11, <1>12, <1>14, <1>15, <1>16 DEF WorkflowInv

LEMMA FailKeepsInv ==
  ASSUME WorkflowInv, FailStep
  PROVE  WorkflowInv'
<1>1. PICK res \in result : log' = log \o <<ProcessEnd(step, res)>> \o FailureReports(res)
  BY DEF FailStep
<1> DEFINE r2 == ItemReport("failed", step, completed_step_count, res.terminal_cause)
           r3 == RunReport("failed", completed_step_count, res.terminal_cause)
<1>2. /\ pc = "process" /\ pc' = "failed" /\ UNCHANGED file /\ step' = step
      /\ completed_step_count' = completed_step_count /\ current_output' = current_output
      /\ phase' = phase /\ events' = events /\ result' = result
  BY DEF FailStep, process
<1>3. /\ res \in ProcessResults /\ Emitted(events) /\ Len(events) > 0
      /\ step \in Int /\ completed_step_count \in Nat /\ step = completed_step_count + 1
      /\ log \in Seq(Reports) /\ WellNested(log) /\ Len(log) \in Nat
      /\ \E n \in 1..Len(log) : StepBegins(n)
  BY <1>1, <1>2, StepReturned
<1>4. PICK n \in 1..Len(log) : StepBegins(n)
  BY <1>3
<1>5. InItem(log, n, step, events)
  BY <1>4 DEF StepBegins
<1>6. PICK r1 \in Reports : r1 = ProcessEnd(step, res) /\ r1.scope = "process"
                            /\ r1.subject = step /\ Closes(r1) /\ ~Opens(r1)
  BY <1>3, ProcessEndFacts
<1>7. /\ r2 \in Reports /\ r2.scope = "item" /\ r2.name = "failed" /\ r2.subject = step
      /\ r2.done = completed_step_count /\ Closes(r2) /\ ~Opens(r2)
      /\ r3 \in Reports /\ r3.scope = "run" /\ r3.name = "failed" /\ r3.subject = RunSubject
      /\ r3.done = completed_step_count /\ Closes(r3) /\ ~Opens(r3)
  <2>1. "failed" \in Names /\ res.terminal_cause \in Causes
    BY <1>3 DEF Names, Causes, ProcessResults
  <2>2. /\ r2 \in Reports /\ r2.scope = "item" /\ r2.name = "failed"
        /\ r2.subject = step /\ r2.done = completed_step_count
    <3>1. PICK x \in Int, d \in Nat, cause \in Causes :
            x = step /\ d = completed_step_count /\ cause = res.terminal_cause
      BY <1>3, <2>1
    <3>2. r2 = ItemReport("failed", x, d, cause)
      BY <3>1
    <3> HIDE DEF r2
    <3>3. /\ r2 \in Reports /\ r2.scope = "item" /\ r2.name = "failed"
          /\ r2.subject = x /\ r2.done = d
      BY <2>1, <3>2, ItemReportFacts
    <3>4. QED BY <3>1, <3>3
  <2>3. /\ r3 \in Reports /\ r3.scope = "run" /\ r3.name = "failed"
        /\ r3.subject = RunSubject /\ r3.done = completed_step_count
    <3>1. PICK d \in Nat, cause \in Causes :
            d = completed_step_count /\ cause = res.terminal_cause
      BY <1>3, <2>1
    <3>2. r3 = RunReport("failed", d, cause)
      BY <3>1
    <3> HIDE DEF r3
    <3>3. /\ r3 \in Reports /\ r3.scope = "run" /\ r3.name = "failed"
          /\ r3.subject = RunSubject /\ r3.done = d
      BY <2>1, <3>2, RunReportFacts
    <3>4. QED BY <3>1, <3>3
  <2> HIDE DEF r2, r3
  <2>4. QED BY <2>2, <2>3 DEF Closes, Opens
<1>8. log' = log \o <<r1>> \o <<r2, r3>>
  BY <1>1, <1>6 DEF FailureReports
<1> HIDE DEF r2, r3
<1> DEFINE mid == Append(Append(log, r1), r2)
<1>9. log' = Append(mid, r3)
  <2>1. PICK q2 \in Reports, q3 \in Reports : q2 = r2 /\ q3 = r3
    BY <1>7
  <2>2. log' = log \o <<r1>> \o <<q2, q3>>
    BY <1>8, <2>1
  <2>3. log' = Append(Append(Append(log, r1), q2), q3)
    BY <1>3, <2>2, SeveralReports
  <2>4. QED BY <2>1, <2>3
<1>10. /\ mid \in Seq(Reports) /\ WellNested(mid) /\ BetweenItems(mid)
       /\ Len(mid) = Len(log) + 2 /\ \A k \in 1..Len(log) : mid[k] = log[k]
       /\ mid[Len(log) + 1] = r1 /\ mid[Len(log) + 2] = r2
  BY <1>3, <1>5, <1>6, <1>7, ItemEnds
<1> HIDE DEF mid
<1>11. /\ log' \in Seq(Reports) /\ WellNested(log') /\ AllClosed(log')
       /\ Len(log') = Len(mid) + 1 /\ \A k \in 1..Len(mid) : log'[k] = mid[k]
       /\ log'[Len(mid) + 1] = r3
  BY <1>7, <1>9, <1>10, RunEnds
<1>12. /\ Len(log') = Len(log) + 3 /\ \A k \in 1..Len(log) : log'[k] = log[k]
       /\ log'[Len(log) + 1] = r1 /\ log'[Len(log) + 2] = r2 /\ log'[Len(log) + 3] = r3
  <2>1. \A k \in 1..Len(log) : k \in 1..Len(mid)
    BY <1>3, <1>10
  <2>2. Len(log) + 1 \in 1..Len(mid) /\ Len(log) + 2 \in 1..Len(mid)
        /\ Len(mid) + 1 = Len(log) + 3
    BY <1>3, <1>10
  <2>3. QED BY <1>10, <1>11, <2>1, <2>2
<1>13. TypeInv' /\ FileInv'
  BY <1>2, <1>11, FileStays DEF WorkflowInv, TypeInv, Labels
<1>14. StepInv'
  BY <1>2 DEF WorkflowInv, StepInv, file
<1>15. ProcessInv'
  BY <1>2 DEF WorkflowInv, ProcessInv
<1>16. LogInv'
  BY <1>2, <1>11 DEF LogInv
<1>17. CountInv'
  <2>1. ReportedDone(log, Len(log)) = 1..completed_step_count
        /\ \A i \in 1..Len(log) : log[i].scope # "process" =>
             ReportedDone(log, i) = 1..log[i].done
    BY DEF WorkflowInv, CountInv
  <2>2. /\ ReportedDone(log', Len(log) + 3) = ReportedDone(log, Len(log))
        /\ ReportedDone(log', Len(log) + 2) = ReportedDone(log, Len(log))
    <3>1. ReportedDone(mid, Len(mid)) = ReportedDone(log, Len(log)) \cup {}
      BY <1>3, <1>6, <1>7, <1>10, ItemDone
    <3>2. ReportedDone(log', Len(log')) = ReportedDone(mid, Len(mid))
      <4>1. Len(mid) <= Len(log')
            /\ \A k \in Len(mid)+1..Len(log') : log'[k].scope # "item"
        BY <1>3, <1>7, <1>10, <1>11, <1>12
      <4>2. QED BY <1>10, <1>11, <4>1, DoneUnchanged
    <3>3. ReportedDone(log', Len(mid)) = ReportedDone(mid, Len(mid))
      <4>1. Len(mid) <= Len(log') /\ Len(mid) \in 1..Len(mid)
        BY <1>3, <1>10, <1>12
      <4>2. QED BY <1>10, <1>11, <4>1, DoneOfPrefix
    <3>4. QED BY <1>10, <1>12, <3>1, <3>2, <3>3
  <2>3. ASSUME NEW i \in 1..Len(log'), log'[i].scope # "process"
        PROVE  ReportedDone(log', i) = 1..log'[i].done
    <3>1. CASE i \in 1..Len(log)
      <4>1. Len(log) <= Len(log')
        BY <1>3, <1>12
      <4>2. ReportedDone(log', i) = ReportedDone(log, i)
        BY <1>3, <1>11, <1>12, <3>1, <4>1, DoneOfPrefix
      <4>3. QED BY <1>12, <2>1, <2>3, <3>1, <4>2
    <3>2. CASE i = Len(log) + 2 \/ i = Len(log) + 3
      BY <1>7, <1>12, <2>1, <2>2, <3>2
    <3>3. i # Len(log) + 1
      BY <1>6, <1>12, <2>3
    <3>4. QED BY <1>3, <1>12, <3>1, <3>2, <3>3
  <2>4. QED BY <1>2, <1>12, <2>1, <2>2, <2>3 DEF CountInv
<1>18. OutputInv'
  BY <1>2 DEF OutputInv
<1>19. QED BY <1>13, <1>14, <1>15, <1>16, <1>17, <1>18 DEF WorkflowInv

LEMMA CompleteKeepsInv ==
  ASSUME WorkflowInv, Complete
  PROVE  WorkflowInv'
<1> DEFINE r == RunReport("completed", step_count, "exit_zero")
<1>1. /\ pc = "step" /\ pc' = "completed" /\ step > step_count /\ log' = Append(log, r)
      /\ step' = step /\ completed_step_count' = completed_step_count
      /\ current_output' = current_output /\ UNCHANGED file
      /\ phase' = phase /\ events' = events /\ result' = result
  BY DEF Complete, process
<1>2. /\ step \in Int /\ completed_step_count \in Nat /\ step_count \in Nat
      /\ log \in Seq(Reports) /\ WellNested(log) /\ BetweenItems(log)
      /\ step = completed_step_count + 1 /\ step <= step_count + 1
      /\ \A k \in 1..Len(log) : log[k].scope = "process" => log[k].subject < step
      /\ current_output = Held /\ step_count' = step_count
  BY <1>1 DEF WorkflowInv, TypeInv, LogInv, StepInv, OutputInv, file
<1>3. step = step_count + 1 /\ completed_step_count = step_count
  BY <1>1, <1>2
<1>4. /\ r \in Reports /\ r.scope = "run" /\ r.name = "completed" /\ r.subject = RunSubject
      /\ r.done = step_count /\ Closes(r) /\ ~Opens(r)
  <2>1. "completed" \in Names /\ "exit_zero" \in Causes
    BY DEF Names, Causes, TerminalCauses
  <2>2. /\ r \in Reports /\ r.scope = "run" /\ r.name = "completed"
        /\ r.subject = RunSubject /\ r.done = step_count
    BY <1>2, <2>1, RunReportFacts
  <2> HIDE DEF r
  <2>3. QED BY <2>2 DEF Closes, Opens
<1> HIDE DEF r
<1>5. /\ log' \in Seq(Reports) /\ WellNested(log') /\ AllClosed(log')
      /\ Len(log') = Len(log) + 1 /\ \A k \in 1..Len(log) : log'[k] = log[k]
      /\ log'[Len(log) + 1] = r
  BY <1>1, <1>2, <1>4, RunEnds
<1>6. Len(log) \in Nat
  BY <1>2, LenProperties
<1>7. TypeInv' /\ FileInv'
  BY <1>1, <1>5, FileStays DEF WorkflowInv, TypeInv, Labels
<1>8. StepInv' /\ ProcessInv'
  BY <1>1, <1>2, <1>3 DEF WorkflowInv, StepInv, ProcessInv
<1>9. LogInv'
  <2>1. ASSUME NEW k \in 1..Len(log'), log'[k].scope = "process"
        PROVE  log'[k].subject < step
    <3>1. k # Len(log) + 1
      BY <1>4, <1>5, <2>1
    <3>2. k \in 1..Len(log)
      BY <1>5, <1>6, <3>1
    <3>3. QED BY <1>2, <1>5, <2>1, <3>2
  <2>2. QED BY <1>1, <1>5, <2>1 DEF LogInv
<1>10. CountInv'
  <2>1. ReportedDone(log, Len(log)) = 1..completed_step_count
        /\ \A i \in 1..Len(log) : log[i].scope # "process" =>
             ReportedDone(log, i) = 1..log[i].done
    BY DEF WorkflowInv, CountInv
  <2>2. Len(log) <= Len(log')
    BY <1>5, <1>6
  <2>3. ReportedDone(log', Len(log')) = ReportedDone(log, Len(log))
    <3>1. \A k \in Len(log)+1..Len(log') : log'[k].scope # "item"
      BY <1>4, <1>5, <1>6
    <3>2. QED BY <1>2, <1>5, <2>2, <3>1, DoneUnchanged
  <2>4. ASSUME NEW i \in 1..Len(log'), log'[i].scope # "process"
        PROVE  ReportedDone(log', i) = 1..log'[i].done
    <3>1. CASE i \in 1..Len(log)
      <4>1. ReportedDone(log', i) = ReportedDone(log, i)
        BY <1>2, <1>5, <2>2, <3>1, DoneOfPrefix
      <4>2. QED BY <1>5, <2>1, <2>4, <3>1, <4>1
    <3>2. CASE i = Len(log')
      BY <1>3, <1>4, <1>5, <2>1, <2>3, <3>2
    <3>3. QED BY <1>5, <1>6, <3>1, <3>2
  <2>5. Len(log') > 0 /\ log'[Len(log')].done = step_count
    BY <1>4, <1>5, <1>6
  <2>6. QED BY <1>1, <1>2, <2>1, <2>3, <2>4, <2>5 DEF CountInv
<1>11. OutputInv'
  <2>1. ReportedOutput(log', step - 1) <=> ReportedOutput(log, step - 1)
    <3>1. Len(log) <= Len(log')
          /\ \A k \in Len(log)+1..Len(log') : log'[k].scope # "process"
      BY <1>4, <1>5, <1>6
    <3>2. QED BY <1>2, <1>5, <3>1, OutputStays
  <2>2. QED BY <1>1, <1>2, <2>1 DEF OutputInv, Held
<1>12. QED BY <1>7, <1>8, <1>9, <1>10, <1>11 DEF WorkflowInv

LEMMA WorkflowKeepsInv ==
  ASSUME WorkflowInv, Load \/ Execute
  PROVE  WorkflowInv'
BY LoadKeepsInv, BeginKeepsInv, StartKeepsInv, RunKeepsInv,
   CompleteStepKeepsInv, FailKeepsInv, CompleteKeepsInv DEF Execute

\* Nothing that the invariant speaks of has changed.
LEMMA InvStutters ==
  ASSUME WorkflowInv, UNCHANGED vars
  PROVE  WorkflowInv'
<1>1. /\ text' = text /\ cursor' = cursor /\ step_count' = step_count /\ pc' = pc
      /\ step' = step /\ completed_step_count' = completed_step_count
      /\ current_output' = current_output /\ log' = log
      /\ phase' = phase /\ events' = events /\ result' = result
  BY DEF vars, file, process
<1>2. TypeInv' /\ FileInv' /\ StepInv' /\ ProcessInv'
  BY <1>1 DEF WorkflowInv, TypeInv, FileInv, StepInv, ProcessInv
<1>3. CountInv' /\ OutputInv'
  BY <1>1 DEF WorkflowInv, CountInv, OutputInv, Held
<1>4. LogInv'
  BY <1>1 DEF WorkflowInv, LogInv, StepBegins
<1>5. QED BY <1>2, <1>3, <1>4 DEF WorkflowInv

(***************************************************************************)
(* Repeating the workflow.                                                 *)
(***************************************************************************)

LEMMA FirstWorkflow ==
  ASSUME Init
  PROVE  WorkflowInv
<1>1. /\ cursor = 0 /\ pc = "load" /\ step_count = 0 /\ step = 1 /\ completed_step_count = 0
      /\ current_output = NoOutput /\ log = <<>>
      /\ phase = "idle" /\ events = <<>> /\ result = {}
  BY DEF Init, Process!Init
<1>2. text \in Seq(LineKinds) /\ Len(text) \in Nat
  <2>1. PICK n \in 0..MaxLines : text \in [1..n -> LineKinds]
    BY DEF Init
  <2>2. n \in Nat
    BY <2>1, MaxLinesAssumption
  <2>3. text \in Seq(LineKinds)
    BY <2>1, <2>2, SeqDef
  <2>4. QED BY <2>3, LenProperties
<1>3. FileInv
  <2>1. 1..0 = {} /\ {i \in 1..0 : text[i] = "command"} = {}
    OBVIOUS
  <2>2. Cardinality({}) = 0
    BY FS_EmptySet
  <2>3. QED BY <1>1, <2>1, <2>2 DEF FileInv
<1>4. TypeInv /\ StepInv /\ OutputInv
  BY <1>1, <1>2, EmptyLog DEF TypeInv, StepInv, OutputInv, Labels, NoOutput
<1>5. ProcessInv
  BY <1>1, EmptyIsEmitted DEF ProcessInv
<1>6. LogInv /\ CountInv
  <2>1. 1..Len(log) = {}
    BY <1>1, EmptyLog
  <2>2. QED BY <1>1, <2>1, EmptyLog, EmptyIsNested DEF LogInv, CountInv
<1>7. QED BY <1>3, <1>4, <1>5, <1>6 DEF WorkflowInv

LEMMA RunAgainKeepsInv ==
  ASSUME IInv, RunAgain
  PROVE  IInv'
<1>1. /\ pc = "completed" /\ pc' = "start" /\ step' = 1 /\ completed_step_count' = 0
      /\ current_output' = NoOutput /\ log' = <<>> /\ UNCHANGED file
      /\ phase' = "idle" /\ events' = <<>> /\ result' = {}
  BY DEF RunAgain
<1>2. WorkflowInv
  BY DEF IInv
<1>3. TypeInv' /\ FileInv'
  BY <1>1, <1>2, FileStays, EmptyLog DEF TypeInv, Labels, NoOutput
<1>4. StepInv' /\ OutputInv'
  BY <1>1 DEF StepInv, OutputInv
<1>5. ProcessInv'
  BY <1>1, EmptyIsEmitted DEF ProcessInv
<1>6. LogInv' /\ CountInv'
  <2>1. 1..Len(log') = {}
    BY <1>1, EmptyLog
  <2>2. QED BY <1>1, <2>1, EmptyLog, EmptyIsNested DEF LogInv, CountInv
<1>7. MainInv'
  BY DEF IInv, MainInv, RunAgain
<1>8. QED BY <1>3, <1>4, <1>5, <1>6, <1>7 DEF IInv, WorkflowInv

LEMMA NextKeepsInv == IInv /\ [PipelineNext]_<<vars, main>> => IInv'
<1> SUFFICES ASSUME IInv, [PipelineNext]_<<vars, main>>
             PROVE  IInv'
  OBVIOUS
<1>1. WorkflowInv /\ MainInv
  BY DEF IInv
<1>2. CASE (Load \/ Execute) /\ UNCHANGED main
  <2>1. WorkflowInv'
    BY <1>1, <1>2, WorkflowKeepsInv
  <2>2. pc # "completed"
    BY <1>2 DEF Load, ReadLine, Reject, Loaded, Execute, Begin, StartStep, RunProcess,
         AbortStep, CompleteStep, FailStep, Complete
  <2>3. MainInv'
    BY <1>1, <1>2, <2>2 DEF MainInv, main
  <2>4. QED BY <2>1, <2>3 DEF IInv
<1>3. CASE RunAgain
  BY <1>3, RunAgainKeepsInv
<1>4. CASE PrintOutput
  <2>1. WorkflowInv' /\ current_output' = current_output /\ pc' = pc
    BY <1>1, <1>4, InvStutters DEF PrintOutput, vars
  <2>2. MainInv'
    BY <1>1, <1>4, <2>1 DEF MainInv, PrintOutput, Returned
  <2>3. QED BY <2>1, <2>2 DEF IInv
<1>5. CASE Catch \/ Die
  <2>1. WorkflowInv'
    BY <1>1, <1>5, InvStutters DEF Catch, Die
  <2>2. MainInv'
    BY <1>1, <1>5 DEF MainInv, Catch, Die
  <2>3. QED BY <2>1, <2>2 DEF IInv
<1>6. CASE UNCHANGED <<vars, main>>
  <2>1. WorkflowInv' /\ current_output' = current_output /\ pc' = pc
    BY <1>1, <1>6, InvStutters DEF vars
  <2>2. MainInv'
    BY <1>1, <1>6, <2>1 DEF MainInv, main
  <2>3. QED BY <2>1, <2>2 DEF IInv
<1>7. QED BY <1>2, <1>3, <1>4, <1>5, <1>6 DEF PipelineNext, Exited

\* The inductive invariant of main with --workflow: what has been reported so far,
\* where the current step began in it, and what is held for the next step.
THEOREM Inductive == PipelineSpec => []IInv
<1>1. PipelineInit => IInv
  BY FirstWorkflow DEF PipelineInit, IInv, MainInv
<1>2. QED BY <1>1, NextKeepsInv, PTL DEF PipelineSpec

(***************************************************************************)
(* The properties.                                                         *)
(***************************************************************************)

\* run_workflow calls event_sink so that a reader of the stream can pair every
\* start with its end, at any exit codes and for any file, and so that the counter
\* of each report tells how many steps were reported complete.
THEOREM ReportsAreNested == PipelineSpec => []ReportsNest
<1>1. IInv => ReportsNest
  <2> SUFFICES ASSUME IInv PROVE ReportsNest
    OBVIOUS
  <2>1. /\ WellNested(log) /\ (pc \in {"completed", "failed"} => AllClosed(log))
        /\ \A i \in 1..Len(log) : log[i].scope # "process" =>
             ReportedDone(log, i) = 1..log[i].done
        /\ pc = "completed" => log[Len(log)].done = step_count
    BY DEF IInv, WorkflowInv, LogInv, CountInv
  <2>2. pc = "completed" => step_count = Cardinality(Commands)
    <3>1. DOMAIN text = 1..Len(text)
      BY LenProperties DEF IInv, WorkflowInv, TypeInv
    <3>2. QED BY <3>1 DEF IInv, WorkflowInv, FileInv, Commands
  <2>3. QED BY <2>1, <2>2 DEF ReportsNest
<1>2. QED BY <1>1, Inductive, PTL

\* run_workflow hands each step the stdout of the step before it and of no other,
\* and nothing when that step wrote nothing.
THEOREM StepsAreFed == PipelineSpec => []FedByPredecessor
<1>1. IInv => FedByPredecessor
  BY DEF IInv, WorkflowInv, OutputInv, Held, FedByPredecessor
<1>2. QED BY <1>1, Inductive, PTL

\* main prints what the last command of the last run wrote, once every run that
\* --benchmark asks for has completed, and prints no output when one has failed.
THEOREM OutputIsLast == PipelineSpec => []OutputIsOfLastRun
<1>1. IInv => OutputIsOfLastRun
  <2> SUFFICES ASSUME IInv, exit_status = "0"
               PROVE  /\ iteration = iterations
                      /\ printed = IF ReportedOutput(log, Cardinality(Commands))
                                   THEN Cardinality(Commands) ELSE NoOutput
    BY DEF OutputIsOfLastRun, IInv, MainInv
  <2>1. /\ pc = "completed" /\ iteration = iterations /\ printed = Held
        /\ step = step_count + 1 /\ step_count \in Nat /\ step_count > 0
    BY DEF IInv, MainInv, WorkflowInv, OutputInv, StepInv, FileInv, TypeInv
  <2>2. step_count = Cardinality(Commands)
    <3>1. DOMAIN text = 1..Len(text)
      BY LenProperties DEF IInv, WorkflowInv, TypeInv
    <3>2. QED BY <2>1, <3>1 DEF IInv, WorkflowInv, FileInv, Commands
  <2>3. step > 1 /\ step - 1 = Cardinality(Commands)
    BY <2>1, <2>2
  <2>4. QED BY <2>1, <2>3 DEF Held
<1>2. QED BY <1>1, Inductive, PTL

(***************************************************************************)
(* A workflow is a run of the chain of its commands.                       *)
(***************************************************************************)

LEMMA ChainFacts ==
  ASSUME TypeInv
  PROVE  /\ \E n \in Nat : DOMAIN Chain = 1..n
         /\ \A x \in DOMAIN Chain : Chain[x] = IF x = 1 THEN {} ELSE {x - 1}
         /\ FileInv /\ pc \notin {"load", "rejected"} => DOMAIN Chain = 1..step_count
<1>1. DOMAIN text = 1..Len(text) /\ Len(text) \in Nat
  BY LenProperties DEF TypeInv
<1>2. Cardinality(Commands) \in Nat
  <2>1. IsFiniteSet(1..Len(text)) /\ Commands \subseteq 1..Len(text)
    BY <1>1, FS_Interval DEF Commands
  <2>2. IsFiniteSet(Commands)
    BY <2>1, FS_Subset
  <2>3. QED BY <2>2, FS_CardinalityType
<1> DEFINE n == IF \E l \in DOMAIN text : text[l] = "faulty" THEN 0 ELSE Cardinality(Commands)
<1>3. n \in Nat
  BY <1>2
<1>4. DOMAIN Chain = 1..n /\ \A x \in 1..n : Chain[x] = IF x = 1 THEN {} ELSE {x - 1}
  BY DEF Chain
<1>5. ASSUME FileInv, pc \notin {"load", "rejected"}
      PROVE  n = step_count
  <2>1. cursor = Len(text) /\ \A i \in 1..Len(text) : text[i] # "faulty"
    BY <1>5 DEF FileInv
  <2>2. step_count = Cardinality(Commands)
    BY <1>1, <1>5, <2>1 DEF FileInv, Commands
  <2>3. QED BY <1>1, <2>1, <2>2
<1> HIDE DEF n
<1>6. QED BY <1>3, <1>4, <1>5

LEMMA WorkflowImplements ==
  ASSUME WorkflowInv, Load \/ Execute
  PROVE  [Run!Next]_Run!vars
<1>1. text' = text
  BY DEF Load, ReadLine, Reject, Loaded, unrun, Execute, Begin, StartStep, RunProcess,
     AbortStep, CompleteStep, FailStep, Complete, file
<1>2. Chain' = Chain
  BY <1>1 DEF Chain, Commands
<1>3. TypeInv /\ FileInv /\ StepInv
  BY DEF WorkflowInv
<1>4. /\ step \in Nat \ {0} /\ step_count \in Nat /\ completed_step_count \in Nat
      /\ step = completed_step_count + 1
  BY <1>3 DEF TypeInv, StepInv
<1>5. CASE Load
  BY <1>2, <1>5 DEF Load, ReadLine, Reject, Loaded, unrun, Run!vars, Ended
<1>6. CASE Begin
  BY <1>2, <1>6 DEF Begin, Run!vars, Ended
<1>7. CASE StartStep
  <2>1. /\ pc = "step" /\ pc' = "process" /\ step <= step_count /\ step' = step
        /\ completed_step_count' = completed_step_count
    BY <1>7 DEF StartStep
  <2>2. /\ DOMAIN Chain = 1..step_count
        /\ \A x \in DOMAIN Chain : Chain[x] = IF x = 1 THEN {} ELSE {x - 1}
    BY <1>3, <2>1, ChainFacts
  <2>3. step \in 1..step_count /\ step \notin 1..completed_step_count
    BY <1>4, <2>1
  <2>4. Chain[step] \subseteq 1..completed_step_count
    BY <1>4, <2>2, <2>3
  <2>5. Run!Begin(step)
    BY <1>2, <2>1, <2>3, <2>4 DEF Run!Begin, Ended
  <2>6. QED BY <2>2, <2>3, <2>5 DEF Run!Next, Run!Items
<1>8. CASE RunProcess
  BY <1>2, <1>8 DEF RunProcess, Run!vars, Ended
<1>9. CASE AbortStep
  <2>1. Run!Stop
    BY <1>2, <1>9 DEF AbortStep, Run!Stop, Ended
  <2>2. QED BY <2>1 DEF Run!Next
<1>10. CASE CompleteStep
  <2>1. /\ pc = "process" /\ pc' = "step" /\ completed_step_count' = completed_step_count + 1
    BY <1>10 DEF CompleteStep
  <2>2. 1..completed_step_count' = (1..completed_step_count) \cup {step}
    BY <1>4, <2>1
  <2>3. Run!Succeed
    BY <1>2, <2>1, <2>2 DEF Run!Succeed, Ended
  <2>4. QED BY <2>3 DEF Run!Next
<1>11. CASE FailStep
  <2>1. Run!Stop
    BY <1>2, <1>11 DEF FailStep, Run!Stop, Ended
  <2>2. QED BY <2>1 DEF Run!Next
<1>12. CASE Complete
  <2>1. /\ pc = "step" /\ pc' = "completed" /\ step > step_count
        /\ completed_step_count' = completed_step_count
    BY <1>12 DEF Complete
  <2>2. completed_step_count = step_count
    BY <1>3, <1>4, <2>1 DEF StepInv
  <2>3. DOMAIN Chain = 1..completed_step_count /\ completed_step_count > 0
    BY <1>3, <2>1, <2>2, ChainFacts DEF FileInv
  <2>4. DOMAIN Chain # {}
    BY <1>4, <2>3
  <2>5. Run!Complete
    BY <1>2, <2>1, <2>3, <2>4 DEF Run!Complete, Run!Items, Ended
  <2>6. QED BY <2>5 DEF Run!Next
<1>13. QED BY <1>5, <1>6, <1>7, <1>8, <1>9, <1>10, <1>11, <1>12 DEF Execute

\* load_workflow and run_workflow execute the commands of a file that can be parsed
\* in order, one at a time, none after a failure, and complete only when all have;
\* --benchmark repeats only a run that completed.
THEOREM Refinement == PipelineSpec => ImplementsRun
<1>1. PipelineInit => Run!Init
  <2> SUFFICES ASSUME PipelineInit PROVE Run!Init
    OBVIOUS
  <2>1. pc = "load" /\ completed_step_count = 0 /\ 1..0 = {}
    BY DEF PipelineInit, Init
  <2>2. TypeInv
    BY FirstWorkflow DEF PipelineInit, WorkflowInv
  <2>3. PICK n \in Nat : DOMAIN Chain = 1..n
    BY <2>2, ChainFacts
  <2>4. \A x \in DOMAIN Chain : Chain[x] \subseteq DOMAIN Chain
    <3>1. \A x \in DOMAIN Chain : Chain[x] = IF x = 1 THEN {} ELSE {x - 1}
      BY <2>2, ChainFacts
    <3>2. \A x \in 1..n : x # 1 => x - 1 \in 1..n
      BY <2>3
    <3>3. QED BY <2>3, <3>1, <3>2
  <2>5. QED BY <2>1, <2>4 DEF Run!Init, Run!Items, Ended
<1>2. IInv /\ [PipelineNext]_<<vars, main>> => [Run!Next]_Run!vars
  <2> SUFFICES ASSUME IInv, [PipelineNext]_<<vars, main>>
               PROVE  [Run!Next]_Run!vars
    OBVIOUS
  <2>1. WorkflowInv
    BY DEF IInv
  <2>2. CASE (Load \/ Execute) /\ UNCHANGED main
    BY <2>1, <2>2, WorkflowImplements
  <2>3. CASE RunAgain
    <3>1. /\ pc = "completed" /\ pc' = "start" /\ completed_step_count' = 0
          /\ 1..0 = {} /\ text' = text
      BY <2>3 DEF RunAgain, file
    <3>2. Chain' = Chain
      BY <3>1 DEF Chain, Commands
    <3>3. Run!Repeat
      BY <3>1, <3>2 DEF Run!Repeat, Ended
    <3>4. QED BY <3>3 DEF Run!Next
  <2>4. CASE UNCHANGED vars
    <3>1. /\ text' = text /\ pc' = pc /\ step' = step
          /\ completed_step_count' = completed_step_count
      BY <2>4 DEF vars, file
    <3>2. Chain' = Chain
      BY <3>1 DEF Chain, Commands
    <3>3. QED BY <3>1, <3>2 DEF Run!vars, Ended
  <2>5. QED BY <2>2, <2>3, <2>4 DEF PipelineNext, PrintOutput, Catch, Die, Exited
<1>3. QED BY <1>1, <1>2, Inductive, PTL DEF PipelineSpec, ImplementsRun, Run!Spec
==============================================================================

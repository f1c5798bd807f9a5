------------------------ MODULE ProcessRuntime_proofs ------------------------
(***************************************************************************)
(* Proofs about ProcessRuntime, for every command, pipe size and input.    *)
(***************************************************************************)
EXTENDS ProcessRuntime, SequenceTheorems, TLAPS

(***************************************************************************)
(* Appending to the short event sequences of a run.                        *)
(***************************************************************************)

LEMMA AppendToOne ==
  ASSUME NEW a, NEW b
  PROVE  Append(<<a>>, b) = <<a, b>>
<1>1. <<a>> \in Seq({a, b}) /\ Len(<<a>>) = 1 /\ <<a>>[1] = a
  OBVIOUS
<1>2. Append(<<a>>, b) \in Seq({a, b}) /\ <<a, b>> \in Seq({a, b})
  BY <1>1
<1>3. Len(Append(<<a>>, b)) = 2 /\ Len(<<a, b>>) = 2
  BY <1>1
<1>4. \A i \in 1..2 : Append(<<a>>, b)[i] = <<a, b>>[i]
  BY <1>1
<1>5. QED BY <1>2, <1>3, <1>4, SeqEqual

LEMMA AppendToTwo ==
  ASSUME NEW a, NEW b, NEW c
  PROVE  Append(<<a, b>>, c) = <<a, b, c>>
<1>1. /\ <<a, b>> \in Seq({a, b, c}) /\ Len(<<a, b>>) = 2
      /\ <<a, b>>[1] = a /\ <<a, b>>[2] = b
  OBVIOUS
<1>2. Append(<<a, b>>, c) \in Seq({a, b, c}) /\ <<a, b, c>> \in Seq({a, b, c})
  BY <1>1
<1>3. Len(Append(<<a, b>>, c)) = 3 /\ Len(<<a, b, c>>) = 3
  BY <1>1
<1>4. \A i \in 1..3 : Append(<<a, b>>, c)[i] = <<a, b, c>>[i]
  BY <1>1
<1>5. QED BY <1>2, <1>3, <1>4, SeqEqual

(***************************************************************************)
(* Type correctness.                                                       *)
(***************************************************************************)

\* A command's own step writes only its process, its pipes and its status.
LEMMA DiesTyped ==
  ASSUME TypeOK, NEW m \in Members, NEW st \in Statuses, Dies(m, st)
  PROVE  TypeOK'
BY DEF TypeOK, Dies, runner, inputs, control, reading, report, pipes, Members

LEMMA SignalGroupTyped ==
  ASSUME TypeOK, NEW signal \in Signals, SignalGroup(signal)
  PROVE  pending' \in [Members -> SUBSET Signals]
BY DEF TypeOK, SignalGroup

LEMMA ExitCodesNat == ExitCodes \subseteq Nat
<1>1. 0..255 \subseteq Nat
  OBVIOUS
<1>2. QED BY <1>1, ExitCodesAssumption

LEMMA CollectResultTyped ==
  ASSUME NEW st \in Statuses, NEW stopped \in BOOLEAN
  PROVE  CollectResult(st, stopped) \in ProcessResults
<1>1. CASE st.kind = "exited"
  <2>1. st.code \in ExitCodes
    BY <1>1 DEF Statuses
  <2>2. st.code \in Nat
    BY <2>1, ExitCodesNat
  <2>3. QED BY <1>1, <2>2 DEF CollectResult, ProcessResults, TerminalCauses
<1>2. CASE st.kind # "exited"
  <2>1. st.code \in Nat
    BY <1>2 DEF Statuses, Signals, SIGKILL, SIGTERM, SIGSEGV
  <2>2. QED BY <1>2, <2>1 DEF CollectResult, ProcessResults, TerminalCauses
<1>3. QED BY <1>1, <1>2

LEMMA OutputEventsTyped ==
  ASSUME NEW S, "output.stdout" \in S, "output.stderr" \in S,
         NEW out
  PROVE  OutputEvents(out) \in Seq(S)
<1>1. <<>> \in Seq(S) /\ <<"output.stdout">> \in Seq(S)
        /\ <<"output.stderr">> \in Seq(S)
  OBVIOUS
<1>2. QED BY <1>1 DEF OutputEvents

LEMMA ControlEventsTyped ==
  ASSUME NEW S, "started" \in S, "stop.requested" \in S, "kill.sent" \in S
  PROVE  ControlEvents \in Seq(S)
BY DEF ControlEvents

LEMMA InitTyped == Init => TypeOK
<1>1. [kind |-> "exited", code |-> 0] \in Statuses
  BY ExitCodesAssumption DEF Statuses
<1>2. 0 \in 0..PipeCapacity /\ 0..MaxInput \subseteq Nat
  BY SizesAssumption
<1>3. <<>> \in Seq(EventNames)
  OBVIOUS
<1>4. Init => pipe \in [Streams -> 0..PipeCapacity] /\ stdin \in 0..PipeCapacity
  BY <1>2 DEF Init
<1>5. Init => revents \in [Streams -> SUBSET {"in", "hup"}]
  BY DEF Init
<1>6. Init => /\ member \in [Members -> {"unborn", "live", "zombie", "gone"}]
              /\ pending \in [Members -> SUBSET Signals]
              /\ holds \in [Members -> SUBSET Ends]
  BY DEF Init
<1>7. Init => /\ detached \subseteq Members /\ trapped \subseteq Members
              /\ captured \subseteq Streams /\ open \subseteq Streams
              /\ result \subseteq ProcessResults
  BY DEF Init
<1>8. QED BY <1>1, <1>2, <1>3, <1>4, <1>5, <1>6, <1>7 DEF Init, TypeOK

\* Whatever call fails, the runner throws, and at most one event has been added.
LEMMA FailureEffect ==
  ASSUME Failure
  PROVE  /\ pc \in {"spawn", "reap", "timer", "poll", "stdout", "stderr"}
         /\ pc' = "threw" /\ open' = {}
         /\ UNCHANGED <<timed, unsent, child_running, stop_requested, kill_sent,
                        clock, revents, captured, result, stdin, pipe>>
         /\ UNCHANGED <<detached, trapped, pending, status>>
         /\ \/ UNCHANGED <<member, holds>>
            \/ /\ pc = "spawn"
               /\ member' = [member EXCEPT ![Leader] = "live"]
               /\ holds' = [holds EXCEPT ![Leader] = Ends]
         /\ \/ UNCHANGED events
            \/ pc = "timer" /\ StopDue /\ events' = Append(events, "stop.requested")
            \/ pc = "timer" /\ KillDue /\ events' = Append(events, "kill.sent")
<1> USE DEF Throw, inputs, control, pipes, group
<1>1. CASE SpawnFails BY <1>1 DEF SpawnFails
<1>2. CASE ReapFails BY <1>2 DEF ReapFails
<1>3. CASE SignalFails BY <1>3 DEF SignalFails
<1>4. CASE PollFails BY <1>4 DEF PollFails
<1>5. ASSUME NEW s \in Streams, ReadFails(s)
      PROVE  pc \in {"stdout", "stderr"} /\ Throw /\ UNCHANGED <<events, group>>
  BY <1>5 DEF ReadFails, Streams
<1>6. QED BY <1>1, <1>2, <1>3, <1>4, <1>5 DEF Failure

LEMMA FailureTyped ==
  ASSUME TypeOK, Failure
  PROVE  TypeOK'
<1> USE FailureEffect DEF TypeOK
<1>1. /\ member' \in [Members -> {"unborn", "live", "zombie", "gone"}]
      /\ holds' \in [Members -> SUBSET Ends]
  OBVIOUS
<1>2. events' \in Seq(EventNames)
  <2>1. ASSUME NEW e \in EventNames PROVE Append(events, e) \in Seq(EventNames)
    OBVIOUS
  <2>2. "stop.requested" \in EventNames /\ "kill.sent" \in EventNames
    BY DEF EventNames
  <2>3. \/ UNCHANGED events
        \/ \E e \in {"stop.requested", "kill.sent"} : events' = Append(events, e)
    BY FailureEffect
  <2>4. QED BY <2>1, <2>2, <2>3
<1>3. QED BY <1>1, <1>2

LEMMA RunnerTyped ==
  ASSUME TypeOK, Runner
  PROVE  TypeOK'
<1> USE SizesAssumption DEF TypeOK, inputs, control, reading, report, group,
                            pipes, Streams
<1>1. CASE Spawn
  BY <1>1 DEF Spawn, EventNames, Ends, Members
<1>3. CASE FeedStdin BY <1>3 DEF FeedStdin
<1>4. CASE FeedBroken BY <1>4 DEF FeedBroken
<1>5. CASE CloseStdin BY <1>5 DEF CloseStdin
<1>6. CASE ReapChild BY <1>6 DEF ReapChild
<1>7. CASE NothingToReap BY <1>7 DEF NothingToReap
<1>8. CASE RequestStop
  <2>1. pending' \in [Members -> SUBSET Signals]
    BY <1>8, SignalGroupTyped DEF RequestStop, Signals
  <2>2. QED BY <1>8, <2>1 DEF RequestStop, EventNames
<1>9. CASE SendKill
  <2>1. pending' \in [Members -> SUBSET Signals]
    BY <1>9, SignalGroupTyped DEF SendKill, Signals
  <2>2. QED BY <1>9, <2>1 DEF SendKill, EventNames
<1>10. CASE NoSignalDue BY <1>10 DEF NoSignalDue
<1>11. CASE Poll BY <1>11 DEF Poll, Readiness
<1>12. ASSUME NEW s \in Streams, ReadStream(s) PROVE TypeOK'
  BY <1>12 DEF ReadStream, AfterDrain
<1>13. ASSUME NEW s \in Streams, CloseStream(s) PROVE TypeOK'
  BY <1>13 DEF CloseStream, AfterDrain
<1>14. ASSUME NEW s \in Streams, SkipStream(s) PROVE TypeOK'
  BY <1>14 DEF SkipStream, AfterDrain
<1>15. CASE Return
  <2>1. result' \subseteq ProcessResults
    BY <1>15, CollectResultTyped DEF Return
  <2>2. events' \in Seq(EventNames)
    BY <1>15, OutputEventsTyped DEF Return, EventNames
  <2>3. QED BY <1>15, <2>1, <2>2 DEF Return
<1>16. QED
  BY <1>1, <1>3, <1>4, <1>5, <1>6, <1>7, <1>8, <1>9, <1>10, <1>11,
     <1>12, <1>13, <1>14, <1>15
     DEF Runner, Supervise

LEMMA CommandTyped ==
  ASSUME TypeOK, NEW m \in Members,
         \/ Exit(m) \/ DieBySignal(m) \/ Detach(m) \/ TrapTerm(m) \/ ReadStdin(m)
         \/ \E d \in Descendants : Fork(m, d)
         \/ \E e \in Ends : CloseEnd(m, e)
         \/ \E s \in Streams : WriteOutput(m, s)
  PROVE  TypeOK'
<1> USE SizesAssumption DEF TypeOK, runner, inputs, control, reading, report,
                            group, pipes
<1>1. CASE Exit(m) BY <1>1, DiesTyped DEF Exit
<1>2. CASE DieBySignal(m)
  <2>1. PICK signal \in pending[m] :
          Dies(m, [kind |-> "signaled", code |-> signal])
    BY <1>2 DEF DieBySignal
  <2>2. [kind |-> "signaled", code |-> signal] \in Statuses
    BY <2>1 DEF Statuses
  <2>3. QED BY <2>1, <2>2, DiesTyped
<1>3. CASE Detach(m) BY <1>3 DEF Detach
<1>4. CASE TrapTerm(m) BY <1>4 DEF TrapTerm
<1>5. CASE ReadStdin(m) BY <1>5 DEF ReadStdin
<1>6. ASSUME NEW d \in Descendants, Fork(m, d) PROVE TypeOK'
  BY <1>6 DEF Fork, Members
<1>7. ASSUME NEW e \in Ends, CloseEnd(m, e) PROVE TypeOK'
  BY <1>7 DEF CloseEnd
<1>8. ASSUME NEW s \in Streams, WriteOutput(m, s) PROVE TypeOK'
  BY <1>8 DEF WriteOutput
<1>9. QED BY <1>1, <1>2, <1>3, <1>4, <1>5, <1>6, <1>7, <1>8

LEMMA TypeStep == TypeOK /\ [Next]_vars => TypeOK'
<1> SUFFICES ASSUME TypeOK, [Next]_vars PROVE TypeOK'
  OBVIOUS
<1>1. CASE Runner BY <1>1, RunnerTyped
<1>2. CASE Time
  BY <1>2 DEF Time, TimeoutElapses, GraceElapses, TypeOK, runner, inputs,
              control, reading, report, group, pipes
<1>3. CASE Command BY <1>3, CommandTyped DEF Command
<1>4. CASE UNCHANGED vars
  BY <1>4 DEF vars, TypeOK, runner, inputs, control, reading, report, group,
              pipes
<1>5. CASE Failure BY <1>5, FailureTyped
<1>6. QED BY <1>1, <1>2, <1>3, <1>4, <1>5 DEF Next, Done

\* Every variable keeps its type in every reachable state: the pipes never hold
\* more than their capacity and a read never takes what is not there.
THEOREM TypeCorrect == Spec => []TypeOK
BY InitTyped, TypeStep, PTL DEF Spec

(***************************************************************************)
(* The inductive invariant, one conjunct at a time.                        *)
(***************************************************************************)

LEMMA ReapStep ==
  ASSUME TypeOK, KernelInv, ReapInv, [Next]_vars
  PROVE  ReapInv'
<1> USE MembersAssumption DEF TypeOK, ReapInv, Collecting, Live, Active, Members,
        inputs, control, reading, report, group, pipes
<1>1. CASE Spawn BY <1>1 DEF Spawn
<1>2. CASE FeedStdin \/ FeedBroken \/ CloseStdin
  BY <1>2 DEF FeedStdin, FeedBroken, CloseStdin
<1>3. CASE ReapChild BY <1>3 DEF ReapChild
<1>4. CASE NothingToReap \/ NoSignalDue \/ Poll
  BY <1>4 DEF NothingToReap, NoSignalDue, Poll
<1>5. CASE RequestStop \/ SendKill
  BY <1>5 DEF RequestStop, SendKill
<1>6. ASSUME NEW s \in Streams, ReadStream(s) \/ CloseStream(s) \/ SkipStream(s)
      PROVE  ReapInv'
  BY <1>6 DEF ReadStream, CloseStream, SkipStream, AfterDrain, Streams
<1>7. CASE Return BY <1>7 DEF Return
<1>8. CASE Time BY <1>8 DEF Time, TimeoutElapses, GraceElapses, runner
<1>9. ASSUME NEW m \in Members, NEW st, Live(m), Dies(m, st) PROVE ReapInv'
  BY <1>9 DEF Dies, runner
<1>10. ASSUME NEW m \in Members, Exit(m) \/ DieBySignal(m) PROVE ReapInv'
  BY <1>9, <1>10 DEF Exit, DieBySignal
<1>11. ASSUME NEW m \in Members, Detach(m) \/ TrapTerm(m) \/ ReadStdin(m)
       PROVE  ReapInv'
  BY <1>11 DEF Detach, TrapTerm, ReadStdin, runner
<1>12. ASSUME NEW m \in Members, NEW d \in Descendants, Fork(m, d)
       PROVE  ReapInv'
  BY <1>12 DEF Fork, runner
<1>13. ASSUME NEW m \in Members, NEW e \in Ends, CloseEnd(m, e) PROVE ReapInv'
  BY <1>13 DEF CloseEnd, runner
<1>14. ASSUME NEW m \in Members, NEW s \in Streams, WriteOutput(m, s)
       PROVE  ReapInv'
  BY <1>14 DEF WriteOutput, runner
<1>15. CASE UNCHANGED vars BY <1>15 DEF vars, runner
<1>16. CASE Failure BY <1>16, FailureEffect
<1>17. QED
  BY <1>1, <1>2, <1>3, <1>4, <1>5, <1>6, <1>7, <1>8, <1>10, <1>11, <1>12, <1>13,
     <1>14, <1>15, <1>16
     DEF Next, Runner, Supervise, Command, Done

LEMMA KernelStep ==
  ASSUME TypeOK, KernelInv, ReapInv, [Next]_vars
  PROVE  KernelInv'
<1> USE MembersAssumption DEF TypeOK, KernelInv, Live, Active, Members,
        inputs, control, reading, report, group, pipes
<1>1. CASE Spawn BY <1>1 DEF Spawn, ReapInv
<1>2. CASE FeedStdin \/ FeedBroken \/ CloseStdin
  BY <1>2 DEF FeedStdin, FeedBroken, CloseStdin
<1>3. CASE ReapChild BY <1>3 DEF ReapChild
<1>4. CASE NothingToReap \/ NoSignalDue \/ Poll
  BY <1>4 DEF NothingToReap, NoSignalDue, Poll
<1>5. CASE RequestStop \/ SendKill
  BY <1>5 DEF RequestStop, SendKill, SignalGroup, InGroup
<1>6. ASSUME NEW s \in Streams, ReadStream(s) \/ CloseStream(s) \/ SkipStream(s)
      PROVE  KernelInv'
  BY <1>6 DEF ReadStream, CloseStream, SkipStream
<1>7. CASE Return BY <1>7 DEF Return
<1>8. CASE Time BY <1>8 DEF Time, TimeoutElapses, GraceElapses
<1>9. ASSUME NEW m \in Members, NEW st, Live(m), Dies(m, st) PROVE KernelInv'
  BY <1>9 DEF Dies
<1>10. ASSUME NEW m \in Members, Exit(m) \/ DieBySignal(m) PROVE KernelInv'
  BY <1>9, <1>10 DEF Exit, DieBySignal
<1>11. ASSUME NEW m \in Members, Detach(m) \/ TrapTerm(m) \/ ReadStdin(m)
       PROVE  KernelInv'
  BY <1>11 DEF Detach, TrapTerm, ReadStdin
<1>12. ASSUME NEW m \in Members, NEW d \in Descendants, Fork(m, d)
       PROVE  KernelInv'
  BY <1>12 DEF Fork
<1>13. ASSUME NEW m \in Members, NEW e \in Ends, CloseEnd(m, e) PROVE KernelInv'
  BY <1>13 DEF CloseEnd
<1>14. ASSUME NEW m \in Members, NEW s \in Streams, WriteOutput(m, s)
       PROVE  KernelInv'
  BY <1>14 DEF WriteOutput
<1>15. CASE UNCHANGED vars BY <1>15 DEF vars
<1>16. CASE Failure BY <1>16, FailureEffect DEF ReapInv
<1>17. QED
  BY <1>1, <1>2, <1>3, <1>4, <1>5, <1>6, <1>7, <1>8, <1>10, <1>11, <1>12, <1>13,
     <1>14, <1>15, <1>16
     DEF Next, Runner, Supervise, Command, Done

\* No process takes up a pipe end that nobody holds.
LEMMA HoldersShrink ==
  ASSUME TypeOK, KernelInv, ReapInv, [Next]_vars, pc # "spawn",
         NEW e \in Ends, Holders(e) = {}
  PROVE  Holders(e)' = {}
<1> SUFFICES ASSUME NEW n \in Members PROVE e \notin holds'[n]
  BY DEF Holders
<1> USE DEF TypeOK, Holders, Members, group, vars
<1>0. e \notin holds[n]
  OBVIOUS
<1>1. CASE UNCHANGED holds BY <1>0, <1>1
<1>2. ASSUME NEW m \in Members, NEW st, Dies(m, st) PROVE e \notin holds'[n]
  BY <1>0, <1>2 DEF Dies
<1>3. ASSUME NEW m \in Members, NEW d \in Descendants, Fork(m, d)
      PROVE  e \notin holds'[n]
  BY <1>0, <1>3 DEF Fork
<1>4. ASSUME NEW m \in Members, NEW f \in Ends, CloseEnd(m, f)
      PROVE  e \notin holds'[n]
  BY <1>0, <1>4 DEF CloseEnd
<1>5. ASSUME NEW m \in Members, Exit(m) \/ DieBySignal(m)
      PROVE  e \notin holds'[n]
  BY <1>2, <1>5 DEF Exit, DieBySignal
<1>6. ASSUME NEW m \in Members, Detach(m) \/ TrapTerm(m) \/ ReadStdin(m)
      PROVE  UNCHANGED holds
  BY <1>6 DEF Detach, TrapTerm, ReadStdin
<1>7. ASSUME NEW m \in Members, NEW s \in Streams, WriteOutput(m, s)
      PROVE  UNCHANGED holds
  BY <1>7 DEF WriteOutput
<1>8. ASSUME Runner \/ Failure \/ Time PROVE UNCHANGED holds
  BY <1>8, FailureEffect
          DEF Runner, Supervise, Spawn, FeedStdin, FeedBroken,
              CloseStdin, ReapChild, NothingToReap, RequestStop, SendKill,
              NoSignalDue, Poll, ReadStream, CloseStream, SkipStream, Return,
              Time, TimeoutElapses, GraceElapses
<1>9. QED
  BY <1>1, <1>3, <1>4, <1>5, <1>6, <1>7, <1>8 DEF Next, Command, Done

\* Nor does anything fill a stream that has no writer; only a read empties one.
LEMMA EmptyStays ==
  ASSUME TypeOK, [Next]_vars, NEW s \in Streams, Holders(s) = {}, pipe[s] = 0
  PROVE  pipe'[s] = 0
<1> USE SizesAssumption DEF TypeOK, pipes, vars
<1>1. ASSUME NEW t \in Streams, ReadStream(t) PROVE pipe'[s] = 0
  BY <1>1 DEF ReadStream
<1>2. ASSUME NEW m \in Members, NEW t \in Streams, WriteOutput(m, t)
      PROVE  pipe'[s] = 0
  <2>1. t # s BY <1>2 DEF WriteOutput, Holders
  <2>2. QED BY <1>2, <2>1 DEF WriteOutput
<1>3. ASSUME NEW m \in Members, NEW st, Dies(m, st) PROVE UNCHANGED pipe
  BY <1>3 DEF Dies
<1>4. ASSUME NEW m \in Members,
             \/ Exit(m) \/ DieBySignal(m) \/ Detach(m) \/ TrapTerm(m) \/ ReadStdin(m)
             \/ \E d \in Descendants : Fork(m, d)
             \/ \E e \in Ends : CloseEnd(m, e)
      PROVE  UNCHANGED pipe
  BY <1>3, <1>4 DEF Exit, DieBySignal, Detach, TrapTerm, ReadStdin, Fork, CloseEnd
<1>5. ASSUME NEW t \in Streams, CloseStream(t) \/ SkipStream(t) PROVE UNCHANGED pipe
  BY <1>5 DEF CloseStream, SkipStream
<1>6. CASE \/ Spawn \/ Failure \/ FeedStdin \/ FeedBroken \/ CloseStdin
           \/ ReapChild \/ NothingToReap \/ RequestStop \/ SendKill
           \/ NoSignalDue \/ Poll \/ Return \/ Time
  BY <1>6, FailureEffect
     DEF Spawn, FeedStdin, FeedBroken, CloseStdin, ReapChild, NothingToReap,
         RequestStop, SendKill, NoSignalDue, Poll, Return, Time, TimeoutElapses,
         GraceElapses
<1>7. QED
  BY <1>1, <1>2, <1>4, <1>5, <1>6 DEF Next, Runner, Supervise, Command, Done

\* The command changes nothing of the runner.
LEMMA CommandKeepsRunner ==
  ASSUME Command
  PROVE  UNCHANGED <<runner, clock>>
<1>1. ASSUME NEW m, NEW st, Dies(m, st) PROVE UNCHANGED <<runner, clock>>
  BY <1>1 DEF Dies
<1>2. QED
  BY <1>1 DEF Command, Exit, DieBySignal, Detach, TrapTerm, ReadStdin, Fork,
              CloseEnd, WriteOutput

LEMMA PollStep ==
  ASSUME TypeOK, KernelInv, ReapInv, PollInv, [Next]_vars
  PROVE  PollInv'
<1> DEFINE Final(s) == "hup" \in revents[s] =>
             Holders(s) = {} /\ ("in" \notin revents[s] => pipe[s] = 0)
<1> USE DEF TypeOK, PollInv
\* It is enough to look at the events that poll has just reported.
<1>1. ASSUME NEW s \in Streams,
             revents'[s] = revents[s] \/ revents'[s] = {}
      PROVE  Final(s)'
  <2>1. CASE pc = "spawn"
    BY <1>1, <2>1
  <2>2. CASE pc # "spawn" /\ "hup" \in revents'[s]
    <3>1. Holders(s)' = {}
      BY <1>1, <2>2, HoldersShrink DEF Ends
    <3>2. "in" \notin revents'[s] => pipe'[s] = 0
      BY <1>1, <2>2, EmptyStays
    <3>3. QED BY <3>1, <3>2
  <2>3. QED BY <2>1, <2>2
<1>2. CASE Poll
  <2>1. ASSUME NEW s \in Streams PROVE Final(s)'
    BY <1>2 DEF Poll, Readiness, Holders, group, pipes
  <2>2. QED BY <1>2, <2>1 DEF Poll
<1>3. ASSUME NEW s \in Streams, ReadStream(s) \/ CloseStream(s) \/ SkipStream(s)
      PROVE  PollInv'
  <2>1. ASSUME NEW t \in Streams PROVE Final(t)'
    BY <1>1, <1>3 DEF ReadStream, CloseStream, SkipStream, reading
  <2>2. QED BY <1>3, <2>1 DEF ReadStream, CloseStream, SkipStream, AfterDrain, Streams
<1>4. CASE UNCHANGED <<revents, open, pc>>
  BY <1>1, <1>4
<1>5. CASE Spawn \/ Failure \/ FeedBroken \/ CloseStdin
  BY <1>1, <1>5, FailureEffect DEF Spawn, FeedBroken, CloseStdin, reading
<1>6. CASE \/ ReapChild \/ NothingToReap \/ RequestStop \/ SendKill
           \/ NoSignalDue \/ Return
  BY <1>1, <1>6 DEF ReapChild, NothingToReap, RequestStop, SendKill, NoSignalDue,
                    Return, reading
<1>7. CASE FeedStdin \/ Time
  BY <1>4, <1>7 DEF FeedStdin, Time, TimeoutElapses, GraceElapses, runner, reading
<1>8. CASE Command
  BY <1>4, <1>8, CommandKeepsRunner DEF runner, reading
<1>9. CASE UNCHANGED vars
  BY <1>4, <1>9 DEF vars, runner, reading
<1>10. QED
  BY <1>2, <1>3, <1>5, <1>6, <1>7, <1>8, <1>9 DEF Next, Runner, Supervise, Done

LEMMA DrainStep ==
  ASSUME TypeOK, KernelInv, ReapInv, PollInv, DrainInv, [Next]_vars
  PROVE  DrainInv'
<1> USE DEF TypeOK, Collecting
\* A drained stream stays drained: it has no writer left.
<1>1. ASSUME NEW s \in Streams, pc # "spawn", Drained(s) PROVE Drained(s)'
  BY <1>1, HoldersShrink, EmptyStays DEF Drained, Ends
\* So a step that closes no stream and does not end the run preserves DrainInv.
<1>2. ASSUME open' = open, pc # "spawn", pc' # "returned",
             Collecting' => Collecting \/ pc = "feed"
      PROVE  DrainInv'
  <2>1. ASSUME NEW s \in Streams \ open', Collecting' PROVE Drained(s)'
    BY <1>1, <1>2, <2>1 DEF DrainInv, PollInv
  <2>2. QED BY <1>2, <2>1 DEF DrainInv
<1>3. CASE Spawn \/ Failure
  BY <1>3, FailureEffect DEF Spawn, DrainInv
<1>4. CASE FeedBroken
  BY <1>4 DEF FeedBroken, DrainInv
<1>5. CASE \/ FeedStdin \/ CloseStdin \/ ReapChild \/ NothingToReap
           \/ RequestStop \/ SendKill \/ NoSignalDue \/ Poll
  BY <1>2, <1>5 DEF FeedStdin, CloseStdin, ReapChild, NothingToReap, RequestStop,
                    SendKill, NoSignalDue, Poll, reading
<1>6. ASSUME NEW s \in Streams, ReadStream(s) \/ SkipStream(s) PROVE DrainInv'
  BY <1>2, <1>6 DEF ReadStream, SkipStream, AfterDrain, Streams, reading
<1>7. ASSUME NEW s \in Streams, CloseStream(s) PROVE DrainInv'
  <2>1. Drained(s)
    BY <1>7 DEF CloseStream, PollInv, Drained
  <2>2. pc # "spawn" /\ pc' # "returned" /\ Collecting
    BY <1>7 DEF CloseStream, AfterDrain, Streams
  <2>3. ASSUME NEW t \in Streams \ open' PROVE Drained(t)'
    <3>1. Drained(t)
      BY <1>7, <2>1, <2>2, <2>3 DEF CloseStream, DrainInv
    <3>2. QED BY <1>1, <2>2, <3>1
  <2>4. QED BY <2>2, <2>3 DEF DrainInv
<1>8. CASE Return
  <2>1. pc # "spawn" /\ Collecting /\ open' = {} /\ open = {}
    BY <1>8 DEF Return, reading
  <2>2. ASSUME NEW t \in Streams \ open' PROVE Drained(t)'
    BY <1>1, <2>1, <2>2 DEF DrainInv
  <2>3. QED BY <2>1, <2>2 DEF DrainInv
<1>9. ASSUME UNCHANGED <<open, pc>> PROVE DrainInv'
  <2>1. CASE pc = "spawn" BY <1>9, <2>1 DEF DrainInv
  <2>2. CASE pc = "returned"
    <3>1. ASSUME NEW t \in Streams PROVE Drained(t)'
      BY <1>1, <2>2, <3>1 DEF DrainInv
    <3>2. QED BY <1>9, <2>2, <3>1 DEF DrainInv
  <2>3. QED BY <1>2, <1>9, <2>1, <2>2
<1>10. CASE Time \/ Command \/ UNCHANGED vars
  BY <1>9, <1>10, CommandKeepsRunner
     DEF Time, TimeoutElapses, GraceElapses, vars, runner, reading
<1>11. QED
  BY <1>3, <1>4, <1>5, <1>6, <1>7, <1>8, <1>10
     DEF Next, Runner, Supervise, Done

LEMMA EscalationStep ==
  ASSUME TypeOK, EscalationInv, [Next]_vars
  PROVE  EscalationInv'
<1> USE DEF TypeOK, EscalationInv, inputs, control, group
<1>1. CASE Spawn \/ Failure \/ FeedStdin \/ FeedBroken \/ CloseStdin
  BY <1>1, FailureEffect DEF Spawn, FeedStdin, FeedBroken, CloseStdin
<1>2. CASE ReapChild \/ NothingToReap \/ NoSignalDue \/ Poll \/ Return
  BY <1>2 DEF ReapChild, NothingToReap, NoSignalDue, Poll, Return
<1>3. ASSUME NEW s \in Streams, ReadStream(s) \/ CloseStream(s) \/ SkipStream(s)
      PROVE  EscalationInv'
  BY <1>3 DEF ReadStream, CloseStream, SkipStream, AfterDrain
<1>4. CASE RequestStop
  <2>1. ASSUME NEW m \in Members, SIGKILL \in pending'[m]
        PROVE  SIGKILL \in pending[m]
    BY <1>4, <2>1 DEF RequestStop, SignalGroup, SIGKILL, SIGTERM
  <2>2. QED BY <1>4, <2>1 DEF RequestStop, StopDue
<1>5. CASE SendKill
  BY <1>5 DEF SendKill, KillDue
<1>6. CASE Time
  BY <1>6 DEF Time, TimeoutElapses, GraceElapses, runner, Collecting
<1>7. ASSUME NEW m \in Members, NEW st, Dies(m, st) PROVE EscalationInv'
  BY <1>7 DEF Dies, runner
<1>8. ASSUME NEW m \in Members,
             \/ Exit(m) \/ DieBySignal(m) \/ Detach(m) \/ TrapTerm(m) \/ ReadStdin(m)
             \/ \E d \in Descendants : Fork(m, d)
             \/ \E e \in Ends : CloseEnd(m, e)
             \/ \E s \in Streams : WriteOutput(m, s)
      PROVE  EscalationInv'
  <2>1. CASE Exit(m) \/ DieBySignal(m)
    BY <1>7, <2>1 DEF Exit, DieBySignal
  <2>2. CASE ~(Exit(m) \/ DieBySignal(m))
    <3>1. UNCHANGED <<pending, clock, control, pc>>
      BY <1>8, <2>2 DEF Detach, TrapTerm, ReadStdin, Fork, CloseEnd, WriteOutput,
                        runner
    <3>2. QED BY <3>1
  <2>3. QED BY <2>1, <2>2
<1>9. CASE UNCHANGED vars BY <1>9 DEF vars, runner
<1>10. QED
  BY <1>1, <1>2, <1>3, <1>4, <1>5, <1>6, <1>8, <1>9
     DEF Next, Runner, Supervise, Command, Done

LEMMA EventStep ==
  ASSUME TypeOK, EscalationInv, EventInv, [Next]_vars
  PROVE  EventInv'
<1> USE DEF TypeOK, Collecting, inputs, control, report
<1>1. CASE Spawn
  BY <1>1 DEF Spawn, EventInv, EscalationInv, ControlEvents
\* A signal that fails was announced where it would have been sent.
<1>2. CASE Failure
  <2>1. CASE UNCHANGED events
    BY <1>2, <2>1, FailureEffect DEF EventInv, ControlEvents
  <2>2. CASE /\ pc = "timer" /\ StopDue
             /\ events' = Append(events, "stop.requested")
    <3>1. events = <<"started">>
      BY <2>2 DEF StopDue, EscalationInv, EventInv, ControlEvents
    <3>2. events' = <<"started", "stop.requested">>
      BY <2>2, <3>1, AppendToOne
    <3>3. QED BY <1>2, <3>2, FailureEffect DEF EventInv
  <2>3. CASE pc = "timer" /\ KillDue /\ events' = Append(events, "kill.sent")
    <3>1. events = <<"started", "stop.requested">>
      BY <2>3 DEF KillDue, EventInv, ControlEvents
    <3>2. events' = <<"started", "stop.requested", "kill.sent">>
      BY <2>3, <3>1, AppendToTwo
    <3>3. QED BY <1>2, <3>2, FailureEffect DEF EventInv
  <2>4. QED BY <1>2, <2>1, <2>2, <2>3, FailureEffect
<1>3. CASE FeedBroken
  BY <1>3 DEF FeedBroken, EventInv, EscalationInv, ControlEvents
<1>4. CASE RequestStop
  <2>1. ~kill_sent
    BY <1>4 DEF RequestStop, StopDue, EscalationInv
  <2>2. events = <<"started">>
    BY <1>4, <2>1 DEF RequestStop, StopDue, EventInv, ControlEvents
  <2>3. events' = <<"started", "stop.requested">>
    BY <1>4, <2>2, AppendToOne DEF RequestStop
  <2>4. QED BY <1>4, <2>1, <2>3 DEF RequestStop, EventInv, ControlEvents
<1>5. CASE SendKill
  <2>1. events = <<"started", "stop.requested">>
    BY <1>5 DEF SendKill, KillDue, EventInv, ControlEvents
  <2>2. events' = <<"started", "stop.requested", "kill.sent">>
    BY <1>5, <2>1, AppendToTwo DEF SendKill
  <2>3. QED BY <1>5, <2>2 DEF SendKill, EventInv, ControlEvents
<1>6. CASE Return
  <2>1. ControlEvents' = ControlEvents
    BY <1>6 DEF Return, ControlEvents
  <2>2. captured \in SUBSET Streams
    OBVIOUS
  <2>3. QED BY <1>6, <2>1, <2>2 DEF Return, EventInv
<1>7. ASSUME UNCHANGED <<events, control>>,
             pc' \in {"feed", "reap", "timer", "poll", "stdout", "stderr"},
             pc \in {"feed", "reap", "timer", "poll", "stdout", "stderr"}
      PROVE  EventInv'
  BY <1>7 DEF EventInv, ControlEvents
<1>8. CASE FeedStdin \/ CloseStdin \/ ReapChild \/ NothingToReap \/ NoSignalDue \/ Poll
  <2>1. CASE ReapChild
    BY <2>1 DEF ReapChild, EventInv, ControlEvents
  <2>2. CASE ~ReapChild
    BY <1>7, <1>8, <2>2 DEF FeedStdin, CloseStdin, NothingToReap, NoSignalDue, Poll
  <2>3. QED BY <2>1, <2>2
<1>9. ASSUME NEW s \in Streams, ReadStream(s) \/ CloseStream(s) \/ SkipStream(s)
      PROVE  EventInv'
  BY <1>7, <1>9 DEF ReadStream, CloseStream, SkipStream, AfterDrain, Streams
<1>10. ASSUME UNCHANGED runner PROVE EventInv'
  BY <1>10 DEF runner, EventInv, ControlEvents
<1>11. CASE Time \/ Command \/ UNCHANGED vars
  BY <1>10, <1>11, CommandKeepsRunner DEF Time, TimeoutElapses, GraceElapses, vars
<1>12. QED
  BY <1>1, <1>2, <1>3, <1>4, <1>5, <1>6, <1>8, <1>9, <1>11
     DEF Next, Runner, Supervise, Done

LEMMA ResultStep ==
  ASSUME TypeOK, ReapInv, DrainInv, ResultInv, [Next]_vars
  PROVE  ResultInv'
<1> USE DEF TypeOK, ResultInv
<1>1. CASE Return
  BY <1>1 DEF Return, ReapInv, group, control
<1>2. CASE UNCHANGED <<result, pc>> /\ pc # "returned"
  BY <1>2
<1>3. ASSUME result' = result, pc # "returned", pc' # "returned" PROVE ResultInv'
  BY <1>3
<1>4. CASE \/ Spawn \/ Failure \/ FeedStdin \/ FeedBroken \/ CloseStdin
           \/ ReapChild \/ NothingToReap \/ RequestStop \/ SendKill
           \/ NoSignalDue \/ Poll
  BY <1>3, <1>4, FailureEffect
     DEF Spawn, FeedStdin, FeedBroken, CloseStdin, ReapChild, NothingToReap,
         RequestStop, SendKill, NoSignalDue, Poll, report
<1>5. ASSUME NEW s \in Streams, ReadStream(s) \/ CloseStream(s) \/ SkipStream(s)
      PROVE  ResultInv'
  BY <1>3, <1>5 DEF ReadStream, CloseStream, SkipStream, AfterDrain, Streams, report
<1>6. CASE Time \/ UNCHANGED vars
  BY <1>6 DEF Time, TimeoutElapses, GraceElapses, vars, runner, report, control, group
\* Once the leader is reaped its status no longer changes.
<1>7. ASSUME pc = "returned", Command
      PROVE  status' = status /\ member'[Leader] = member[Leader]
  <2>1. ASSUME NEW m \in Members, NEW st, Live(m), Dies(m, st)
        PROVE  status' = status /\ member'[Leader] = member[Leader]
    BY <1>7, <2>1 DEF Dies, Live, Members
  <2>2. ASSUME NEW m \in Members, NEW d \in Descendants, Fork(m, d)
        PROVE  status' = status /\ member'[Leader] = member[Leader]
    BY <1>7, <2>2 DEF Fork, Members
  <2>3. QED
    BY <1>7, <2>1, <2>2 DEF Command, Exit, DieBySignal, Active, Detach, TrapTerm,
                            ReadStdin, CloseEnd, WriteOutput, group
<1>8. CASE Command
  BY <1>7, <1>8, CommandKeepsRunner DEF runner, report, control
<1>9. QED
  BY <1>1, <1>4, <1>5, <1>6, <1>8 DEF Next, Runner, Supervise, Done

(***************************************************************************)
(* The theorems.                                                           *)
(***************************************************************************)

LEMMA InitIInv == Init => IInv
<1> SUFFICES ASSUME Init PROVE IInv
  OBVIOUS
<1>1. TypeOK BY InitTyped
<1>2. ReapInv /\ KernelInv BY DEF Init, ReapInv, KernelInv, Members, Collecting
<1>3. PollInv /\ DrainInv BY DEF Init, PollInv, DrainInv, Collecting
<1>4. EscalationInv BY DEF Init, EscalationInv
<1>5. EventInv /\ ResultInv BY DEF Init, EventInv, ResultInv, Collecting
<1>6. QED BY <1>1, <1>2, <1>3, <1>4, <1>5 DEF IInv

LEMMA IInvStep == IInv /\ [Next]_vars => IInv'
BY TypeStep, ReapStep, KernelStep, PollStep, DrainStep, EscalationStep,
   EventStep, ResultStep
   DEF IInv

\* The inductive invariant holds in every reachable state.
THEOREM Inductive == Spec => []IInv
BY InitIInv, IInvStep, PTL DEF Spec

\* Whatever the command does and however its writes interleave with poll, read
\* and exit, the runner neither truncates its output nor closes a pipe under a
\* writer.
THEOREM OutputIsComplete == Spec => []NoOutputLost
<1>1. IInv => NoOutputLost
  BY DEF IInv, DrainInv, NoOutputLost
<1>2. QED BY <1>1, Inductive, PTL

\* SIGKILL only ever follows SIGTERM and the grace window.
THEOREM GracefulFirst == Spec => []KillIsLastResort
<1>1. IInv => KillIsLastResort
  BY DEF IInv, EscalationInv, KillIsLastResort
<1>2. QED BY <1>1, Inductive, PTL

\* No signal is sent once the child is reaped and its pid may be recycled.
THEOREM OwnGroupOnly == Spec => SignalsHitOwnGroup
<1> DEFINE Hit == (stop_requested' # stop_requested \/ kill_sent' # kill_sent)
                    => member[Leader] \in {"live", "zombie"}
<1>1. IInv /\ [Next]_vars => [Hit]_vars
  <2> SUFFICES ASSUME IInv, [Next]_vars,
                      stop_requested' # stop_requested \/ kill_sent' # kill_sent
               PROVE  member[Leader] \in {"live", "zombie"}
    OBVIOUS
  <2>1. RequestStop \/ SendKill
    <3>1. ASSUME Command \/ Time \/ UNCHANGED vars
          PROVE  UNCHANGED <<stop_requested, kill_sent>>
      BY <3>1, CommandKeepsRunner
         DEF Time, TimeoutElapses, GraceElapses, vars, runner, control
    <3>2. ASSUME Runner \/ Failure, ~RequestStop, ~SendKill
          PROVE  UNCHANGED <<stop_requested, kill_sent>>
      BY <3>2, FailureEffect
              DEF Runner, Supervise, Spawn, FeedStdin, FeedBroken,
                  CloseStdin, ReapChild, NothingToReap, NoSignalDue, Poll,
                  ReadStream, CloseStream, SkipStream, Return, control
    <3>3. QED BY <3>1, <3>2 DEF Next, Done
  <2>2. pc = "timer" /\ child_running
    BY <2>1 DEF RequestStop, SendKill, StopDue, KillDue
  <2>3. QED
    BY <2>2 DEF IInv, ReapInv, Collecting, TypeOK, Members
<1>2. QED BY <1>1, Inductive, PTL DEF Spec, SignalsHitOwnGroup

\* Only a requested stop puts "stop.requested" among the events of a run.
LEMMA StopIsAnnounced ==
  ASSUME IInv, pc = "returned"
  PROVE  stop_requested <=> \E i \in DOMAIN events : events[i] = "stop.requested"
<1> DEFINE Out == {"output.stdout", "output.stderr"}
           All == Out \cup {"started", "stop.requested", "kill.sent"}
<1>1. PICK out \in SUBSET Streams : events = ControlEvents \o OutputEvents(out)
  BY DEF IInv, EventInv
<1>2. OutputEvents(out) \in Seq(Out)
  BY OutputEventsTyped
<1>3. ControlEvents \in Seq(All) /\ OutputEvents(out) \in Seq(All)
  BY ControlEventsTyped, OutputEventsTyped
<1>4. /\ events \in Seq(All)
      /\ Len(events) = Len(ControlEvents) + Len(OutputEvents(out))
      /\ \A i \in 1..Len(events) : events[i] =
           IF i <= Len(ControlEvents) THEN ControlEvents[i]
           ELSE OutputEvents(out)[i - Len(ControlEvents)]
  BY <1>1, <1>3, ConcatProperties
<1>5. DOMAIN events = 1..Len(events) /\ Len(OutputEvents(out)) \in Nat
  BY <1>3, <1>4
<1>6. CASE stop_requested
  <2>1. Len(ControlEvents) \in {2, 3} /\ ControlEvents[2] = "stop.requested"
    BY <1>6 DEF ControlEvents
  <2>2. 2 \in 1..Len(events) /\ events[2] = "stop.requested"
    BY <1>4, <1>5, <2>1
  <2>3. QED BY <1>5, <1>6, <2>2
<1>7. CASE ~stop_requested
  <2>1. Len(ControlEvents) = 1 /\ ControlEvents[1] = "started"
    BY <1>7 DEF ControlEvents, IInv, EscalationInv
  <2>2. ASSUME NEW i \in 1..Len(events) PROVE events[i] # "stop.requested"
    <3>1. CASE i = 1 BY <1>4, <2>1, <3>1
    <3>2. CASE i # 1
      <4>1. i - 1 \in 1..Len(OutputEvents(out)) /\ ~(i <= 1)
        BY <1>4, <1>5, <2>1, <3>2
      <4>2. events[i] = OutputEvents(out)[i - 1]
        BY <1>4, <2>1, <4>1
      <4>3. OutputEvents(out)[i - 1] \in Out
        BY <1>2, <4>1
      <4>4. QED BY <4>2, <4>3
    <3>3. QED BY <3>1, <3>2
  <2>3. QED BY <1>5, <1>7, <2>2
<1>8. QED BY <1>6, <1>7

\* A returned result is that of the reaped child, and blames the timeout
\* exactly when a stop was announced.
THEOREM ResultIsHonest == Spec => []ResultIsOfReapedChild
<1>1. IInv => ResultIsOfReapedChild
  <2> SUFFICES ASSUME IInv, pc = "returned" PROVE ResultIsOfReapedChild
    BY DEF ResultIsOfReapedChild
  <2> DEFINE r == CollectResult(status, stop_requested)
  <2>1. result = {r} /\ member[Leader] = "gone" /\ stop_requested \in BOOLEAN
    BY DEF IInv, ResultInv, TypeOK
  <2>2. r.exit_code = IF status.kind = "exited" THEN status.code
                                                ELSE 128 + status.code
    BY DEF CollectResult
  <2>3. r.terminal_cause = "timeout" <=> stop_requested
    BY <2>1 DEF CollectResult
  <2>4. QED BY <2>1, <2>2, <2>3, StopIsAnnounced DEF ResultIsOfReapedChild
<1>2. QED BY <1>1, Inductive, PTL

(***************************************************************************)
(* Refinement.                                                             *)
(***************************************************************************)

\* The contract's copies of the operators of ProcessResult are the same.
LEMMA ContractOperators ==
  /\ Contract!Statuses = Statuses
  /\ Contract!Streams = Streams
  /\ \A st, stopped : Contract!CollectResult(st, stopped) = CollectResult(st, stopped)
  /\ \A out : Contract!OutputEvents(out) = OutputEvents(out)
BY DEF Contract!Statuses, Statuses, Contract!Signals, Signals, Contract!SIGTERM,
       SIGTERM, Contract!SIGKILL, SIGKILL, Contract!SIGSEGV, SIGSEGV,
       Contract!Streams, Streams, Contract!CollectResult, CollectResult,
       Contract!OutputEvents, OutputEvents

LEMMA StepRefines ==
  IInv /\ IInv' /\ [Next]_vars => [Contract!Next]_(Contract!vars)
<1> SUFFICES ASSUME IInv, IInv', [Next]_vars
             PROVE  Contract!Next \/ UNCHANGED <<Phase, unsent > 0, events, result>>
  BY DEF Contract!vars
<1> USE DEF Phase, inputs
<1>0. unsent \in Nat /\ (Collecting => ~(unsent > 0))
  BY DEF IInv, TypeOK, ReapInv
<1>1. CASE Spawn
  <2>1. events' = <<"started">>
    BY <1>1 DEF Spawn, IInv, EventInv, EscalationInv, ControlEvents
  <2>2. Contract!Launch
    BY <1>1, <2>1 DEF Spawn, Contract!Launch
  <2>3. QED BY <2>2 DEF Contract!Next
<1>2. CASE Failure \/ FeedBroken
  <2>1. /\ Phase \in {"idle", "running"} /\ Phase' = "aborted"
        /\ UNCHANGED <<unsent > 0, result>>
    BY <1>2, FailureEffect DEF FeedBroken, report
  <2>2. UNCHANGED events \/ Contract!AnnounceStop \/ Contract!AnnounceKill
    <3>1. CASE UNCHANGED events BY <3>1
    <3>2. CASE /\ pc = "timer" /\ StopDue
               /\ events' = Append(events, "stop.requested")
      <4>1. events = <<"started">>
        BY <3>2 DEF StopDue, IInv, EscalationInv, EventInv, ControlEvents,
                    Collecting
      <4>2. events' = <<"started", "stop.requested">>
        BY <3>2, <4>1, AppendToOne
      <4>3. QED BY <1>0, <3>2, <4>1, <4>2 DEF Contract!AnnounceStop, Collecting
    <3>3. CASE pc = "timer" /\ KillDue /\ events' = Append(events, "kill.sent")
      <4>1. events = <<"started", "stop.requested">>
        BY <3>3 DEF KillDue, IInv, EventInv, ControlEvents, Collecting
      <4>2. events' = <<"started", "stop.requested", "kill.sent">>
        BY <3>3, <4>1, AppendToTwo
      <4>3. QED BY <1>0, <3>3, <4>1, <4>2 DEF Contract!AnnounceKill, Collecting
    <3>4. QED BY <1>2, <3>1, <3>2, <3>3, FailureEffect DEF FeedBroken, report
  <2>3. Contract!Abort
    BY <2>1, <2>2 DEF Contract!Abort
  <2>4. QED BY <2>3 DEF Contract!Next
<1>3. CASE RequestStop
  <2>1. ~stop_requested /\ ~kill_sent /\ stop_requested' /\ ~kill_sent'
    BY <1>3 DEF RequestStop, StopDue, IInv, EscalationInv
  <2>2. events = <<"started">> /\ events' = <<"started", "stop.requested">>
    BY <1>3, <2>1 DEF RequestStop, IInv, EventInv, ControlEvents, Collecting
  <2>3. Contract!Stop
    BY <1>0, <1>3, <2>2 DEF RequestStop, Contract!Stop, Contract!AnnounceStop,
                         Collecting
  <2>4. QED BY <2>3 DEF Contract!Next
<1>4. CASE SendKill
  <2>1. stop_requested /\ ~kill_sent /\ kill_sent'
    BY <1>4 DEF SendKill, KillDue
  <2>2. /\ events = <<"started", "stop.requested">>
        /\ events' = <<"started", "stop.requested", "kill.sent">>
    BY <1>4, <2>1 DEF SendKill, IInv, EventInv, ControlEvents, Collecting
  <2>3. Contract!Kill
    BY <1>0, <1>4, <2>2 DEF SendKill, Contract!Kill, Contract!AnnounceKill,
                         Collecting
  <2>4. QED BY <2>3 DEF Contract!Next
<1>5. CASE Return
  <2>1. events = ControlEvents /\ stop_requested \in BOOLEAN /\ status \in Statuses
          /\ captured \in SUBSET Streams
    BY <1>5 DEF Return, IInv, EventInv, TypeOK, Collecting
  <2>2. stop_requested = (Len(events) > 1)
    BY <2>1 DEF ControlEvents, IInv, EscalationInv
  <2>3. result' = {CollectResult(status, Len(events) > 1)}
    BY <1>5, <2>2 DEF Return
  <2>4. \E st \in Statuses : result' = {CollectResult(st, Len(events) > 1)}
    BY <2>1, <2>3
  <2>5. \E out \in SUBSET Streams : events' = events \o OutputEvents(out)
    BY <1>5, <2>1 DEF Return
  <2>6. Contract!Return
    BY <1>0, <1>5, <2>4, <2>5, ContractOperators
       DEF Return, Contract!Return, Collecting
  <2>7. QED BY <2>6 DEF Contract!Next
<1>6. ASSUME NEW s \in Streams, ReadStream(s) \/ CloseStream(s) \/ SkipStream(s)
      PROVE  UNCHANGED <<Phase, unsent > 0, events, result>>
  BY <1>6 DEF ReadStream, CloseStream, SkipStream, AfterDrain, Streams, report
<1>7. CASE CloseStdin \/ ReapChild \/ NothingToReap \/ NoSignalDue \/ Poll
  BY <1>7 DEF CloseStdin, ReapChild, NothingToReap, NoSignalDue, Poll, report
<1>8. CASE Time \/ Command \/ UNCHANGED vars
  BY <1>8, CommandKeepsRunner
     DEF Time, TimeoutElapses, GraceElapses, vars, runner, report
<1>9. CASE FeedStdin
  <2>1. UNCHANGED <<Phase, events, result>> /\ Phase = "running" /\ unsent > 0
    BY <1>9 DEF FeedStdin, report
  <2>2. CASE unsent' > 0
    BY <2>1, <2>2
  <2>3. CASE ~(unsent' > 0)
    BY <2>1, <2>3 DEF Contract!Feed, Contract!Next
  <2>4. QED BY <2>2, <2>3
<1>10. QED
  BY <1>1, <1>2, <1>3, <1>4, <1>5, <1>6, <1>7, <1>8, <1>9
     DEF Next, Runner, Supervise, Done

\* run_process keeps the contract its callers rely on: the events of a run come
\* in the order of the contract, and the result agrees with them.
THEOREM Refinement == Spec => ImplementsContract
<1>1. Init => Contract!Init
  BY DEF Init, Contract!Init, Phase
<1>2. IInv /\ IInv' /\ [Next]_vars => [Contract!Next]_(Contract!vars)
  BY StepRefines
<1>3. QED
  BY <1>1, <1>2, Inductive, PTL DEF Spec, ImplementsContract, Contract!Spec
==============================================================================

--------------------------- MODULE ProcessRuntime ---------------------------
(***************************************************************************)
(* run_process and collect_process_result: one command launched in its own *)
(* process group, fed its stdin, drained of stdout and stderr, stopped     *)
(* with SIGTERM and then SIGKILL when it outlives its timeout, reaped, and *)
(* turned into a ProcessResult.                                            *)
(*                                                                         *)
(* The runner is a single thread whose control location is pc.  Everything *)
(* it shares with the command lives in the kernel: three bounded pipes,    *)
(* the members of the process group and their pending signals.  The        *)
(* members are not code of this repository: they may fork, exit, trap      *)
(* SIGTERM, close descriptors, read and write in any order.                *)
(*                                                                         *)
(* Data is abstracted to units: a pipe holds up to PipeCapacity of them    *)
(* and one read(2) takes up to ReadSize.  Time is abstracted to the two    *)
(* deadlines the code compares the clock with.  Any system call may fail:  *)
(* its result is a choice, and the runner throws.                          *)
(***************************************************************************)
EXTENDS ProcessResult

CONSTANTS
  Leader,          \* the forked child, leader of the process group
  Descendants,     \* processes the command may fork
  CanDetach,       \* descendants that may leave the process group (setsid)
  PipeCapacity,    \* units a pipe holds before a writer blocks
  ReadSize,        \* units one read(2) into the 4096-byte buffer takes
  MaxInput         \* bound: units of stdin_data the caller passes

ASSUME MembersAssumption ==
  Leader \notin Descendants /\ CanDetach \subseteq Descendants

ASSUME SizesAssumption ==
  /\ PipeCapacity \in Nat \ {0}
  /\ ReadSize \in Nat \ {0}
  /\ MaxInput \in Nat

VARIABLES
  pc,              \* control location of the runner
  timed,           \* the ProcessSpec has timeout_ms > 0
  unsent,          \* units of stdin_data not written yet
  child_running,   \* the runner has not reaped the child
  stop_requested,
  kill_sent,
  clock,           \* last deadline of the code that has passed
  open,            \* read ends the runner still has open
  revents,         \* what the last poll reported for each stream
  captured,        \* streams whose stdout_data or stderr_data is non-empty
  events,          \* events given to event_sink, in order
  result,          \* the set of returned results: empty or a singleton
  member,          \* state of each process
  detached,        \* processes that left the process group
  trapped,         \* processes that ignore or handle SIGTERM
  pending,         \* fatal signals sent to a process and not yet delivered
  holds,           \* pipe ends each process still has open
  status,          \* wait status of the leader once it is dead
  stdin,           \* units in the stdin pipe
  pipe             \* units in the stdout and stderr pipes

inputs  == <<timed, unsent>>
control == <<child_running, stop_requested, kill_sent>>
reading == <<open, revents, captured>>
report  == <<events, result>>
runner  == <<pc, inputs, control, reading, report>>
group   == <<member, detached, trapped, pending, holds, status>>
pipes   == <<stdin, pipe>>
vars    == <<runner, group, pipes, clock>>

Ends    == Streams \cup {"stdin"}
Members == {Leader} \cup Descendants

Live(m)      == member[m] = "live"
InGroup(m)   == Live(m) /\ m \notin detached
\* A process with a SIGKILL pending runs no further user instruction.
Active(m)    == Live(m) /\ SIGKILL \notin pending[m]
Holders(e)   == {m \in Members : e \in holds[m]}
Collecting   == pc \in {"reap", "timer", "poll", "stdout", "stderr"}
Ended        == pc \in {"returned", "threw", "killed"}

Init ==
  /\ pc = "spawn"
  /\ timed \in BOOLEAN
  /\ unsent \in 0..MaxInput
  /\ child_running = TRUE
  /\ stop_requested = FALSE
  /\ kill_sent = FALSE
  /\ clock = "running"
  /\ open = Streams
  /\ revents = [s \in Streams |-> {}]
  /\ captured = {}
  /\ events = <<>>
  /\ result = {}
  /\ member = [m \in Members |-> "unborn"]
  /\ detached = {}
  /\ trapped = {}
  /\ pending = [m \in Members |-> {}]
  /\ holds = [m \in Members |-> {}]
  /\ status = [kind |-> "exited", code |-> 0]
  /\ stdin = 0
  /\ pipe = [s \in Streams |-> 0]

(***************************************************************************)
(* The runner: launching and feeding.                                      *)
(***************************************************************************)

\* pipe, fork and setpgid on both sides, the started event, and the closing
\* of the child's ends.  The group exists before the runner goes on, because
\* both sides call setpgid.
Spawn ==
  /\ pc = "spawn"
  /\ pc' = "feed"
  /\ member' = [member EXCEPT ![Leader] = "live"]
  /\ holds' = [holds EXCEPT ![Leader] = Ends]
  /\ events' = Append(events, "started")
  /\ UNCHANGED <<inputs, control, reading, result, detached, trapped, pending,
                 status, pipes, clock>>

\* An exception leaves run_process and ends main, which closes what the runner
\* holds.  No handler stops, kills or reaps the group.
Throw ==
  /\ pc' = "threw"
  /\ open' = {}
  /\ UNCHANGED <<inputs, control, revents, captured, result, pipes, clock>>

\* pipe or fork fails, or the runner's own setpgid, when the child is already
\* there: run_process throws before it emits anything.
SpawnFails ==
  /\ pc = "spawn"
  /\ Throw
  /\ \/ UNCHANGED <<member, holds>>
     \/ /\ member' = [member EXCEPT ![Leader] = "live"]
        /\ holds' = [holds EXCEPT ![Leader] = Ends]
  /\ UNCHANGED <<events, detached, trapped, pending, status>>

\* write_all blocks while the pipe is full; no output is read meanwhile.
FeedStdin ==
  /\ pc = "feed" /\ unsent > 0
  /\ Holders("stdin") # {}
  /\ stdin < PipeCapacity
  /\ stdin' = stdin + 1
  /\ unsent' = unsent - 1
  /\ UNCHANGED <<pc, timed, control, reading, report, group, pipe, clock>>

\* Writing to a pipe nobody can read: SIGPIPE kills the runner, or, when it
\* inherited SIGPIPE ignored, write_all throws on EPIPE and main exits.
FeedBroken ==
  /\ pc = "feed" /\ unsent > 0
  /\ Holders("stdin") = {}
  /\ pc' \in {"threw", "killed"}
  /\ open' = {}
  /\ UNCHANGED <<inputs, control, revents, captured, report, group, pipes,
                 clock>>

\* close(stdin_pipe[1]) and entry into collect_process_result, which starts
\* the timeout only now.
CloseStdin ==
  /\ pc = "feed" /\ unsent = 0
  /\ pc' = "reap"
  /\ UNCHANGED <<inputs, control, reading, report, group, pipes, clock>>

(***************************************************************************)
(* The runner: one iteration of the supervision loop is                    *)
(* reap -> timer -> poll -> stdout -> stderr.                              *)
(***************************************************************************)

ReapChild ==
  /\ pc = "reap" /\ child_running
  /\ member[Leader] = "zombie"
  /\ member' = [member EXCEPT ![Leader] = "gone"]
  /\ child_running' = FALSE
  /\ pc' = "timer"
  /\ UNCHANGED <<inputs, stop_requested, kill_sent, reading, report, detached,
                 trapped, pending, holds, status, pipes, clock>>

NothingToReap ==
  /\ pc = "reap"
  /\ ~(child_running /\ member[Leader] = "zombie")
  /\ pc' = "timer"
  /\ UNCHANGED <<inputs, control, reading, report, group, pipes, clock>>

\* waitpid fails, as it does with ECHILD for a child that the kernel has reaped
\* itself because the runner inherited SIGCHLD ignored.
ReapFails ==
  /\ pc = "reap" /\ child_running
  /\ Throw
  /\ UNCHANGED <<events, group>>

\* Broken variant: kill(pid, signal), the direct child alone.
SignalLeaderOnly(signal) ==
  pending' = IF InGroup(Leader) /\ ~(signal = SIGTERM /\ Leader \in trapped)
             THEN [pending EXCEPT ![Leader] = @ \cup {signal}]
             ELSE pending

\* kill(-pid, signal): every live member of the group gets it; a trapped
\* SIGTERM is not fatal and is dropped here.
SignalGroup(signal) ==
  pending' = [m \in Members |->
    IF InGroup(m) /\ ~(signal = SIGTERM /\ m \in trapped)
    THEN pending[m] \cup {signal}
    ELSE pending[m]]

\* Broken variants: the deadline is looked at only when no stream is left to
\* watch; the stop ignores that the child is reaped; the grace period is
\* skipped; the escalation is skipped.
StopDueWhenQuiet ==
  child_running /\ timed /\ ~stop_requested /\ clock # "running" /\ open = {}
StopDueAfterReap == timed /\ ~stop_requested /\ clock # "running"
KillDueAtOnce ==
  child_running /\ timed /\ stop_requested /\ ~kill_sent
KillDueNever ==
  child_running /\ timed /\ ~stop_requested /\ ~kill_sent
    /\ clock = "grace_over"

StopDue == child_running /\ timed /\ ~stop_requested
             /\ clock # "running"
KillDue == child_running /\ timed /\ stop_requested /\ ~kill_sent
             /\ clock = "grace_over"

RequestStop ==
  /\ pc = "timer" /\ StopDue
  /\ events' = Append(events, "stop.requested")
  /\ SignalGroup(SIGTERM)
  /\ stop_requested' = TRUE
  /\ pc' = "poll"
  /\ UNCHANGED <<inputs, child_running, kill_sent, reading, result, member,
                 detached, trapped, holds, status, pipes, clock>>

SendKill ==
  /\ pc = "timer" /\ KillDue
  /\ events' = Append(events, "kill.sent")
  /\ SignalGroup(SIGKILL)
  /\ kill_sent' = TRUE
  /\ pc' = "poll"
  /\ UNCHANGED <<inputs, child_running, stop_requested, reading, result,
                 member, detached, trapped, holds, status, pipes, clock>>

\* kill fails other than with ESRCH, as it does with EPERM for a command that
\* changed its user: the event is out, no signal is, and the flag is not set.
SignalFails ==
  /\ pc = "timer"
  /\ \/ StopDue /\ events' = Append(events, "stop.requested")
     \/ KillDue /\ events' = Append(events, "kill.sent")
  /\ Throw
  /\ UNCHANGED group

NoSignalDue ==
  /\ pc = "timer" /\ ~StopDue /\ ~KillDue
  /\ pc' = "poll"
  /\ UNCHANGED <<inputs, control, reading, report, group, pipes, clock>>

Readiness(s) ==
  IF s \notin open THEN {}
  ELSE (IF pipe[s] > 0 THEN {"in"} ELSE {}) \cup
       (IF Holders(s) = {} THEN {"hup"} ELSE {})

\* Broken variant: stderr is drained once stdout is closed.
PollInTurn ==
  /\ pc = "poll"
  /\ child_running \/ \E s \in Streams : Readiness(s) # {}
  /\ revents' = [s \in Streams |->
       IF s = "stderr" /\ "stdout" \in open THEN {} ELSE Readiness(s)]
  /\ pc' = "stdout"
  /\ UNCHANGED <<inputs, control, open, captured, report, group, pipes,
                 clock>>

\* poll returns when a stream is ready; while the child has not been reaped
\* its timeout (25 ms at most) also ends it, afterwards it waits for ever.
Poll ==
  /\ pc = "poll"
  /\ child_running \/ \E s \in Streams : Readiness(s) # {}
  /\ revents' = [s \in Streams |-> Readiness(s)]
  /\ pc' = "stdout"
  /\ UNCHANGED <<inputs, control, open, captured, report, group, pipes,
                 clock>>

\* Either call of poll fails.
PollFails ==
  /\ pc = "poll" /\ (child_running \/ open # {})
  /\ Throw
  /\ UNCHANGED <<events, group>>

AfterDrain(s) == IF s = "stdout" THEN "stderr" ELSE "reap"

\* Broken variant: a read counts for the whole buffer, not for what it returned.
ReadWholeBuffer(s) ==
  /\ pc = s /\ s \in open
  /\ "in" \in revents[s]
  /\ pipe' = [pipe EXCEPT ![s] = @ - ReadSize]
  /\ captured' = captured \cup {s}
  /\ revents' = [revents EXCEPT ![s] = {}]
  /\ pc' = AfterDrain(s)
  /\ UNCHANGED <<inputs, control, open, report, group, stdin, clock>>

\* POLLIN: append one read to the buffer of the stream.
ReadStream(s) ==
  /\ pc = s /\ s \in open
  /\ "in" \in revents[s]
  /\ pipe' = [pipe EXCEPT ![s] = IF @ > ReadSize THEN @ - ReadSize ELSE 0]
  /\ captured' = captured \cup {s}
  /\ revents' = [revents EXCEPT ![s] = {}]
  /\ pc' = AfterDrain(s)
  /\ UNCHANGED <<inputs, control, open, report, group, stdin, clock>>

\* read fails; what was captured of either stream goes with the exception.
ReadFails(s) ==
  /\ pc = s /\ s \in open
  /\ "in" \in revents[s]
  /\ Throw
  /\ UNCHANGED <<events, group>>

\* Broken variants: POLLHUP is looked at before POLLIN; POLLHUP alone does not
\* close the stream.
CloseOnHangup(s) ==
  /\ pc = s /\ s \in open
  /\ "hup" \in revents[s]
  /\ open' = open \ {s}
  /\ revents' = [revents EXCEPT ![s] = {}]
  /\ pc' = AfterDrain(s)
  /\ UNCHANGED <<inputs, control, captured, report, group, pipes, clock>>

CloseOnRead(s) ==
  /\ pc = s /\ s \in open
  /\ {"hup", "in"} \subseteq revents[s]
  /\ open' = open \ {s}
  /\ revents' = [revents EXCEPT ![s] = {}]
  /\ pc' = AfterDrain(s)
  /\ UNCHANGED <<inputs, control, captured, report, group, pipes, clock>>

\* POLLHUP without POLLIN: every writer is gone and the pipe is empty.
CloseStream(s) ==
  /\ pc = s /\ s \in open
  /\ "hup" \in revents[s] /\ "in" \notin revents[s]
  /\ open' = open \ {s}
  /\ revents' = [revents EXCEPT ![s] = {}]
  /\ pc' = AfterDrain(s)
  /\ UNCHANGED <<inputs, control, captured, report, group, pipes, clock>>

SkipStream(s) ==
  /\ pc = s /\ (s \in open => revents[s] = {})
  /\ pc' = AfterDrain(s)
  /\ UNCHANGED <<inputs, control, reading, report, group, pipes, clock>>

\* Broken variants: the loop ends with the streams; the cause is "timeout" only
\* after a SIGKILL.
ReturnUnreaped ==
  /\ pc = "poll" /\ open = {}
  /\ result' = {CollectResult(status, stop_requested)}
  /\ events' = events \o OutputEvents(captured)
  /\ pc' = "returned"
  /\ UNCHANGED <<inputs, control, reading, group, pipes, clock>>

ReturnKilledOnly ==
  /\ pc = "poll" /\ ~child_running /\ open = {}
  /\ result' = {CollectResult(status, kill_sent)}
  /\ events' = events \o OutputEvents(captured)
  /\ pc' = "returned"
  /\ UNCHANGED <<inputs, control, reading, group, pipes, clock>>

\* The loop ends only when the child is reaped and both streams are closed;
\* then the output events and the result.
Return ==
  /\ pc = "poll" /\ ~child_running /\ open = {}
  /\ result' = {CollectResult(status, stop_requested)}
  /\ events' = events \o OutputEvents(captured)
  /\ pc' = "returned"
  /\ UNCHANGED <<inputs, control, reading, group, pipes, clock>>

(***************************************************************************)
(* The clock.  Only a collecting runner reads it; kill_deadline exists     *)
(* only once a stop was requested.                                         *)
(***************************************************************************)

TimeoutElapses ==
  /\ Collecting /\ clock = "running"
  /\ clock' = "timed_out"
  /\ UNCHANGED <<runner, group, pipes>>

GraceElapses ==
  /\ Collecting /\ stop_requested /\ clock = "timed_out"
  /\ clock' = "grace_over"
  /\ UNCHANGED <<runner, group, pipes>>

(***************************************************************************)
(* The command: any program, and the kernel acting on it.  A step whose    *)
(* effect no later step of the runner can observe is left out: leaving the *)
(* group or trapping SIGTERM when no signal is to come, using stdin when   *)
(* the runner has nothing more to write.                                   *)
(***************************************************************************)

SignalAhead(sent) == timed /\ child_running /\ ~sent

Dies(m, st) ==
  /\ member' = [member EXCEPT ![m] = IF m = Leader THEN "zombie" ELSE "gone"]
  /\ status' = IF m = Leader THEN st ELSE status
  /\ holds' = [holds EXCEPT ![m] = {}]
  /\ pending' = [pending EXCEPT ![m] = {}]
  /\ UNCHANGED <<runner, detached, trapped, pipes, clock>>

\* The process exits or crashes of its own accord; a failed chdir or execvp
\* is such an exit of the leader (code 127).
Exit(m) ==
  /\ Active(m)
  /\ \E st \in Statuses :
       /\ st.kind = "signaled" => st.code = SIGSEGV
       /\ Dies(m, st)

DieBySignal(m) ==
  /\ Live(m)
  /\ \E signal \in pending[m] : Dies(m, [kind |-> "signaled", code |-> signal])

Fork(m, d) ==
  /\ Active(m) /\ pending[m] = {} /\ member[d] = "unborn"
  /\ ~Ended
  /\ member' = [member EXCEPT ![d] = "live"]
  /\ holds' = [holds EXCEPT ![d] = holds[m]]
  /\ trapped' = IF m \in trapped THEN trapped \cup {d} ELSE trapped
  /\ detached' = IF m \in detached THEN detached \cup {d} ELSE detached
  /\ UNCHANGED <<runner, pending, status, pipes, clock>>

Detach(d) ==
  /\ Active(d) /\ d \in CanDetach \ detached
  /\ SignalAhead(kill_sent)
  /\ detached' = detached \cup {d}
  /\ UNCHANGED <<runner, member, trapped, pending, holds, status, pipes,
                 clock>>

TrapTerm(m) ==
  /\ Active(m) /\ m \notin trapped
  /\ SignalAhead(stop_requested)
  /\ trapped' = trapped \cup {m}
  /\ UNCHANGED <<runner, member, detached, pending, holds, status, pipes,
                 clock>>

CloseEnd(m, e) ==
  /\ Active(m) /\ e \in holds[m]
  /\ e = "stdin" => unsent > 0
  /\ ~Ended
  /\ holds' = [holds EXCEPT ![m] = @ \ {e}]
  /\ UNCHANGED <<runner, member, detached, trapped, pending, status, pipes,
                 clock>>

ReadStdin(m) ==
  /\ Active(m) /\ "stdin" \in holds[m] /\ stdin > 0 /\ unsent > 0
  /\ stdin' = stdin - 1
  /\ UNCHANGED <<runner, group, pipe, clock>>

WriteOutput(m, s) ==
  /\ Active(m) /\ s \in holds[m] /\ s \in open
  /\ pipe[s] < PipeCapacity
  /\ pipe' = [pipe EXCEPT ![s] = @ + 1]
  /\ UNCHANGED <<runner, group, stdin, clock>>

(***************************************************************************)
(* The specification.                                                      *)
(***************************************************************************)

Supervise ==
  \/ ReapChild \/ NothingToReap
  \/ RequestStop \/ SendKill \/ NoSignalDue
  \/ Poll
  \/ \E s \in Streams : ReadStream(s) \/ CloseStream(s) \/ SkipStream(s)
  \/ Return

Runner == Spawn \/ FeedStdin \/ FeedBroken \/ CloseStdin \/ Supervise

\* A system call of the runner fails.
Failure ==
  \/ SpawnFails \/ ReapFails \/ SignalFails \/ PollFails
  \/ \E s \in Streams : ReadFails(s)

Time == TimeoutElapses \/ GraceElapses

Command ==
  \E m \in Members :
    \/ Exit(m) \/ DieBySignal(m) \/ Detach(m) \/ TrapTerm(m) \/ ReadStdin(m)
    \/ \E d \in Descendants : Fork(m, d)
    \/ \E e \in Ends : CloseEnd(m, e)
    \/ \E s \in Streams : WriteOutput(m, s)

\* A run that is over, whatever the command's processes still do.
Done == Ended /\ UNCHANGED vars

Next == Runner \/ Failure \/ Time \/ Command \/ Done

Spec == Init /\ [][Next]_vars

\* The runner is a thread the kernel schedules, time passes, and a signal the
\* kernel has accepted is delivered.  The command owes no progress at all, and
\* no call needs to fail.
Fairness ==
  /\ WF_vars(Runner)
  /\ WF_vars(Time)
  /\ \A m \in Members : WF_vars(DieBySignal(m))

FairSpec == Spec /\ Fairness

(***************************************************************************)
(* Properties.                                                             *)
(***************************************************************************)

\* Every variable has its type.
TypeOK ==
  /\ pc \in {"spawn", "feed", "reap", "timer", "poll", "stdout", "stderr",
             "returned", "threw", "killed"}
  /\ timed \in BOOLEAN
  /\ unsent \in Nat
  /\ child_running \in BOOLEAN
  /\ stop_requested \in BOOLEAN
  /\ kill_sent \in BOOLEAN
  /\ clock \in {"running", "timed_out", "grace_over"}
  /\ open \subseteq Streams
  /\ revents \in [Streams -> SUBSET {"in", "hup"}]
  /\ captured \subseteq Streams
  /\ events \in Seq(EventNames)
  /\ result \subseteq ProcessResults
  /\ member \in [Members -> {"unborn", "live", "zombie", "gone"}]
  /\ detached \subseteq Members
  /\ trapped \subseteq Members
  /\ pending \in [Members -> SUBSET Signals]
  /\ holds \in [Members -> SUBSET Ends]
  /\ status \in Statuses
  /\ stdin \in 0..PipeCapacity
  /\ pipe \in [Streams -> 0..PipeCapacity]

Drained(s) == pipe[s] = 0 /\ Holders(s) = {}

\* A supervising runner closes a stream, and returns, only when nothing is left
\* in the pipe and no process can write to it any more:
\* collect_process_result neither truncates the output it returns nor breaks
\* the pipe of a writer.
NoOutputLost ==
  /\ Collecting => \A s \in Streams \ open : Drained(s)
  /\ pc = "returned" => \A s \in Streams : Drained(s)

\* Signals go out only while the child is unreaped, so -pid still names the
\* group this run created and never a recycled one.
SignalsHitOwnGroup ==
  [][(stop_requested' # stop_requested \/ kill_sent' # kill_sent)
       => member[Leader] \in {"live", "zombie"}]_vars

\* A run that returned left no zombie, reports the status of its own child,
\* and says "timeout" exactly when it emitted process.stop.requested.
ResultIsOfReapedChild ==
  pc = "returned" =>
    /\ member[Leader] = "gone"
    /\ \E r \in result :
         /\ r.exit_code = IF status.kind = "exited" THEN status.code
                                                    ELSE 128 + status.code
         /\ r.terminal_cause = "timeout"
              <=> \E i \in DOMAIN events : events[i] = "stop.requested"

\* A member killed by the runner had its chance to stop gracefully: SIGKILL
\* is pending only after the grace window that follows SIGTERM.
KillIsLastResort ==
  \A m \in Members : SIGKILL \in pending[m] =>
    clock = "grace_over" /\ stop_requested /\ kill_sent

\* Back pressure is released: while a run collects, a full output pipe is
\* eventually drained below capacity, so that a writer is never stuck.  Here and
\* below, a run in which a call fails is excepted: it is over, and its read ends
\* are closed.
FullPipeIsDrained ==
  \A s \in Streams :
    (Collecting /\ pipe[s] = PipeCapacity)
      ~> (pipe[s] < PipeCapacity \/ pc = "threw")

\* Once the child is dead and every write end is closed, the run returns.
DeadCommandReturns ==
  (/\ Collecting /\ ~Live(Leader)
   /\ \A s \in Streams : Holders(s) = {}) ~> (pc \in {"returned", "threw"})

\* Escalation is final: after SIGKILL the run returns, whatever traps and
\* descendants the command has, unless one of them left the group.
KillEndsRun == kill_sent ~> (pc \in {"returned", "threw"} \/ detached # {})

\* Timeouts stop the group, not only its leader: each member of the owned
\* group that is there when a stop is requested dies or leaves the group.
StoppedGroupDies ==
  \A m \in Members :
    (stop_requested /\ InGroup(m)) ~> (~InGroup(m) \/ pc = "threw")

\* A command with a timeout that does not end by itself is stopped, from its
\* launch on.
TimeoutIsArmed ==
  (timed /\ Live(Leader)) ~> (stop_requested \/ ~Live(Leader) \/ Ended)

(***************************************************************************)
(* The inductive invariant behind the safety properties.                   *)
(***************************************************************************)

\* Supervision starts when the input is written, and the runner's idea of the
\* child agrees with the kernel's.
ReapInv ==
  /\ Collecting \/ pc = "returned" => unsent = 0
  /\ child_running <=> member[Leader] # "gone"
  /\ pc = "spawn" => \A m \in Members : member[m] = "unborn"
  /\ pc = "feed" \/ Collecting \/ pc = "returned" => member[Leader] # "unborn"

\* A process that is not alive holds no pipe end and has no signal pending.
KernelInv ==
  \A m \in Members : ~Live(m) => holds[m] = {} /\ pending[m] = {}

\* A reported hangup is final, and a reported hangup without data means an
\* empty pipe, however long ago poll reported it.
PollInv ==
  /\ pc \in {"spawn", "feed"} =>
       open = Streams /\ \A s \in Streams : revents[s] = {}
  /\ \A s \in Streams : "hup" \in revents[s] =>
       Holders(s) = {} /\ ("in" \notin revents[s] => pipe[s] = 0)

DrainInv ==
  /\ Collecting \/ pc = "returned" => \A s \in Streams \ open : Drained(s)
  /\ pc = "returned" => open = {}

EscalationInv ==
  /\ stop_requested => clock # "running"
  /\ kill_sent => stop_requested /\ clock = "grace_over"
  /\ \A m \in Members : SIGKILL \in pending[m] => kill_sent
  /\ pc \in {"spawn", "feed"} => ~stop_requested

\* The events a run has emitted before its output events.
ControlEvents ==
  IF kill_sent THEN <<"started", "stop.requested", "kill.sent">>
  ELSE IF stop_requested THEN <<"started", "stop.requested">>
  ELSE <<"started">>

EventInv ==
  /\ pc = "spawn" => events = <<>>
  /\ pc = "feed" \/ Collecting => events = ControlEvents
  /\ pc \in {"threw", "killed"} =>
       events \in {<<>>, <<"started">>, <<"started", "stop.requested">>,
                   <<"started", "stop.requested", "kill.sent">>}
  /\ pc = "returned" =>
       \E out \in SUBSET Streams : events = ControlEvents \o OutputEvents(out)

ResultInv ==
  IF pc = "returned"
  THEN /\ member[Leader] = "gone"
       /\ result = {CollectResult(status, stop_requested)}
  ELSE result = {}

IInv ==
  /\ TypeOK
  /\ ReapInv /\ KernelInv /\ PollInv /\ DrainInv
  /\ EscalationInv /\ EventInv /\ ResultInv

(***************************************************************************)
(* Refinement: a run of the runtime is a run of the contract its callers   *)
(* rely on.                                                                *)
(***************************************************************************)

Phase ==
  IF pc = "spawn" THEN "idle"
  ELSE IF pc = "returned" THEN "returned"
  ELSE IF pc \in {"threw", "killed"} THEN "aborted"
  ELSE "running"

Contract == INSTANCE ProcessContract WITH
  phase   <- Phase,
  feeding <- unsent > 0

\* The events come in the order of the contract and the result agrees with
\* them.
ImplementsContract == Contract!Spec
==============================================================================

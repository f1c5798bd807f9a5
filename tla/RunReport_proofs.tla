--------------------------- MODULE RunReport_proofs ---------------------------
(***************************************************************************)
(* Facts about reports and readable streams, for the proofs about          *)
(* workflow runs and graph runs.  A stream grows by reports that close     *)
(* nothing (StreamGrows) or by one that closes a span (StreamCloses); an   *)
(* item goes through ItemStarts, ItemGoesOn and ItemCompletes or RunFails. *)
(***************************************************************************)
EXTENDS RunReport, SequenceTheorems, TLAPS

Scopes  == {"run", "item", "process"}
Causes  == TerminalCauses \cup {"none"}
Names   == EventNames \cup {"completed", "failed", "killed"}
Reports == [scope : Scopes, name : Names, subject : Int, done : Nat, cause : Causes]

RunStarted == RunReport("started", 0, "none")

\* What one process has emitted so far begins with its start.
Emitted(emitted) ==
  /\ emitted \in Seq(EventNames)
  /\ \A i \in 1..Len(emitted) : emitted[i] = "started" <=> i = 1

Closed(log, i) == \E j \in i+1..Len(log) : ClosedAt(log, i, j)

\* The run has started and is not over.
RunIsOpen(log) ==
  /\ Len(log) > 0 /\ log[1] = RunStarted
  /\ \A k \in 2..Len(log) : log[k].scope # "run"

\* No item is open.
BetweenItems(log) ==
  /\ RunIsOpen(log)
  /\ \A k \in 2..Len(log) : Opens(log[k]) => Closed(log, k)

\* Item x was started at position n, and its process has emitted some events.
InItem(log, n, x, emitted) ==
  /\ RunIsOpen(log)
  /\ n \in 2..Len(log) /\ Len(log) = n + Len(emitted)
  /\ \A k \in 2..n-1 : Opens(log[k]) => Closed(log, k)
  /\ log[n].scope = "item" /\ log[n].name = "started" /\ log[n].subject = x
  /\ \A i \in 1..Len(emitted) :
       /\ log[n+i].scope = "process" /\ log[n+i].subject = x
       /\ log[n+i].name = emitted[i]

(***************************************************************************)
(* The reports.                                                            *)
(***************************************************************************)

LEMMA ReportFacts ==
  ASSUME NEW scope \in Scopes, NEW name \in Names, NEW subject \in Int,
         NEW done \in Nat, NEW cause \in Causes, NEW r,
         r = Report(scope, name, subject, done, cause)
  PROVE  /\ r \in Reports /\ r.scope = scope /\ r.name = name
         /\ r.subject = subject /\ r.done = done /\ r.cause = cause
BY DEF Report, Reports

LEMMA RunReportFacts ==
  ASSUME NEW name \in Names, NEW done \in Nat, NEW cause \in Causes
  PROVE  LET r == RunReport(name, done, cause)
         IN  /\ r \in Reports /\ r.scope = "run" /\ r.name = name
             /\ r.subject = RunSubject /\ r.done = done /\ r.cause = cause
BY ReportFacts DEF RunReport, RunSubject, Scopes

LEMMA ItemReportFacts ==
  ASSUME NEW name \in Names, NEW x \in Int, NEW done \in Nat, NEW cause \in Causes
  PROVE  LET r == ItemReport(name, x, done, cause)
         IN  /\ r \in Reports /\ r.scope = "item" /\ r.name = name
             /\ r.subject = x /\ r.done = done /\ r.cause = cause
BY ReportFacts DEF ItemReport, Scopes

LEMMA ProcessEndFacts ==
  ASSUME NEW x \in Int, NEW res \in ProcessResults
  PROVE  LET r == ProcessEnd(x, res)
         IN  /\ r \in Reports /\ r.scope = "process" /\ r.subject = x /\ Closes(r)
             /\ ~Opens(r)
<1> DEFINE name == IF res.signaled THEN "killed"
                   ELSE IF res.exit_code = 0 THEN "completed" ELSE "failed"
<1>1. name \in {"completed", "failed", "killed"}
  OBVIOUS
<1>2. res.terminal_cause \in Causes
  BY DEF ProcessResults, Causes
<1>3. ProcessEnd(x, res) = Report("process", name, x, 0, res.terminal_cause)
  BY DEF ProcessEnd
<1> HIDE DEF name
<1>4. name \in Names /\ "process" \in Scopes
  BY <1>1 DEF Names, Scopes
<1>5. LET r == ProcessEnd(x, res)
      IN  r \in Reports /\ r.scope = "process" /\ r.subject = x /\ r.name = name
  BY <1>2, <1>3, <1>4, ReportFacts
<1>6. QED BY <1>1, <1>5 DEF Closes, Opens

LEMMA ProcessReportsFacts ==
  ASSUME NEW x \in Int, NEW emitted \in Seq(EventNames)
  PROVE  LET rs == ProcessReports(x, emitted)
         IN  /\ rs \in Seq(Reports) /\ Len(rs) = Len(emitted)
             /\ \A i \in 1..Len(emitted) :
                  /\ rs[i].scope = "process" /\ rs[i].subject = x
                  /\ rs[i].name = emitted[i] /\ ~Closes(rs[i])
<1> DEFINE rs == ProcessReports(x, emitted)
           cause(i) == IF emitted[i] \in {"stop.requested", "kill.sent"}
                       THEN "timeout" ELSE "none"
<1>1. /\ Len(emitted) \in Nat /\ DOMAIN emitted = 1..Len(emitted)
      /\ \A i \in 1..Len(emitted) : emitted[i] \in EventNames
  BY LenProperties, ElementOfSeq
<1>2. rs = [i \in 1..Len(emitted) |-> Report("process", emitted[i], x, 0, cause(i))]
  BY <1>1 DEF ProcessReports
<1>3. ASSUME NEW i \in 1..Len(emitted)
      PROVE  /\ rs[i] \in Reports /\ rs[i].scope = "process"
             /\ rs[i].subject = x /\ rs[i].name = emitted[i] /\ ~Closes(rs[i])
  <2>1. rs[i] = Report("process", emitted[i], x, 0, cause(i))
    BY <1>2
  <2>2. cause(i) \in Causes
    BY DEF Causes, TerminalCauses
  <2>3. emitted[i] \in EventNames /\ emitted[i] \in Names /\ "process" \in Scopes
    BY <1>1 DEF Names, Scopes
  <2> HIDE DEF rs, cause
  <2>4. /\ rs[i] \in Reports /\ rs[i].scope = "process"
        /\ rs[i].subject = x /\ rs[i].name = emitted[i]
    BY <2>1, <2>2, <2>3, ReportFacts
  <2>5. QED BY <2>3, <2>4 DEF Closes, EventNames
<1>4. rs \in [1..Len(emitted) -> Reports]
  BY <1>2, <1>3
<1>5. rs \in Seq(Reports)
  BY <1>1, <1>4, SeqDef
<1>6. Len(rs) = Len(emitted)
  <2>1. DOMAIN rs = 1..Len(emitted) /\ DOMAIN rs = 1..Len(rs) /\ Len(rs) \in Nat
    BY <1>4, <1>5, LenProperties
  <2> HIDE DEF rs
  <2>2. QED BY <1>1, <2>1
<1>7. QED BY <1>3, <1>5, <1>6

(***************************************************************************)
(* Streams that grow.                                                      *)
(***************************************************************************)

\* A span stays closed.
LEMMA ClosedStays ==
  ASSUME NEW log \in Seq(Reports), NEW more \in Seq(Reports), NEW i \in 1..Len(log)
  PROVE  /\ \A j \in 1..Len(log) : ClosedAt(log, i, j) => ClosedAt(log \o more, i, j)
         /\ Closed(log, i) => Closed(log \o more, i)
<1>1. /\ Len(log \o more) = Len(log) + Len(more)
      /\ Len(log) \in Nat /\ Len(more) \in Nat
      /\ \A k \in 1..Len(log) : (log \o more)[k] = log[k]
  BY ConcatProperties, LenProperties
<1>2. \A j \in 1..Len(log) : ClosedAt(log, i, j) => ClosedAt(log \o more, i, j)
  BY <1>1 DEF ClosedAt
<1>3. QED BY <1>1, <1>2 DEF Closed

LEMMA StreamGrows ==
  ASSUME NEW log \in Seq(Reports), NEW more \in Seq(Reports), WellNested(log),
         Len(log) > 0, log[1] = RunStarted,
         \A i \in 1..Len(more) : ~Closes(more[i])
  PROVE  WellNested(log \o more)
<1> DEFINE new == log \o more
<1>1. /\ Len(new) = Len(log) + Len(more) /\ Len(log) \in Nat /\ Len(more) \in Nat
      /\ \A k \in 1..Len(log) : new[k] = log[k]
      /\ \A k \in Len(log)+1..Len(new) : new[k] = more[k - Len(log)]
  BY ConcatProperties, LenProperties
<1>2. \A i, j \in 1..Len(log) : ClosedAt(log, i, j) => ClosedAt(new, i, j)
  BY ClosedStays
<1> HIDE DEF new
<1>3. ASSUME NEW j \in 1..Len(new), Closes(new[j])
      PROVE  \E i \in 1..j-1 :
               /\ Opens(new[i]) /\ SameSpan(new[i], new[j])
               /\ \A k \in i+1..j-1 :
                    /\ SameSpan(new[k], new[j]) => ~Opens(new[k]) /\ ~Closes(new[k])
                    /\ Opens(new[k]) => \E l \in k+1..j-1 : ClosedAt(new, k, l)
  <2>1. j \in 1..Len(log)
    <3>1. CASE j \in Len(log)+1..Len(new)
      <4>1. j - Len(log) \in 1..Len(more) /\ new[j] = more[j - Len(log)]
        BY <1>1, <3>1
      <4>2. QED BY <1>3, <4>1
    <3>2. QED BY <1>1, <3>1
  <2>2. Closes(log[j])
    BY <1>1, <1>3, <2>1
  <2>3. PICK i \in 1..j-1 :
          /\ Opens(log[i]) /\ SameSpan(log[i], log[j])
          /\ \A k \in i+1..j-1 :
               /\ SameSpan(log[k], log[j]) => ~Opens(log[k]) /\ ~Closes(log[k])
               /\ Opens(log[k]) => \E l \in k+1..j-1 : ClosedAt(log, k, l)
    BY <2>1, <2>2 DEF WellNested
  <2>4. \A k \in 1..j : new[k] = log[k] /\ k \in 1..Len(log)
    BY <1>1, <2>1
  <2>5. i \in 1..j /\ j \in 1..j /\ \A k \in i+1..j-1 : k \in 1..j
    BY <1>1, <2>1
  <2>6. Opens(new[i]) /\ SameSpan(new[i], new[j])
    BY <2>3, <2>4, <2>5
  <2>7. ASSUME NEW k \in i+1..j-1
        PROVE  /\ SameSpan(new[k], new[j]) => ~Opens(new[k]) /\ ~Closes(new[k])
               /\ Opens(new[k]) => \E l \in k+1..j-1 : ClosedAt(new, k, l)
    <3>1. new[k] = log[k] /\ new[j] = log[j]
      BY <2>4, <2>5
    <3>2. SameSpan(new[k], new[j]) => ~Opens(new[k]) /\ ~Closes(new[k])
      BY <2>3, <3>1
    <3>3. ASSUME Opens(new[k]) PROVE \E l \in k+1..j-1 : ClosedAt(new, k, l)
      <4>1. PICK l \in k+1..j-1 : ClosedAt(log, k, l)
        BY <2>3, <3>1, <3>3
      <4>2. k \in 1..Len(log) /\ l \in 1..Len(log)
        BY <1>1, <2>1
      <4>3. QED BY <1>2, <4>1, <4>2
    <3>4. QED BY <3>2, <3>3
  <2>8. QED BY <2>6, <2>7
<1>4. ASSUME NEW i \in 1..Len(new), new[i].scope # "run"
      PROVE  \E j \in 1..i-1 : new[j] = RunStarted
  <2>1. new[1] = RunStarted /\ RunStarted.scope = "run"
    BY <1>1 DEF RunStarted, RunReport, Report
  <2>2. i # 1
    BY <1>4, <2>1
  <2>3. 1 \in 1..i-1
    BY <1>1, <2>2
  <2>4. QED BY <2>1, <2>3
<1>5. QED BY <1>3, <1>4 DEF WellNested, RunStarted, new

LEMMA SingleReport ==
  ASSUME NEW log \in Seq(Reports), NEW r \in Reports
  PROVE  /\ <<r>> \in Seq(Reports) /\ Append(log, r) = log \o <<r>>
         /\ Append(log, r) \in Seq(Reports)
         /\ Len(Append(log, r)) = Len(log) + 1 /\ Len(log) \in Nat
         /\ Append(log, r)[Len(log) + 1] = r
         /\ \A k \in 1..Len(log) : Append(log, r)[k] = log[k]
<1>1. Append(log, r) = log \o <<r>>
  OBVIOUS
<1>2. QED BY <1>1, LenProperties

\* A report that closes the span opened at position i.
LEMMA StreamCloses ==
  ASSUME NEW log \in Seq(Reports), NEW r \in Reports, WellNested(log),
         Len(log) > 0, log[1] = RunStarted,
         NEW i \in 1..Len(log), Opens(log[i]), SameSpan(log[i], r),
         \A k \in i+1..Len(log) :
           /\ SameSpan(log[k], r) => ~Opens(log[k]) /\ ~Closes(log[k])
           /\ Opens(log[k]) => Closed(log, k)
  PROVE  WellNested(Append(log, r))
<1> DEFINE new == Append(log, r)
<1>1. /\ new \in Seq(Reports) /\ Len(new) = Len(log) + 1 /\ Len(log) \in Nat
      /\ new[Len(log) + 1] = r
      /\ \A k \in 1..Len(log) : new[k] = log[k]
      /\ <<r>> \in Seq(Reports) /\ new = log \o <<r>>
  BY SingleReport
<1>2. \A a, b \in 1..Len(log) : ClosedAt(log, a, b) => ClosedAt(new, a, b)
  BY <1>1, ClosedStays
<1> HIDE DEF new
<1>3. ASSUME NEW j \in 1..Len(log), Closes(new[j])
      PROVE  \E h \in 1..j-1 :
               /\ Opens(new[h]) /\ SameSpan(new[h], new[j])
               /\ \A k \in h+1..j-1 :
                    /\ SameSpan(new[k], new[j]) => ~Opens(new[k]) /\ ~Closes(new[k])
                    /\ Opens(new[k]) => \E l \in k+1..j-1 : ClosedAt(new, k, l)
  <2>1. Closes(log[j])
    BY <1>1, <1>3
  <2>2. PICK h \in 1..j-1 :
          /\ Opens(log[h]) /\ SameSpan(log[h], log[j])
          /\ \A k \in h+1..j-1 :
               /\ SameSpan(log[k], log[j]) => ~Opens(log[k]) /\ ~Closes(log[k])
               /\ Opens(log[k]) => \E l \in k+1..j-1 : ClosedAt(log, k, l)
    BY <2>1 DEF WellNested
  <2>3. Opens(new[h]) /\ SameSpan(new[h], new[j])
    BY <1>1, <2>2
  <2>4. ASSUME NEW k \in h+1..j-1
        PROVE  /\ SameSpan(new[k], new[j]) => ~Opens(new[k]) /\ ~Closes(new[k])
               /\ Opens(new[k]) => \E l \in k+1..j-1 : ClosedAt(new, k, l)
    <3>1. new[k] = log[k] /\ new[j] = log[j] /\ k \in 1..Len(log)
      BY <1>1
    <3>2. SameSpan(new[k], new[j]) => ~Opens(new[k]) /\ ~Closes(new[k])
      BY <2>2, <3>1
    <3>3. ASSUME Opens(new[k]) PROVE \E l \in k+1..j-1 : ClosedAt(new, k, l)
      <4>1. PICK l \in k+1..j-1 : ClosedAt(log, k, l)
        BY <2>2, <3>1, <3>3
      <4>2. l \in 1..Len(log)
        BY <1>1
      <4>3. QED BY <1>2, <3>1, <4>1, <4>2
    <3>4. QED BY <3>2, <3>3
  <2>5. QED BY <2>3, <2>4
<1>4. LET j == Len(log) + 1
      IN  \E h \in 1..j-1 :
            /\ Opens(new[h]) /\ SameSpan(new[h], new[j])
            /\ \A k \in h+1..j-1 :
                 /\ SameSpan(new[k], new[j]) => ~Opens(new[k]) /\ ~Closes(new[k])
                 /\ Opens(new[k]) => \E l \in k+1..j-1 : ClosedAt(new, k, l)
  <2>1. i \in 1..(Len(log)+1)-1 /\ (Len(log)+1)-1 = Len(log)
    BY <1>1
  <2>2. Opens(new[i]) /\ SameSpan(new[i], new[Len(log) + 1])
    BY <1>1
  <2>3. ASSUME NEW k \in i+1..Len(log)
        PROVE  /\ SameSpan(new[k], r) => ~Opens(new[k]) /\ ~Closes(new[k])
               /\ Opens(new[k]) => \E l \in k+1..Len(log) : ClosedAt(new, k, l)
    <3>1. new[k] = log[k] /\ k \in 1..Len(log)
      BY <1>1
    <3>2. ASSUME Opens(new[k]) PROVE \E l \in k+1..Len(log) : ClosedAt(new, k, l)
      <4>1. PICK l \in k+1..Len(log) : ClosedAt(log, k, l)
        BY <3>1, <3>2 DEF Closed
      <4>2. l \in 1..Len(log)
        BY <1>1, <3>1
      <4>3. QED BY <1>2, <3>1, <4>1, <4>2
    <3>3. QED BY <3>1, <3>2
  <2>4. QED BY <1>1, <2>1, <2>2, <2>3
<1>5. ASSUME NEW j \in 1..Len(new), Closes(new[j])
      PROVE  \E h \in 1..j-1 :
               /\ Opens(new[h]) /\ SameSpan(new[h], new[j])
               /\ \A k \in h+1..j-1 :
                    /\ SameSpan(new[k], new[j]) => ~Opens(new[k]) /\ ~Closes(new[k])
                    /\ Opens(new[k]) => \E l \in k+1..j-1 : ClosedAt(new, k, l)
  <2>1. j \in 1..Len(log) \/ j = Len(log) + 1
    BY <1>1
  <2>2. QED BY <1>3, <1>4, <1>5, <2>1
<1>6. ASSUME NEW k \in 1..Len(new), new[k].scope # "run"
      PROVE  \E j \in 1..k-1 : new[j] = RunStarted
  <2>1. 1 \in 1..Len(log) /\ new[1] = RunStarted /\ RunStarted.scope = "run"
    BY <1>1 DEF RunStarted, RunReport, Report
  <2>2. 1 \in 1..k-1
    BY <1>1, <1>6, <2>1
  <2>3. QED BY <2>1, <2>2
<1>7. QED BY <1>5, <1>6 DEF WellNested, RunStarted, new

(***************************************************************************)
(* The stages of a run.                                                    *)
(***************************************************************************)

LEMMA RunBegins ==
  /\ <<RunStarted>> \in Seq(Reports) /\ WellNested(<<RunStarted>>)
  /\ BetweenItems(<<RunStarted>>) /\ Len(<<RunStarted>>) = 1
<1>1. RunStarted \in Reports /\ RunStarted.scope = "run" /\ RunStarted.name = "started"
  BY RunReportFacts DEF RunStarted, Names, EventNames, Causes
<1> HIDE DEF RunStarted
<1>2. <<RunStarted>> \in Seq(Reports) /\ Len(<<RunStarted>>) = 1 /\ <<RunStarted>>[1] = RunStarted
  BY <1>1
<1>3. WellNested(<<RunStarted>>)
  BY <1>1, <1>2 DEF WellNested, Closes
<1>4. BetweenItems(<<RunStarted>>)
  BY <1>1, <1>2 DEF BetweenItems, RunIsOpen
<1>5. QED BY <1>2, <1>3, <1>4

LEMMA EmptyIsNested == WellNested(<<>>)
BY DEF WellNested

LEMMA ItemStarts ==
  ASSUME NEW log \in Seq(Reports), WellNested(log), BetweenItems(log),
         NEW x \in Int, NEW r \in Reports, r.scope = "item", r.name = "started", r.subject = x
  PROVE  LET new == Append(log, r)
         IN  /\ new \in Seq(Reports) /\ WellNested(new)
             /\ InItem(new, Len(log) + 1, x, <<>>)
<1> DEFINE new == Append(log, r)
<1>1. /\ new \in Seq(Reports) /\ Len(new) = Len(log) + 1 /\ Len(log) \in Nat
      /\ new[Len(log) + 1] = r /\ \A k \in 1..Len(log) : new[k] = log[k]
      /\ <<r>> \in Seq(Reports) /\ new = log \o <<r>>
  BY SingleReport
<1>2. Len(log) > 0 /\ log[1] = RunStarted /\ \A k \in 2..Len(log) : log[k].scope # "run"
  BY DEF BetweenItems, RunIsOpen
<1>3. WellNested(new)
  <2>1. \A i \in 1..Len(<<r>>) : ~Closes(<<r>>[i])
    BY DEF Closes
  <2>2. QED BY <1>1, <1>2, <2>1, StreamGrows
<1>4. \A k \in 2..Len(log) : Opens(new[k]) => Closed(new, k)
  <2> TAKE k \in 2..Len(log)
  <2>1. k \in 1..Len(log) /\ new[k] = log[k]
    BY <1>1
  <2>2. QED BY <1>1, <2>1, ClosedStays DEF BetweenItems
<1> HIDE DEF new
<1>5. RunIsOpen(new)
  BY <1>1, <1>2 DEF RunIsOpen
<1>6. InItem(new, Len(log) + 1, x, <<>>)
  <2>1. /\ Len(<<>>) = 0 /\ 1..Len(<<>>) = {} /\ 2..(Len(log) + 1) - 1 = 2..Len(log)
        /\ Len(log) + 1 \in 2..Len(new) /\ Len(new) = (Len(log) + 1) + 0
    BY <1>1, <1>2
  <2>2. QED BY <1>1, <1>4, <1>5, <2>1 DEF InItem
<1>7. QED BY <1>1, <1>3, <1>6 DEF new

\* All reports since an item was started are about it.
LEMMA ItemSubjects ==
  ASSUME NEW log \in Seq(Reports), NEW n \in Nat, NEW x \in Int, NEW emitted,
         Emitted(emitted), InItem(log, n, x, emitted)
  PROVE  n \in 2..Len(log) /\ log[n].scope = "item"
         /\ \A k \in n..Len(log) : log[k].subject = x
<1>1. /\ n \in 2..Len(log) /\ Len(log) = n + Len(emitted) /\ log[n].scope = "item"
      /\ log[n].subject = x /\ Len(emitted) \in Nat /\ Len(log) \in Nat
  BY LenProperties DEF InItem, Emitted
<1>2. ASSUME NEW k \in n..Len(log) PROVE log[k].subject = x
  <2>1. CASE k = n
    BY <1>1, <2>1
  <2>2. CASE k # n
    <3>1. k - n \in 1..Len(emitted) /\ n + (k - n) = k
      BY <1>1, <2>2
    <3>2. log[n + (k - n)].subject = x
      BY <3>1 DEF InItem
    <3>3. QED BY <3>1, <3>2
  <2>3. QED BY <2>1, <2>2
<1>3. QED BY <1>1, <1>2

\* The process of item x, which has emitted some events, emits more.
GoesOn(log, n, x, emitted, later) ==
  /\ log \in Seq(Reports) /\ WellNested(log) /\ InItem(log, n, x, emitted) /\ x \in Int
  /\ emitted \in Seq(EventNames) /\ later \in Seq(EventNames)
  /\ Len(emitted) <= Len(later) /\ \A i \in 1..Len(emitted) : later[i] = emitted[i]

LEMMA ItemGoesOn ==
  ASSUME NEW log, NEW n, NEW x, NEW emitted, NEW later, GoesOn(log, n, x, emitted, later)
  PROVE  LET new == log \o ProcessReports(x, SubSeq(later, Len(emitted) + 1, Len(later)))
         IN  /\ new \in Seq(Reports) /\ WellNested(new) /\ InItem(new, n, x, later)
             /\ Len(log) <= Len(new) /\ \A k \in 1..Len(log) : new[k] = log[k]
             /\ \A k \in Len(log)+1..Len(new) : new[k].scope = "process" /\ new[k].subject = x
<1> DEFINE tail == SubSeq(later, Len(emitted) + 1, Len(later))
           more == ProcessReports(x, tail)
           new  == log \o more
<1>0. /\ log \in Seq(Reports) /\ WellNested(log) /\ InItem(log, n, x, emitted) /\ x \in Int
      /\ emitted \in Seq(EventNames) /\ later \in Seq(EventNames)
      /\ Len(emitted) <= Len(later) /\ \A i \in 1..Len(emitted) : later[i] = emitted[i]
  BY DEF GoesOn
<1> USE <1>0
<1>1. Len(emitted) \in Nat /\ Len(later) \in Nat /\ \A i \in 1..Len(later) : later[i] \in EventNames
  BY LenProperties, ElementOfSeq
<1>2. /\ tail \in Seq(EventNames) /\ Len(tail) = Len(later) - Len(emitted)
      /\ \A i \in 1..Len(tail) : tail[i] = later[Len(emitted) + i]
  <2>1. \A i \in Len(emitted)+1..Len(later) : later[i] \in EventNames
    BY <1>1
  <2>2. /\ tail \in Seq(EventNames)
        /\ Len(tail) = IF Len(emitted)+1 <= Len(later) THEN Len(later)-(Len(emitted)+1)+1 ELSE 0
        /\ \A i \in 1..Len(later)-(Len(emitted)+1)+1 : tail[i] = later[Len(emitted)+1+i-1]
    BY <1>1, <2>1, SubSeqProperties
  <2> HIDE DEF tail
  <2>3. QED BY <1>1, <2>2
<1> HIDE DEF tail
<1>3. /\ more \in Seq(Reports) /\ Len(more) = Len(tail)
      /\ \A i \in 1..Len(tail) : /\ more[i].scope = "process" /\ more[i].subject = x
                                 /\ more[i].name = tail[i] /\ ~Closes(more[i])
  BY <1>2, ProcessReportsFacts
<1> HIDE DEF more
<1>4. /\ new \in Seq(Reports) /\ Len(new) = Len(log) + Len(more) /\ Len(log) \in Nat
      /\ \A k \in 1..Len(log) : new[k] = log[k]
      /\ \A k \in Len(log)+1..Len(new) : new[k] = more[k - Len(log)]
  <2>1. Len(log) \in Nat /\ Len(more) \in Nat
    BY <1>3, LenProperties
  <2>2. /\ new \in Seq(Reports) /\ Len(new) = Len(log) + Len(more)
        /\ \A i \in 1..Len(log) + Len(more) :
             new[i] = IF i <= Len(log) THEN log[i] ELSE more[i - Len(log)]
    <3>1. more \in Seq(Reports)
      BY <1>3
    <3>2. QED BY <3>1, ConcatProperties
  <2> HIDE DEF new
  <2>3. QED BY <2>1, <2>2
<1>5. /\ Len(log) > 0 /\ log[1] = RunStarted /\ \A k \in 2..Len(log) : log[k].scope # "run"
      /\ n \in 2..Len(log) /\ Len(log) = n + Len(emitted)
  BY DEF InItem, RunIsOpen
<1>6. WellNested(new)
  BY <1>3, <1>5, StreamGrows
<1>7. \A k \in 2..n-1 : Opens(new[k]) => Closed(new, k)
  <2> TAKE k \in 2..n-1
  <2>1. k \in 1..Len(log)
    BY <1>5
  <2>2. Opens(log[k]) => Closed(log, k)
    BY DEF InItem
  <2>3. QED BY <1>3, <1>4, <2>1, <2>2, ClosedStays
<1> HIDE DEF new
<1>8. ASSUME NEW k \in Len(log)+1..Len(new)
      PROVE  new[k].scope = "process" /\ new[k].subject = x
  <2>1. k - Len(log) \in 1..Len(tail)
    BY <1>1, <1>2, <1>3, <1>4
  <2>2. QED BY <1>3, <1>4, <2>1
<1>9. RunIsOpen(new)
  <2>1. ASSUME NEW k \in 2..Len(new) PROVE new[k].scope # "run"
    <3>1. k \in 1..Len(log) \/ k \in Len(log)+1..Len(new)
      BY <1>4
    <3>2. CASE k \in 1..Len(log)
      <4>1. k \in 2..Len(log) /\ new[k] = log[k]
        BY <1>4, <3>2
      <4>2. QED BY <1>5, <4>1
    <3>3. CASE k \in Len(log)+1..Len(new)
      <4>1. new[k].scope = "process"
        BY <1>8, <3>3
      <4>2. QED BY <4>1
    <3>4. QED BY <3>1, <3>2, <3>3
  <2>2. QED BY <1>1, <1>2, <1>3, <1>4, <1>5, <2>1 DEF RunIsOpen
<1>10. ASSUME NEW i \in 1..Len(later)
       PROVE  /\ new[n+i].scope = "process" /\ new[n+i].subject = x
              /\ new[n+i].name = later[i]
  <2>1. CASE i <= Len(emitted)
    <3>1. i \in 1..Len(emitted) /\ n + i \in 1..Len(log)
      BY <1>1, <1>5, <2>1
    <3>2. /\ log[n+i].scope = "process" /\ log[n+i].subject = x
          /\ log[n+i].name = emitted[i]
      BY <3>1 DEF InItem
    <3>3. QED BY <1>4, <3>1, <3>2
  <2>2. CASE i > Len(emitted)
    <3>1. /\ i - Len(emitted) \in 1..Len(tail) /\ n + i \in Len(log)+1..Len(new)
          /\ (n + i) - Len(log) = i - Len(emitted) /\ Len(emitted) + (i - Len(emitted)) = i
      BY <1>1, <1>2, <1>3, <1>4, <1>5, <2>2
    <3>2. new[n+i] = more[i - Len(emitted)] /\ tail[i - Len(emitted)] = later[i]
      BY <1>2, <1>4, <3>1
    <3>3. QED BY <1>3, <3>1, <3>2
  <2>3. QED BY <1>1, <2>1, <2>2
<1>11. Len(new) = n + Len(later) /\ n \in 2..Len(new) /\ Len(log) <= Len(new)
  BY <1>1, <1>2, <1>3, <1>4, <1>5
<1>12. log[n].scope = "item" /\ log[n].name = "started" /\ log[n].subject = x /\ new[n] = log[n]
  BY <1>4, <1>5 DEF InItem
<1>13. InItem(new, n, x, later)
  BY <1>7, <1>9, <1>10, <1>11, <1>12 DEF InItem
<1>14. QED BY <1>4, <1>6, <1>8, <1>11, <1>13 DEF new, more, tail

\* The process is closed, and then the item.
LEMMA ItemEnds ==
  ASSUME NEW log \in Seq(Reports), WellNested(log), NEW n, NEW x \in Int,
         NEW emitted, Emitted(emitted), Len(emitted) > 0, InItem(log, n, x, emitted),
         NEW r1 \in Reports, r1.scope = "process", r1.subject = x, Closes(r1), ~Opens(r1),
         NEW r2 \in Reports, r2.scope = "item", r2.subject = x, Closes(r2), ~Opens(r2)
  PROVE  LET new == Append(Append(log, r1), r2)
         IN  /\ new \in Seq(Reports) /\ WellNested(new) /\ BetweenItems(new)
             /\ Len(new) = Len(log) + 2 /\ \A k \in 1..Len(log) : new[k] = log[k]
             /\ new[Len(log) + 1] = r1 /\ new[Len(log) + 2] = r2
<1> DEFINE mid == Append(log, r1)
           new == Append(mid, r2)
<1>1. /\ mid \in Seq(Reports) /\ Len(mid) = Len(log) + 1 /\ Len(log) \in Nat
      /\ mid[Len(log) + 1] = r1 /\ \A k \in 1..Len(log) : mid[k] = log[k]
      /\ <<r1>> \in Seq(Reports) /\ mid = log \o <<r1>>
  BY SingleReport
<1>2. /\ Len(log) > 0 /\ log[1] = RunStarted /\ \A k \in 2..Len(log) : log[k].scope # "run"
      /\ n \in 2..Len(log) /\ Len(log) = n + Len(emitted) /\ Len(emitted) \in Nat
      /\ log[n].scope = "item" /\ log[n].name = "started" /\ log[n].subject = x
      /\ \A k \in 2..n-1 : Opens(log[k]) => Closed(log, k)
  BY LenProperties DEF InItem, RunIsOpen, Emitted
<1>3. \A k \in n+1..Len(log) : /\ log[k].scope = "process" /\ log[k].subject = x
                             /\ (Opens(log[k]) <=> k = n+1) /\ ~Closes(log[k])
  <2> TAKE k \in n+1..Len(log)
  <2>1. k - n \in 1..Len(emitted) /\ n + (k - n) = k
    BY <1>2
  <2>2. /\ log[k].scope = "process" /\ log[k].subject = x
        /\ log[k].name = emitted[k - n]
    BY <2>1 DEF InItem
  <2>3. emitted[k - n] \in EventNames /\ (emitted[k - n] = "started" <=> k - n = 1)
    BY <2>1, ElementOfSeq DEF Emitted
  <2>4. ~Closes(log[k])
    BY <2>2, <2>3 DEF Closes, EventNames
  <2>5. Opens(log[k]) <=> k = n+1
    BY <1>2, <2>2, <2>3 DEF Opens
  <2>6. QED BY <2>2, <2>4, <2>5
<1>4. /\ n+1 \in 1..Len(log) /\ Opens(log[n+1]) /\ SameSpan(log[n+1], r1)
      /\ \A k \in (n+1)+1..Len(log) : ~Opens(log[k]) /\ ~Closes(log[k])
  <2>1. n+1 \in n+1..Len(log)
    BY <1>2
  <2>2. \A k \in (n+1)+1..Len(log) : k \in n+1..Len(log) /\ k # n+1
    BY <1>2
  <2>3. QED BY <1>2, <1>3, <2>1, <2>2 DEF SameSpan
<1>5. WellNested(mid)
  BY <1>2, <1>4, StreamCloses
<1>6. /\ new \in Seq(Reports) /\ Len(new) = Len(mid) + 1
      /\ new[Len(mid) + 1] = r2 /\ \A k \in 1..Len(mid) : new[k] = mid[k]
      /\ <<r2>> \in Seq(Reports) /\ new = mid \o <<r2>>
  BY <1>1, SingleReport
<1>7. \A k \in 1..Len(log) : Closed(log, k) => Closed(mid, k)
  BY <1>1, ClosedStays
<1>8. \A k \in 1..Len(mid) : Closed(mid, k) => Closed(new, k)
  BY <1>1, <1>6, ClosedStays
<1> HIDE DEF new
<1> HIDE DEF mid
<1>0. n \in Nat /\ 2 <= n /\ Len(log) \in Nat /\ n < Len(log) /\ Len(mid) = Len(log) + 1
  <2>1. Len(log) \in Nat /\ Len(emitted) \in Nat
    BY <1>1, <1>2
  <2>2. n \in 2..Len(log)
    BY <1>2
  <2>3. n \in Nat /\ 2 <= n
    BY <2>1, <2>2
  <2>4. Len(log) = n + Len(emitted)
    BY <1>2
  <2>5. n < Len(log)
    BY <2>1, <2>3, <2>4
  <2>6. Len(mid) = Len(log) + 1
    BY <1>1
  <2>7. QED BY <2>1, <2>3, <2>5, <2>6
<1>9. Closed(mid, n+1)
  <2>1. Len(mid) \in (n+1)+1..Len(mid) /\ ClosedAt(mid, n+1, Len(mid))
    BY <1>1, <1>2, <1>4 DEF ClosedAt, SameSpan
  <2>2. QED BY <2>1 DEF Closed
<1>10. \A k \in n+1..Len(mid) :
         mid[k].scope = "process" /\ (Opens(mid[k]) => Closed(mid, k))
  <2> TAKE k \in n+1..Len(mid)
  <2>1. CASE k = Len(mid)
    BY <1>1, <2>1
  <2>2. CASE k # Len(mid)
    <3>1. k \in n+1..Len(log) /\ k \in 1..Len(log)
      BY <1>0, <2>2
    <3>2. QED BY <1>1, <1>3, <1>9, <3>1
  <2>3. QED BY <2>1, <2>2
<1>11. /\ n \in 1..Len(mid) /\ Opens(mid[n]) /\ SameSpan(mid[n], r2)
       /\ Len(mid) > 0 /\ mid[1] = RunStarted
  BY <1>1, <1>2 DEF Opens, SameSpan
<1>12. \A k \in n+1..Len(mid) :
         /\ SameSpan(mid[k], r2) => ~Opens(mid[k]) /\ ~Closes(mid[k])
         /\ Opens(mid[k]) => Closed(mid, k)
  <2> TAKE k \in n+1..Len(mid)
  <2>1. mid[k].scope = "process" /\ (Opens(mid[k]) => Closed(mid, k))
    BY <1>10
  <2>2. ~SameSpan(mid[k], r2)
    BY <2>1 DEF SameSpan
  <2>3. QED BY <2>1, <2>2
<1>13. WellNested(new)
  BY <1>1, <1>5, <1>11, <1>12, StreamCloses DEF new
<1>14. /\ Len(new) = Len(log) + 2 /\ \A k \in 1..Len(log) : new[k] = log[k]
       /\ new[Len(log) + 1] = r1 /\ new[Len(log) + 2] = r2
  BY <1>1, <1>6
<1>15. Closed(new, n)
  <2>1. Len(new) \in n+1..Len(new) /\ ClosedAt(new, n, Len(new))
    BY <1>1, <1>2, <1>6, <1>14 DEF ClosedAt, SameSpan
  <2>2. QED BY <2>1 DEF Closed
<1>16. ASSUME NEW k \in 2..Len(new)
       PROVE  new[k].scope # "run" /\ (Opens(new[k]) => Closed(new, k))
  <2>1. CASE k \in 2..n-1
    <3>1. k \in 1..Len(log) /\ k \in 1..Len(mid) /\ k \in 2..Len(log)
      BY <1>1, <1>2, <2>1
    <3>2. QED BY <1>2, <1>7, <1>8, <1>14, <2>1, <3>1
  <2>2. CASE k = n
    BY <1>2, <1>14, <1>15, <2>2
  <2>3. CASE k \in n+1..Len(mid)
    <3>1. k \in 1..Len(mid)
      BY <1>0, <2>3
    <3>2. mid[k].scope = "process" /\ (Opens(mid[k]) => Closed(mid, k))
      BY <1>10, <2>3
    <3>3. new[k] = mid[k] /\ (Closed(mid, k) => Closed(new, k))
      BY <1>6, <1>8, <3>1
    <3>4. QED BY <3>2, <3>3
  <2>4. CASE k = Len(new)
    BY <1>1, <1>6, <2>4
  <2>5. QED BY <1>1, <1>2, <1>6, <2>1, <2>2, <2>3, <2>4
<1>17. BetweenItems(new)
  <2>1. Len(new) > 0 /\ new[1] = RunStarted
    BY <1>2, <1>14
  <2>2. QED BY <1>16, <2>1 DEF BetweenItems, RunIsOpen
<1>18. QED BY <1>6, <1>13, <1>14, <1>17 DEF new, mid

\* The run is closed last, and nothing is left open.
LEMMA RunEnds ==
  ASSUME NEW log \in Seq(Reports), WellNested(log), BetweenItems(log),
         NEW r \in Reports, r.scope = "run", r.subject = RunSubject, Closes(r), ~Opens(r)
  PROVE  LET new == Append(log, r)
         IN  /\ new \in Seq(Reports) /\ WellNested(new) /\ AllClosed(new)
             /\ Len(new) = Len(log) + 1 /\ \A k \in 1..Len(log) : new[k] = log[k]
             /\ new[Len(log) + 1] = r
<1> DEFINE new == Append(log, r)
<1>1. /\ new \in Seq(Reports) /\ Len(new) = Len(log) + 1 /\ Len(log) \in Nat
      /\ new[Len(log) + 1] = r /\ \A k \in 1..Len(log) : new[k] = log[k]
      /\ <<r>> \in Seq(Reports) /\ new = log \o <<r>>
  BY SingleReport
<1>2. /\ Len(log) > 0 /\ log[1] = RunStarted
      /\ \A k \in 2..Len(log) : log[k].scope # "run" /\ (Opens(log[k]) => Closed(log, k))
  BY DEF BetweenItems, RunIsOpen
<1>3. RunStarted.scope = "run" /\ RunStarted.name = "started" /\ RunStarted.subject = RunSubject
  BY DEF RunStarted, RunReport, Report
<1>4. 1 \in 1..Len(log) /\ Opens(log[1]) /\ SameSpan(log[1], r)
  BY <1>1, <1>2, <1>3 DEF Opens, SameSpan
<1>5. \A k \in 1+1..Len(log) :
        /\ SameSpan(log[k], r) => ~Opens(log[k]) /\ ~Closes(log[k])
        /\ Opens(log[k]) => Closed(log, k)
  BY <1>2 DEF SameSpan
<1>6. WellNested(new)
  BY <1>2, <1>4, <1>5, StreamCloses
<1>7. \A k \in 1..Len(log) : Closed(log, k) => Closed(new, k)
  BY <1>1, ClosedStays
<1> HIDE DEF new
<1>8. Closed(new, 1)
  <2>1. Len(new) \in 1+1..Len(new) /\ ClosedAt(new, 1, Len(new))
    BY <1>1, <1>2, <1>4 DEF ClosedAt, SameSpan
  <2>2. QED BY <2>1 DEF Closed
<1>9. ASSUME NEW k \in 1..Len(new), Opens(new[k]) PROVE Closed(new, k)
  <2>1. CASE k = Len(new)
    BY <1>1, <1>9, <2>1
  <2>2. CASE k = 1
    BY <1>8, <2>2
  <2>3. CASE k \in 2..Len(log)
    BY <1>1, <1>2, <1>7, <1>9, <2>3
  <2>4. QED BY <1>1, <2>1, <2>2, <2>3
<1>10. AllClosed(new)
  BY <1>9 DEF AllClosed, Closed
<1>11. QED BY <1>1, <1>6, <1>10 DEF new

LEMMA TwoReports ==
  ASSUME NEW r1 \in Reports, NEW r2 \in Reports
  PROVE  <<r1, r2>> = <<r1>> \o <<r2>>
<1> DEFINE s == <<r1, r2>>
           t == <<r1>> \o <<r2>>
<1>1. s \in Seq(Reports) /\ Len(s) = 2 /\ s[1] = r1 /\ s[2] = r2
  OBVIOUS
<1>2. t \in Seq(Reports) /\ Len(t) = 2 /\ t[1] = r1 /\ t[2] = r2
  OBVIOUS
<1> HIDE DEF s, t
<1>3. \A i \in 1..Len(s) : s[i] = t[i]
  BY <1>1, <1>2
<1>4. s = t
  BY <1>1, <1>2, <1>3, SeqEqual
<1>5. QED BY <1>4 DEF s, t

LEMMA SeveralReports ==
  ASSUME NEW log \in Seq(Reports), NEW r1 \in Reports, NEW r2 \in Reports, NEW r3 \in Reports
  PROVE  /\ log \o <<r1, r2>> = Append(Append(log, r1), r2)
         /\ log \o <<r1>> \o <<r2, r3>> = Append(Append(Append(log, r1), r2), r3)
         /\ log \o <<r1, r2, r3>> = Append(Append(Append(log, r1), r2), r3)
<1>1. /\ log \o <<r1, r2>> = (log \o <<r1>>) \o <<r2>>
      /\ log \o <<r1>> \o <<r2, r3>> = ((log \o <<r1>>) \o <<r2>>) \o <<r3>>
      /\ log \o <<r1, r2, r3>> = ((log \o <<r1>>) \o <<r2>>) \o <<r3>>
  <2>1. /\ <<r1>> \in Seq(Reports) /\ <<r2>> \in Seq(Reports) /\ <<r3>> \in Seq(Reports)
        /\ <<r1, r2>> = <<r1>> \o <<r2>> /\ <<r2, r3>> = <<r2>> \o <<r3>>
        /\ <<r1, r2, r3>> = <<r1>> \o <<r2, r3>> /\ <<r2, r3>> \in Seq(Reports)
        /\ log \o <<r1>> \in Seq(Reports)
    <3>1. <<r1>> \in Seq(Reports) /\ <<r2>> \in Seq(Reports) /\ <<r3>> \in Seq(Reports)
          /\ <<r2, r3>> \in Seq(Reports)
      OBVIOUS
    <3>2. <<r1, r2>> = <<r1>> \o <<r2>> /\ <<r2, r3>> = <<r2>> \o <<r3>>
      BY TwoReports
    <3>3. <<r1, r2, r3>> = <<r1>> \o <<r2, r3>>
      <4> DEFINE s == <<r1, r2, r3>>
                 t == <<r1>> \o <<r2, r3>>
      <4>1. s \in Seq(Reports) /\ Len(s) = 3 /\ s[1] = r1 /\ s[2] = r2 /\ s[3] = r3
        OBVIOUS
      <4>2. t \in Seq(Reports) /\ Len(t) = 3
        BY <3>1, ConcatProperties
      <4>3. t[1] = r1 /\ t[2] = r2 /\ t[3] = r3
        OBVIOUS
      <4> HIDE DEF s, t
      <4>4. \A i \in 1..Len(s) : s[i] = t[i]
        BY <4>1, <4>3
      <4>5. s = t
        BY <4>1, <4>2, <4>4, SeqEqual
      <4>6. QED BY <4>5 DEF s, t
    <3>4. QED BY <3>1, <3>2, <3>3, ConcatProperties
  <2>2. log \o (<<r1>> \o <<r2>>) = (log \o <<r1>>) \o <<r2>>
    BY <2>1, ConcatAssociative
  <2>3. log \o (<<r1>> \o <<r2, r3>>) = (log \o <<r1>>) \o <<r2, r3>>
    BY <2>1, ConcatAssociative
  <2>4. (log \o <<r1>>) \o (<<r2>> \o <<r3>>) = ((log \o <<r1>>) \o <<r2>>) \o <<r3>>
    BY <2>1, ConcatAssociative
  <2>5. QED BY <2>1, <2>2, <2>3, <2>4
<1>2. /\ Append(log, r1) = log \o <<r1>> /\ Append(log, r1) \in Seq(Reports)
      /\ Append(Append(log, r1), r2) = Append(log, r1) \o <<r2>>
      /\ Append(Append(log, r1), r2) \in Seq(Reports)
      /\ Append(Append(Append(log, r1), r2), r3) = Append(Append(log, r1), r2) \o <<r3>>
  BY SingleReport
<1>3. QED BY <1>1, <1>2

(***************************************************************************)
(* What a stream says of the items.                                        *)
(***************************************************************************)

\* What was reported done stays so.
LEMMA DoneStays ==
  ASSUME NEW log \in Seq(Reports), NEW new \in Seq(Reports), Len(log) <= Len(new),
         \A k \in 1..Len(log) : new[k] = log[k], NEW i \in 0..Len(log)
  PROVE  ReportedDone(new, i) = ReportedDone(log, i)
<1>1. Len(log) \in Nat
  BY LenProperties
<1>2. \A k \in 1..i : new[k] = log[k]
  BY <1>1
<1>3. {k \in 1..i : new[k].scope = "item" /\ new[k].name = "completed"}
      = {k \in 1..i : log[k].scope = "item" /\ log[k].name = "completed"}
  BY <1>2
<1>4. QED BY <1>2, <1>3 DEF ReportedDone

\* A report only adds an item when it says that the item has completed.
LEMMA DoneGrows ==
  ASSUME NEW new \in Seq(Reports), NEW i \in 1..Len(new)
  PROVE  ReportedDone(new, i) = ReportedDone(new, i-1) \cup
           IF new[i].scope = "item" /\ new[i].name = "completed" THEN {new[i].subject} ELSE {}
<1>1. Len(new) \in Nat
  BY LenProperties
<1>2. {k \in 1..i : new[k].scope = "item" /\ new[k].name = "completed"}
      = {k \in 1..i-1 : new[k].scope = "item" /\ new[k].name = "completed"} \cup
        IF new[i].scope = "item" /\ new[i].name = "completed" THEN {i} ELSE {}
  BY <1>1
<1>3. QED BY <1>2 DEF ReportedDone

\* What processes emit completes no item.
LEMMA DoneUnchanged ==
  ASSUME NEW log \in Seq(Reports), NEW new \in Seq(Reports), Len(log) <= Len(new),
         \A k \in 1..Len(log) : new[k] = log[k],
         \A k \in Len(log)+1..Len(new) : ~(new[k].scope = "item" /\ new[k].name = "completed")
  PROVE  ReportedDone(new, Len(new)) = ReportedDone(log, Len(log))
<1>1. Len(log) \in Nat /\ Len(new) \in Nat
  BY LenProperties
<1>2. {k \in 1..Len(new) : new[k].scope = "item" /\ new[k].name = "completed"}
      = {k \in 1..Len(log) : new[k].scope = "item" /\ new[k].name = "completed"}
  BY <1>1
<1>3. ReportedDone(new, Len(new)) = ReportedDone(new, Len(log))
  BY <1>2 DEF ReportedDone
<1>4. ReportedDone(new, Len(log)) = ReportedDone(log, Len(log))
  BY <1>1, DoneStays
<1>5. QED BY <1>3, <1>4

(***************************************************************************)
(* One process.                                                            *)
(***************************************************************************)

LEMMA EmptyIsEmitted == Emitted(<<>>) /\ Len(<<>>) = 0
<1>1. <<>> \in Seq(EventNames) /\ Len(<<>>) = 0
  OBVIOUS
<1>2. QED BY <1>1 DEF Emitted

LEMMA OutputEventsFacts ==
  ASSUME NEW captured \in SUBSET Streams
  PROVE  LET out == OutputEvents(captured)
         IN  /\ out \in Seq(EventNames)
             /\ \A i \in 1..Len(out) : out[i] \in {"output.stdout", "output.stderr"}
<1>1. /\ <<"output.stdout">> \in Seq(EventNames) /\ <<"output.stderr">> \in Seq(EventNames)
      /\ <<>> \in Seq(EventNames)
  BY DEF EventNames
<1> DEFINE a == IF "stdout" \in captured THEN <<"output.stdout">> ELSE <<>>
           b == IF "stderr" \in captured THEN <<"output.stderr">> ELSE <<>>
           O == {"output.stdout", "output.stderr"}
<1>2. a \in Seq(O) /\ b \in Seq(O)
  <2>1. "output.stdout" \in O /\ "output.stderr" \in O
    OBVIOUS
  <2> HIDE DEF O
  <2>2. <<"output.stdout">> \in Seq(O) /\ <<"output.stderr">> \in Seq(O) /\ <<>> \in Seq(O)
    BY <2>1
  <2>3. QED BY <2>2
<1>3. OutputEvents(captured) = a \o b
  BY DEF OutputEvents
<1> HIDE DEF a, b
<1>4. a \o b \in Seq(O)
  BY <1>2, ConcatProperties
<1>5. O \subseteq EventNames
  BY DEF EventNames
<1> HIDE DEF O
<1>6. a \o b \in Seq(EventNames)
  BY <1>4, <1>5, SeqMonotonic
<1>7. \A i \in 1..Len(a \o b) : (a \o b)[i] \in O
  BY <1>4, ElementOfSeq
<1>8. QED BY <1>3, <1>6, <1>7 DEF O

\* A process only appends to what it has emitted.
LEMMA EmittedGrows ==
  ASSUME NEW emitted, Emitted(emitted), Len(emitted) > 0,
         NEW captured \in SUBSET Streams
  PROVE  LET later == emitted \o OutputEvents(captured)
         IN  /\ Emitted(later) /\ Len(emitted) <= Len(later) /\ Len(later) > 0
             /\ \A i \in 1..Len(emitted) : later[i] = emitted[i]
<1> DEFINE out == OutputEvents(captured)
           later == emitted \o out
<1>1. /\ emitted \in Seq(EventNames)
      /\ \A i \in 1..Len(emitted) : emitted[i] = "started" <=> i = 1
  BY DEF Emitted
<1>2. /\ out \in Seq(EventNames)
      /\ \A i \in 1..Len(out) : out[i] \in {"output.stdout", "output.stderr"}
  BY OutputEventsFacts
<1> HIDE DEF out
<1>3. /\ later \in Seq(EventNames) /\ Len(later) = Len(emitted) + Len(out)
      /\ \A i \in 1..Len(emitted) + Len(out) :
           later[i] = IF i <= Len(emitted) THEN emitted[i] ELSE out[i - Len(emitted)]
  BY <1>1, <1>2, ConcatProperties
<1>4. Len(emitted) \in Nat /\ Len(out) \in Nat
  BY <1>1, <1>2, LenProperties
<1> HIDE DEF later
<1>5. \A i \in 1..Len(emitted) : later[i] = emitted[i]
  BY <1>3, <1>4
<1>6. ASSUME NEW i \in 1..Len(later) PROVE later[i] = "started" <=> i = 1
  <2>1. CASE i <= Len(emitted)
    <3>1. i \in 1..Len(emitted)
      BY <1>3, <1>4, <2>1
    <3>2. QED BY <1>1, <1>5, <3>1
  <2>2. CASE i > Len(emitted)
    <3>1. i - Len(emitted) \in 1..Len(out) /\ i # 1 /\ later[i] = out[i - Len(emitted)]
      BY <1>3, <1>4, <2>2
    <3>2. QED BY <1>2, <3>1
  <2>3. QED BY <1>3, <1>4, <2>1, <2>2
<1>7. Emitted(later)
  BY <1>3, <1>6 DEF Emitted
<1>8. QED BY <1>3, <1>4, <1>5, <1>7 DEF later, out

\* The events of a process that has been started, stopped and killed.
LEMMA FirstEvents ==
  /\ Emitted(<<"started">>) /\ Len(<<"started">>) = 1
  /\ Emitted(<<"started", "stop.requested">>) /\ Len(<<"started", "stop.requested">>) = 2
  /\ Emitted(<<"started", "stop.requested", "kill.sent">>)
  /\ Len(<<"started", "stop.requested", "kill.sent">>) = 3
<1>1. Emitted(<<"started">>) /\ Len(<<"started">>) = 1
  BY DEF Emitted, EventNames
<1>2. Emitted(<<"started", "stop.requested">>) /\ Len(<<"started", "stop.requested">>) = 2
  BY DEF Emitted, EventNames
<1>3. Emitted(<<"started", "stop.requested", "kill.sent">>)
      /\ Len(<<"started", "stop.requested", "kill.sent">>) = 3
  BY DEF Emitted, EventNames
<1>4. QED BY <1>1, <1>2, <1>3

LEMMA CollectFacts ==
  ASSUME NEW status \in Statuses, NEW stopped \in BOOLEAN
  PROVE  CollectResult(status, stopped) \in ProcessResults
<1>1. CASE status.kind = "exited"
  <2>1. status.code \in ExitCodes
    BY <1>1 DEF Statuses
  <2>2. status.code \in Nat
    <3>1. 0..255 \subseteq Nat
      OBVIOUS
    <3>2. QED BY <2>1, <3>1, ExitCodesAssumption
  <2>3. QED BY <1>1, <2>2 DEF CollectResult, ProcessResults, TerminalCauses
<1>2. CASE status.kind # "exited"
  <2>1. status.code \in Nat
    BY <1>2 DEF Statuses, Signals, SIGKILL, SIGTERM, SIGSEGV
  <2>2. QED BY <1>2, <2>1 DEF CollectResult, ProcessResults, TerminalCauses
<1>3. QED BY <1>1, <1>2

\* The stream new ends item x, which log has started at n for the first time.
EndsItem(log, n, x, emitted, new) ==
  /\ Emitted(emitted) /\ InItem(log, n, x, emitted)
  /\ \A k \in 1..n-1 : log[k].scope = "process" => log[k].subject # x
  /\ Len(new) = Len(log) + 2 /\ \A k \in 1..Len(log) : new[k] = log[k]
  /\ new[Len(log) + 1].scope = "process" /\ new[Len(log) + 1].subject = x
  /\ Closes(new[Len(log) + 1]) /\ new[Len(log) + 2].scope = "item"

\* What the log says of outputs once an item has ended.
LEMMA ItemOutput ==
  ASSUME NEW log \in Seq(Reports), NEW new \in Seq(Reports), NEW n \in Nat, NEW x \in Int,
         NEW emitted, EndsItem(log, n, x, emitted, new)
  PROVE  ReportedOutput(new, x) <=> \E i \in DOMAIN emitted : emitted[i] = "output.stdout"
<1> USE DEF EndsItem
<1>1. /\ Len(log) \in Nat /\ Len(emitted) \in Nat /\ DOMAIN emitted = 1..Len(emitted)
      /\ n \in 2..Len(log) /\ Len(log) = n + Len(emitted) /\ log[n].scope = "item"
  BY LenProperties DEF InItem, Emitted
<1>2. \A i \in 1..Len(emitted) : log[n+i].scope = "process" /\ log[n+i].subject = x
                                 /\ log[n+i].name = emitted[i]
  BY DEF InItem
<1>3. new[Len(log) + 1].name # "output.stdout"
  BY DEF Closes
<1>4. ASSUME NEW k \in 1..Len(new), new[k].scope = "process", new[k].subject = x,
             new[k].name = "output.stdout"
      PROVE  \E i \in 1..Len(emitted) : emitted[i] = "output.stdout"
  <2>1. CASE k \in 1..Len(log)
    <3>1. new[k] = log[k]
      BY <2>1
    <3>2. k \notin 1..n-1
      BY <1>4, <3>1
    <3>3. k # n
      BY <1>1, <1>4, <3>1
    <3>4. k - n \in 1..Len(emitted) /\ n + (k - n) = k
      BY <1>1, <2>1, <3>2, <3>3
    <3>5. log[n + (k - n)].name = emitted[k - n]
      BY <1>2, <3>4
    <3>6. QED BY <1>4, <3>1, <3>4, <3>5
  <2>2. k # Len(log) + 1 /\ k # Len(log) + 2
    BY <1>3, <1>4
  <2>3. QED BY <1>1, <2>1, <2>2, SMTT(30)
<1>5. ASSUME NEW i \in 1..Len(emitted), emitted[i] = "output.stdout"
      PROVE  ReportedOutput(new, x)
  <2>1. n + i \in 1..Len(log) /\ n + i \in 1..Len(new)
    BY <1>1
  <2>2. new[n + i] = log[n + i]
    BY <2>1
  <2>3. QED BY <1>2, <1>5, <2>1, <2>2 DEF ReportedOutput
<1>6. QED BY <1>1, <1>4, <1>5 DEF ReportedOutput

\* Reports that say nothing of an output leave what is known of it.
LEMMA OutputStays ==
  ASSUME NEW old \in Seq(Reports), NEW new \in Seq(Reports), Len(old) <= Len(new),
         \A k \in 1..Len(old) : new[k] = old[k], NEW x,
         \A k \in Len(old)+1..Len(new) : new[k].scope = "process" => new[k].subject # x
  PROVE  ReportedOutput(new, x) <=> ReportedOutput(old, x)
<1>1. Len(old) \in Nat /\ Len(new) \in Nat
  BY LenProperties
<1>2. \A k \in 1..Len(new) : k \in 1..Len(old) \/ k \in Len(old)+1..Len(new)
  BY <1>1
<1>3. \A k \in 1..Len(old) : k \in 1..Len(new)
  BY <1>1
<1>4. QED BY <1>2, <1>3 DEF ReportedOutput

\* The position of a report that is already there tells what it told before.
LEMMA DoneOfPrefix ==
  ASSUME NEW log \in Seq(Reports), NEW new \in Seq(Reports), Len(log) <= Len(new),
         \A k \in 1..Len(log) : new[k] = log[k]
  PROVE  \A i \in 1..Len(log) : ReportedDone(new, i) = ReportedDone(log, i)
<1>1. Len(log) \in Nat
  BY LenProperties
<1>2. \A i \in 1..Len(log) : i \in 0..Len(log)
  BY <1>1
<1>3. QED BY <1>2, DoneStays

\* An item that ends is done if it has completed.
LEMMA ItemDone ==
  ASSUME NEW log \in Seq(Reports), NEW new \in Seq(Reports), Len(new) = Len(log) + 2,
         \A k \in 1..Len(log) : new[k] = log[k],
         new[Len(log) + 1].scope = "process", new[Len(log) + 2].scope = "item"
  PROVE  ReportedDone(new, Len(new)) = ReportedDone(log, Len(log)) \cup
           IF new[Len(log) + 2].name = "completed" THEN {new[Len(log) + 2].subject} ELSE {}
<1>1. Len(log) \in Nat /\ Len(log) \in 0..Len(log) /\ Len(log) <= Len(new)
  BY LenProperties
<1>2. /\ Len(log) + 1 \in 1..Len(new) /\ Len(log) + 2 \in 1..Len(new)
      /\ (Len(log) + 1) - 1 = Len(log) /\ (Len(log) + 2) - 1 = Len(log) + 1
  BY <1>1
<1>3. ReportedDone(new, Len(log)) = ReportedDone(log, Len(log))
  BY <1>1, DoneStays
<1>4. ReportedDone(new, Len(log) + 1) = ReportedDone(new, Len(log))
  <2>1. PICK i \in 1..Len(new) : i = Len(log) + 1
    BY <1>2
  <2>2. new[i].scope # "item" /\ i - 1 = Len(log)
    BY <1>1, <2>1
  <2>3. ReportedDone(new, i) = ReportedDone(new, i - 1) \cup {}
    BY <2>2, DoneGrows
  <2>4. QED BY <2>1, <2>2, <2>3
<1>5. ReportedDone(new, Len(log) + 2) = ReportedDone(new, Len(log) + 1) \cup
        IF new[Len(log) + 2].name = "completed" THEN {new[Len(log) + 2].subject} ELSE {}
  BY <1>2, DoneGrows
<1>6. QED BY <1>3, <1>4, <1>5
==============================================================================

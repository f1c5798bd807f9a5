------------------------ MODULE DecisionLedger_proofs ------------------------
(***************************************************************************)
(* Proofs about DecisionLedger, for any processes and number of edits.     *)
(***************************************************************************)
EXTENDS DecisionLedger, SequenceTheorems, TLAPS

(***************************************************************************)
(* The inductive invariant: where a process is says whether it holds the   *)
(* lock, what it has read, and how what it has staged differs from what is *)
(* committed.                                                              *)
(***************************************************************************)

Indexing  == {"clear", "fill", "filled"}
Changing  == {"write", "link", "relink", "log", "commit"}
Waiting   == {"start", "scanned", "select", "begin"}
Committed == {"output", "ended"}

Events == [id : Ids, by : {"earlier"} \cup Processes,
           status : OneOf(Statuses), version : SUBSET Nat]
Scans  == [seen : 0..MaxEdits, after : Nat]
Files  == [run : Nat, seen : 0..MaxEdits]

Contained(c) ==
  /\ c = [rows |-> c.rows, events |-> c.events, runs |-> c.runs, files |-> c.files]
  /\ DOMAIN c.rows \subseteq Ids
  /\ c.rows \in [DOMAIN c.rows -> Rows]
  /\ c.events \in Seq(Events)
  /\ c.runs \in Seq(Scans)
  /\ c.files \subseteq Files

TypeInv ==
  /\ Contained(committed) /\ Contained(staged)
  /\ writer \in OneOf(Processes)
  /\ request \in [Processes -> Requests]
  /\ pc \in [Processes -> Waiting \cup Indexing \cup Changing \cup Committed]
  /\ disk \in 0..MaxEdits
  /\ scan \in [Processes -> Scans]
  /\ read \in [Processes -> SUBSET Rows]
  /\ answer \in [Processes -> {"none", "ok", "missing", "failed"}]

\* A process is the writer exactly between BEGIN and COMMIT; nothing is staged
\* outside a transaction or before its first change.
LockInv ==
  /\ \A p \in Processes : pc[p] \in Indexing \cup Changing <=> p \in writer
  /\ \A p \in Processes : pc[p] \in {"clear", "write"} => staged = committed
  /\ writer = {} => staged = committed

(***************************************************************************)
(* What the rows and the events of a content must be.                      *)
(***************************************************************************)

\* The first rows stay what they are, and only the first artifact gets versions.
Kept(rows) ==
  /\ Existing \subseteq DOMAIN rows
  /\ \A id \in Existing : rows[id].kind = id
  /\ \A id \in DOMAIN rows \ {"artifact"} : rows[id].version = 1

Owned(rows, id, kinds) ==
  {i \in DOMAIN rows : rows[i].node = {id} /\ rows[i].kind \in kinds}

Linked(rows) ==
  \A id \in DOMAIN rows : rows[id].kind = "node" =>
    /\ rows[id].links = Owned(rows, id, {"artifact", "question"})
    /\ rows[id].package = Owned(rows, id, {"package"})

\* The events of a row that come after one.
After(events, i) ==
  {j \in i+1 .. Len(events) : events[j].id = events[i].id}

Told(rows, events) ==
  \A i \in DOMAIN events :
    /\ (\A j \in After(events, i) : events[j].status = {})
         => events[i].status \subseteq {rows[events[i].id].status}
    /\ (\A j \in After(events, i) : events[j].version = {})
         => events[i].version \subseteq {rows[events[i].id].version}

SetsText(p) == Op(p) = "update" /\ "text" \in request[p].sets

\* q may have undone what p set.
Overrides(q, p) == /\ Op(q) = "update"
                   /\ SetsText(q) \/ \A old \in read[q] : old.text # p

Stuck(rows, events) ==
  \A i \in DOMAIN events :
    events[i].by \in Processes /\ SetsText(events[i].by) =>
      \/ rows[events[i].id].text = events[i].by
      \/ \E j \in After(events, i) :
           events[j].by \in Processes /\ Overrides(events[j].by, events[i].by)

Consistent(c) ==
  /\ Kept(c.rows) /\ Linked(c.rows)
  /\ \A i \in DOMAIN c.events : c.events[i].id \in DOMAIN c.rows
  /\ Told(c.rows, c.events) /\ Stuck(c.rows, c.events)

(***************************************************************************)
(* The commands.                                                           *)
(***************************************************************************)

NewRow(p) == Row(Adding(p).kind, Adding(p).node, p, Adding(p).status,
                 Adding(p).depends)

\* What an update writes as the text.
NewText(p) == IF SetsText(p) THEN {p} ELSE {old.text : old \in read[p]}

NewEvent(p, row) ==
  Event(Target(p), p, IF TellsStatus(p) THEN {row.status} ELSE {},
                      IF TellsVersion(p) THEN {row.version} ELSE {})

\* A row that a command requires stays, and what it has read of it was there.
ReadInv ==
  \A p \in Processes :
    /\ pc[p] \in {"begin"} \cup Changing => Required(p) \subseteq DOMAIN committed.rows
    /\ pc[p] \in {"begin"} \cup Changing /\ Op(p) # "add" =>
         \E old \in read[p] : read[p] = {old}
                           /\ (Target(p) # "artifact" => old.version = 1)

\* The event of a command is committed with it, and a row it adds is new.
LogInv ==
  \A p \in Processes :
    /\ answer[p] = "none" <=> pc[p] # "ended"
    /\ pc[p] = "output" \/ answer[p] = "ok" =>
         \E i \in DOMAIN committed.events : committed.events[i].by = p
    /\ pc[p] \notin Committed \/ answer[p] = "missing" =>
         \A i \in DOMAIN committed.events : committed.events[i].by # p
    /\ pc[p] \notin Committed => p \notin DOMAIN committed.rows

\* Of a row that is there, a command only changes what its event tells, or the
\* links of the node it belongs to.
Touched(p) ==
  LET rows == staged.rows
  IN  /\ DOMAIN rows = DOMAIN committed.rows \cup {Target(p)}
      /\ \A id \in DOMAIN committed.rows \ {Target(p)} :
           /\ id \notin rows[Target(p)].node => rows[id] = committed.rows[id]
           /\ rows[id].status = committed.rows[id].status
           /\ rows[id].version = committed.rows[id].version
           /\ rows[id].text = committed.rows[id].text
      /\ Op(p) # "add" =>
           /\ ~TellsStatus(p) =>
                rows[Target(p)].status = committed.rows[Target(p)].status
           /\ ~TellsVersion(p) =>
                rows[Target(p)].version = committed.rows[Target(p)].version
           /\ rows[Target(p)].text \in
                IF Op(p) = "update" THEN NewText(p)
                                    ELSE {committed.rows[Target(p)].text}

\* What the writer has staged, if it runs a command.
StagedBy(p) ==
  /\ pc[p] \in Changing =>
       staged.runs = committed.runs /\ staged.files = committed.files
  /\ pc[p] \in {"link", "relink", "log"} => staged.events = committed.events
  /\ pc[p] \in {"link", "relink"} =>
       /\ Op(p) = "add" /\ Linking(p)
       /\ Adding(p).kind = "package" =>
            \A id \in DOMAIN committed.rows : committed.rows[id].kind # "package"
       /\ staged.rows = [id \in DOMAIN committed.rows \cup {p} |->
                           IF id = p THEN NewRow(p) ELSE committed.rows[id]]
  /\ pc[p] = "relink" => read[p] = {committed.rows["node"]}
  /\ pc[p] \in {"log", "commit"} =>
       Touched(p) /\ Kept(staged.rows) /\ Linked(staged.rows)
  /\ pc[p] = "commit" =>
       staged.events = Append(committed.events,
                              NewEvent(p, staged.rows[Target(p)]))

StagedInv == \A p \in Processes : StagedBy(p)

\* What is in the code index, and what a process that refreshes it knows of it.
Indexed(c) ==
  /\ c.runs # <<>> =>
       c.files = {[run |-> Len(c.runs), seen |-> c.runs[Len(c.runs)].seen]}
  /\ c.runs = <<>> => c.files = {}
  /\ \A i \in DOMAIN c.runs :
       /\ c.runs[i].after \in 0..Len(c.runs)
       /\ c.runs[i].seen <= disk
       /\ \A j \in 1..c.runs[i].after : c.runs[j].seen <= c.runs[i].seen

\* What a process has observed is not older than what was committed before.
Scanned(p) ==
  /\ scan[p].seen <= disk
  /\ scan[p].after \in 0..Len(committed.runs)
  /\ \A j \in 1..scan[p].after : committed.runs[j].seen <= scan[p].seen

Refreshing(p) ==
  /\ pc[p] \in Indexing =>
       staged.rows = committed.rows /\ staged.events = committed.events
  /\ pc[p] \in {"fill", "filled"} => staged.runs = Append(committed.runs, scan[p])
  /\ pc[p] = "fill" => staged.files = {}
  /\ pc[p] = "filled" =>
       staged.files = {[run |-> Len(staged.runs), seen |-> scan[p].seen]}

IndexInv ==
  Indexed(committed) /\ \A p \in Processes : Scanned(p) /\ Refreshing(p)

IInv ==
  /\ TypeInv /\ LockInv /\ Consistent(committed) /\ ReadInv /\ LogInv
  /\ StagedInv /\ IndexInv

(***************************************************************************)
(* Lemmas about the command lines and the file.                            *)
(***************************************************************************)

LEMMA RequestFacts ==
  ASSUME NEW r \in Requests
  PROVE  /\ r.op \in {"add", "update", "status"}
         /\ r.op = "add" =>
              /\ r.row.kind \in Kinds /\ r.row.node \in OneOf({"node"})
              /\ r.row.status \in Statuses
              /\ r.row.depends \in SUBSET {"node", Nowhere}
              /\ r.row.kind = "package" => r.row.node = {"node"}
              /\ r.row.kind \in {"node", "project"} => r.row.node = {}
         /\ r.op = "update" =>
              /\ r.target \in {"project", "node", "artifact", "decision"}
              /\ "version" \in r.sets => r.target = "artifact"
         /\ r.op = "status" =>
              /\ r.target \in {"node", "artifact", "decision", "question"} \cup Processes
              /\ r.status \in Statuses
<1>1. CASE r \in Adds
  <2>1. PICK k \in Kinds, n \in OneOf({"node"}), s \in Statuses,
             d \in SUBSET {"node", Nowhere} :
          /\ r = Add(k, n, s, d) /\ (k = "package" => n = {"node"})
          /\ k \in {"node", "project"} => n = {}
    <3>1. {} \in OneOf({"node"}) /\ {"node"} \in OneOf({"node"})
      BY DEF OneOf
    <3>2. QED BY <1>1, <3>1 DEF Adds, Kinds, Statuses
  <2>2. QED BY <2>1 DEF Add
<1>2. CASE r \in Updates
  BY <1>2 DEF Updates, Columns
<1>3. CASE r \in StatusUpdates
  BY <1>3 DEF StatusUpdates, Statuses
<1>4. QED BY <1>1, <1>2, <1>3 DEF Requests

LEMMA RecordFacts ==
  ASSUME NEW c, Contained(c), NEW x, NEW y
  PROVE  /\ [c EXCEPT !.rows = x] =
              [rows |-> x, events |-> c.events, runs |-> c.runs, files |-> c.files]
         /\ [c EXCEPT !.events = x] =
              [rows |-> c.rows, events |-> x, runs |-> c.runs, files |-> c.files]
         /\ [c EXCEPT !.files = x] =
              [rows |-> c.rows, events |-> c.events, runs |-> c.runs, files |-> x]
         /\ [c EXCEPT !.runs = x, !.files = y] =
              [rows |-> c.rows, events |-> c.events, runs |-> x, files |-> y]
<1>0. c = [rows |-> c.rows, events |-> c.events, runs |-> c.runs, files |-> c.files]
  BY DEF Contained
<1>1. [c EXCEPT !.rows = x] =
        [rows |-> x, events |-> c.events, runs |-> c.runs, files |-> c.files]
  BY <1>0
<1>2. [c EXCEPT !.events = x] =
        [rows |-> c.rows, events |-> x, runs |-> c.runs, files |-> c.files]
  BY <1>0
<1>3. [c EXCEPT !.files = x] =
        [rows |-> c.rows, events |-> c.events, runs |-> c.runs, files |-> x]
  BY <1>0
<1>4. [c EXCEPT !.runs = x, !.files = y] =
        [rows |-> c.rows, events |-> c.events, runs |-> x, files |-> y]
  <2> DEFINE b == [c EXCEPT !.runs = x]
  <2>1. b = [rows |-> c.rows, events |-> c.events, runs |-> x, files |-> c.files]
    BY <1>0
  <2>2. [c EXCEPT !.runs = x, !.files = y] = [b EXCEPT !.files = y]
    BY <1>0
  <2>3. /\ b = [rows |-> b.rows, events |-> b.events, runs |-> b.runs,
                files |-> b.files]
        /\ b.rows = c.rows /\ b.events = c.events /\ b.runs = x
    BY <2>1
  <2> HIDE DEF b
  <2>4. [b EXCEPT !.files = y] =
          [rows |-> b.rows, events |-> b.events, runs |-> b.runs, files |-> y]
    BY <2>3
  <2>5. QED BY <2>2, <2>3, <2>4
<1>5. QED BY <1>1, <1>2, <1>3, <1>4

LEMMA PutFacts ==
  ASSUME NEW p, Contained(View(p)), NEW id, NEW row
  PROVE  /\ Put(p, id, row).rows = [i \in DOMAIN View(p).rows \cup {id} |->
                                     IF i = id THEN row ELSE View(p).rows[i]]
         /\ Put(p, id, row).events = View(p).events
         /\ Put(p, id, row).runs = View(p).runs
         /\ Put(p, id, row).files = View(p).files
         /\ id \in Ids /\ row \in Rows => Contained(Put(p, id, row))
<1> DEFINE rows == [i \in DOMAIN View(p).rows \cup {id} |->
                      IF i = id THEN row ELSE View(p).rows[i]]
<1>1. Put(p, id, row) = [rows |-> rows, events |-> View(p).events,
                         runs |-> View(p).runs, files |-> View(p).files]
  BY RecordFacts DEF Put
<1>2. ASSUME id \in Ids, row \in Rows PROVE Contained(Put(p, id, row))
  <2>1. /\ DOMAIN rows \subseteq Ids /\ rows \in [DOMAIN rows -> Rows]
    BY <1>2 DEF Contained
  <2> HIDE DEF rows
  <2>2. QED BY <1>1, <2>1 DEF Contained
<1> HIDE DEF rows
<1>3. QED BY <1>1, <1>2 DEF rows

\* The writer is alone, and it sees what it has staged.
LEMMA WriterFacts ==
  ASSUME TypeInv, LockInv, NEW p \in Processes
  PROVE  /\ p \in writer => View(p) = staged /\ writer = {p}
         /\ pc[p] \in Indexing \cup Changing <=> p \in writer
         /\ Contained(View(p))
BY DEF TypeInv, LockInv, View, OneOf

LEMMA RowFacts ==
  ASSUME NEW kind \in Kinds, NEW node \in OneOf({"node"}),
         NEW text \in {"old"} \cup Processes, NEW status \in Statuses,
         NEW depends \in SUBSET {"node", Nowhere}
  PROVE  Row(kind, node, text, status, depends) \in Rows
BY DEF Row, Rows, OneOf

LEMMA TargetFacts ==
  ASSUME TypeInv, NEW p \in Processes
  PROVE  /\ Target(p) \in Ids
         /\ Op(p) = "add" => Target(p) = p /\ NewRow(p) \in Rows
         /\ Op(p) # "add" => Required(p) = {Target(p)}
         /\ Op(p) \in {"add", "update", "status"}
         /\ Op(p) = "update" => Target(p) \in Existing
         /\ Op(p) = "update" /\ "version" \in request[p].sets => Target(p) = "artifact"
         /\ p \notin Existing
<1>1. request[p] \in Requests
  BY DEF TypeInv
<1>2. Op(p) = "add" => NewRow(p) \in Rows
  BY <1>1, RequestFacts, RowFacts DEF NewRow, Adding, Op
<1>3. QED
  BY <1>1, <1>2, RequestFacts, FreshIdsAssumption
     DEF Target, Op, Required, Adding, Ids, Existing

(***************************************************************************)
(* What each statement that changes the file does to what is staged.       *)
(***************************************************************************)

\* Only the rows, the events, or the index.
RowsChange(rows) ==
  /\ staged'.rows = rows /\ staged'.events = staged.events
  /\ staged'.runs = staged.runs /\ staged'.files = staged.files

IndexChange(runs, files) ==
  /\ staged'.rows = staged.rows /\ staged'.events = staged.events
  /\ staged'.runs = runs /\ staged'.files = files

RowPut(rows, id, row) ==
  [i \in DOMAIN rows \cup {id} |-> IF i = id THEN row ELSE rows[i]]

LEMMA PutChange ==
  ASSUME TypeInv, LockInv, NEW p \in Processes, NEW id \in Ids, NEW row \in Rows,
         Change(p, Put(p, id, row))
  PROVE  /\ p \in writer /\ View(p) = staged
         /\ RowsChange(RowPut(staged.rows, id, row))
         /\ Contained(staged')
<1>1. p \in writer /\ staged' = Put(p, id, row)
  BY DEF Change, Write
<1>2. View(p) = staged /\ Contained(View(p))
  BY <1>1, WriterFacts
<1>3. QED BY <1>1, <1>2, PutFacts DEF RowsChange, RowPut

LEMMA ClearIndexChange ==
  ASSUME TypeInv, LockInv, NEW p \in Processes, ClearIndex(p)
  PROVE  /\ p \in writer
         /\ IndexChange(Append(staged.runs, scan[p]), {})
         /\ Contained(staged')
<1> DEFINE runs == Append(staged.runs, scan[p])
<1>1. p \in writer /\ View(p) = staged /\ Contained(staged)
  BY WriterFacts DEF ClearIndex, Change, Write
<1>2. staged' = [staged EXCEPT !.runs = runs, !.files = {}]
  BY <1>1 DEF ClearIndex, Change, Write
<1>3. staged' = [rows |-> staged.rows, events |-> staged.events,
                 runs |-> runs, files |-> {}]
  BY <1>1, <1>2, RecordFacts, ZenonT(30)
<1>4. runs \in Seq(Scans)
  BY <1>1, AppendProperties DEF TypeInv, Contained
<1> HIDE DEF runs
<1>5. QED BY <1>1, <1>3, <1>4 DEF IndexChange, Contained, runs

LEMMA FillIndexChange ==
  ASSUME TypeInv, LockInv, NEW p \in Processes, FillIndex(p)
  PROVE  /\ p \in writer
         /\ IndexChange(staged.runs, staged.files \cup
              {[run |-> Len(staged.runs), seen |-> scan[p].seen]})
         /\ Contained(staged')
<1> DEFINE files == staged.files \cup
             {[run |-> Len(staged.runs), seen |-> scan[p].seen]}
<1>1. p \in writer /\ View(p) = staged /\ Contained(staged)
  BY WriterFacts DEF FillIndex, Change, Write
<1>2. staged' = [staged EXCEPT !.files = files]
  BY <1>1 DEF FillIndex, Change, Write
<1>3. staged' = [rows |-> staged.rows, events |-> staged.events,
                 runs |-> staged.runs, files |-> files]
  BY <1>1, <1>2, RecordFacts
<1>4. files \subseteq Files
  <2>1. Len(staged.runs) \in Nat /\ scan[p].seen \in 0..MaxEdits
    BY <1>1, LenProperties DEF TypeInv, Contained, Scans
  <2>2. QED BY <1>1, <2>1 DEF Contained, Files
<1> HIDE DEF files
<1>5. QED BY <1>1, <1>3, <1>4 DEF IndexChange, Contained, files

LEMMA InsertChange ==
  ASSUME TypeInv, LockInv, NEW p \in Processes, Insert(p)
  PROVE  /\ p \in writer /\ View(p) = staged
         /\ RowsChange(RowPut(staged.rows, p, NewRow(p)))
         /\ Contained(staged')
<1>1. NewRow(p) \in Rows /\ p \in Ids
  BY TargetFacts DEF Insert, Ids
<1>2. Change(p, Put(p, p, NewRow(p)))
  BY DEF Insert, NewRow
<1>3. QED BY <1>1, <1>2, PutChange

\* A node with other links.
NodeWith(p, node, old) ==
  [node EXCEPT !.links = IF Adding(p).kind = "package" THEN old.links
                         ELSE old.links \cup {p},
               !.package = IF Adding(p).kind = "package" THEN {p} ELSE old.package]

LEMMA RowExcept ==
  ASSUME NEW row \in Rows, NEW links \in SUBSET Ids, NEW package \in OneOf(Processes)
  PROVE  [row EXCEPT !.links = links, !.package = package] \in Rows
BY DEF Rows

LEMMA StatusExcept ==
  ASSUME NEW row \in Rows, NEW status \in Statuses
  PROVE  /\ [row EXCEPT !.status = status] \in Rows
         /\ [row EXCEPT !.status = status].status = status
         /\ [row EXCEPT !.status = status].version = row.version
         /\ [row EXCEPT !.status = status].text = row.text
         /\ [row EXCEPT !.status = status].kind = row.kind
         /\ [row EXCEPT !.status = status].node = row.node
         /\ [row EXCEPT !.status = status].links = row.links
         /\ [row EXCEPT !.status = status].package = row.package
BY DEF Rows

LEMMA NodeWithFacts ==
  ASSUME NEW p \in Processes, NEW node \in Rows, NEW old \in Rows
  PROVE  LET new == NodeWith(p, node, old)
         IN  /\ new \in Rows
             /\ new.kind = node.kind /\ new.node = node.node
             /\ new.status = node.status /\ new.version = node.version
             /\ new.text = node.text
             /\ new.links = IF Adding(p).kind = "package" THEN old.links
                            ELSE old.links \cup {p}
             /\ new.package = IF Adding(p).kind = "package" THEN {p}
                              ELSE old.package
<1> DEFINE links == IF Adding(p).kind = "package" THEN old.links
                    ELSE old.links \cup {p}
           package == IF Adding(p).kind = "package" THEN {p} ELSE old.package
<1>1. links \in SUBSET Ids /\ package \in OneOf(Processes)
  BY DEF Rows, Ids, OneOf
<1>2. NodeWith(p, node, old) = [node EXCEPT !.links = links, !.package = package]
  BY DEF NodeWith
<1> HIDE DEF links, package
<1>3. LET new == [node EXCEPT !.links = links, !.package = package]
      IN  /\ new.kind = node.kind /\ new.node = node.node
          /\ new.status = node.status /\ new.version = node.version
          /\ new.text = node.text /\ new.links = links /\ new.package = package
  BY DEF Rows
<1>4. NodeWith(p, node, old) \in Rows
  <2>1. [node EXCEPT !.links = links, !.package = package] \in Rows
    BY <1>1, RowExcept
  <2>2. QED BY <1>2, <2>1
<1>5. /\ links = IF Adding(p).kind = "package" THEN old.links
                 ELSE old.links \cup {p}
      /\ package = IF Adding(p).kind = "package" THEN {p} ELSE old.package
  BY DEF links, package
<1>6. QED BY <1>2, <1>3, <1>4, <1>5

LEMMA UpdatedFacts ==
  ASSUME TypeInv, NEW p \in Processes, Op(p) = "update",
         NEW row \in Rows, NEW old \in Rows
  PROVE  LET new == Updated(p, row, old)
         IN  /\ new \in Rows
             /\ new.kind = row.kind /\ new.node = row.node
             /\ new.links = row.links /\ new.package = row.package
             /\ new.text = IF SetsText(p) THEN p ELSE old.text
             /\ new.version = IF "version" \in request[p].sets THEN old.version + 1
                              ELSE old.version
             /\ row.kind # "project" => new.status = row.status
<1> DEFINE sets == request[p].sets
           text == IF "text" \in sets THEN p ELSE old.text
           version == IF "version" \in sets THEN old.version + 1 ELSE old.version
           depends == IF "depends" \in sets THEN {Nowhere} ELSE old.depends
           status == IF row.kind # "project" THEN row.status
                     ELSE IF "status" \in sets THEN "settled" ELSE old.status
<1>1. /\ text \in {"old"} \cup Processes /\ version \in Nat
      /\ depends \in SUBSET {"node", Nowhere} /\ status \in Statuses
  BY DEF Rows, Statuses
<1>2. Updated(p, row, old) =
        [row EXCEPT !.text = text, !.version = version, !.depends = depends,
                    !.status = status]
  BY DEF Updated
<1>3. text = IF SetsText(p) THEN p ELSE old.text
  BY DEF SetsText
<1> HIDE DEF text, depends, status, version
<1>4. LET new == [row EXCEPT !.text = text, !.version = version,
                             !.depends = depends, !.status = status]
      IN  /\ new \in Rows
          /\ new.kind = row.kind /\ new.node = row.node
          /\ new.links = row.links /\ new.package = row.package
          /\ new.text = text /\ new.version = version /\ new.status = status
  BY <1>1 DEF Rows
<1>5. row.kind # "project" => status = row.status
  BY DEF status
<1>6. QED BY <1>2, <1>3, <1>4, <1>5 DEF version

LEMMA WriteLinksChange ==
  ASSUME IInv, NEW p \in Processes, WriteLinks(p)
  PROVE  LET node == committed.rows["node"]
         IN  /\ p \in writer /\ Adding(p).node = {"node"}
             /\ "node" \in DOMAIN committed.rows /\ node \in Rows
             /\ RowsChange(RowPut(staged.rows, "node", NodeWith(p, node, node)))
             /\ Contained(staged')
<1> DEFINE node == committed.rows["node"]
<1>1. /\ TypeInv /\ LockInv /\ pc[p] = "relink" /\ read[p] = {node}
  BY DEF IInv, StagedInv, StagedBy, WriteLinks, Move
<1>2. p \in writer /\ View(p) = staged
  BY <1>1, WriterFacts DEF Changing
<1>3. /\ Op(p) = "add" /\ Adding(p).node # {}
      /\ staged.rows = [id \in DOMAIN committed.rows \cup {p} |->
                          IF id = p THEN NewRow(p) ELSE committed.rows[id]]
  BY <1>1 DEF IInv, StagedInv, StagedBy, Linking
<1>4. Adding(p).node = {"node"} /\ p # "node"
  <2>1. Adding(p).node \in OneOf({"node"})
    BY <1>1, <1>3, RequestFacts DEF TypeInv, Adding, Op
  <2>2. p # "node"
    BY FreshIdsAssumption DEF Existing
  <2>3. QED BY <1>3, <2>1, <2>2 DEF OneOf
<1>5. "node" \in DOMAIN committed.rows /\ node \in Rows
  BY <1>1 DEF IInv, Consistent, Kept, Existing, TypeInv, Contained
<1>6. staged.rows["node"] = node
  BY <1>3, <1>4, <1>5
<1>7. Change(p, Put(p, "node", NodeWith(p, node, node)))
  BY <1>1, <1>2, <1>4, <1>6 DEF WriteLinks, NodeWith
<1>8. NodeWith(p, node, node) \in Rows /\ "node" \in Ids
  BY <1>5, NodeWithFacts DEF Ids, Existing
<1>9. QED BY <1>1, <1>4, <1>5, <1>7, <1>8, PutChange

LEMMA TargetAtWrite ==
  ASSUME IInv, NEW p \in Processes, pc[p] = "write", Op(p) # "add"
  PROVE  /\ staged = committed /\ p \in writer /\ View(p) = staged
         /\ Target(p) \in DOMAIN committed.rows /\ Target(p) \in Ids
         /\ committed.rows[Target(p)] \in Rows
         /\ \E old \in Rows : read[p] = {old}
                              /\ (Target(p) # "artifact" => old.version = 1)
<1>1. TypeInv /\ LockInv /\ ReadInv
  BY DEF IInv
<1>2. staged = committed /\ p \in writer /\ View(p) = staged
  BY <1>1, WriterFacts DEF LockInv, Changing
<1>3. Target(p) \in DOMAIN committed.rows /\ Target(p) \in Ids
  BY <1>1, TargetFacts DEF ReadInv, Changing
<1>4. committed.rows[Target(p)] \in Rows
  BY <1>1, <1>3 DEF TypeInv, Contained
<1>5. \E old \in Rows : read[p] = {old}
                       /\ (Target(p) # "artifact" => old.version = 1)
  BY <1>1 DEF TypeInv, ReadInv, Changing
<1>6. QED BY <1>2, <1>3, <1>4, <1>5

LEMMA UpdateChange ==
  ASSUME IInv, NEW p \in Processes, Update(p)
  PROVE  \E old \in Rows :
           /\ read[p] = {old} /\ (Target(p) # "artifact" => old.version = 1)
           /\ RowsChange(RowPut(committed.rows, Target(p),
                                Updated(p, committed.rows[Target(p)], old)))
           /\ Contained(staged')
<1>1. Op(p) = "update" /\ pc[p] = "write" /\ TypeInv /\ LockInv
  BY DEF Update, Move, IInv
<1>2. PICK old \in Rows : read[p] = {old} /\ (Target(p) # "artifact" => old.version = 1)
  BY <1>1, TargetAtWrite
<1>3. /\ staged = committed /\ p \in writer /\ View(p) = staged
      /\ Target(p) \in Ids /\ committed.rows[Target(p)] \in Rows
  BY <1>1, TargetAtWrite
<1>4. Updated(p, committed.rows[Target(p)], old) \in Rows
  BY <1>1, <1>3, UpdatedFacts
<1>5. Change(p, Put(p, Target(p), Updated(p, committed.rows[Target(p)], old)))
  BY <1>2, <1>3 DEF Update
<1>6. /\ RowsChange(RowPut(staged.rows, Target(p),
                           Updated(p, committed.rows[Target(p)], old)))
      /\ Contained(staged')
  BY <1>1, <1>3, <1>4, <1>5, PutChange
<1>7. QED BY <1>2, <1>3, <1>6

LEMMA SetStatusChange ==
  ASSUME IInv, NEW p \in Processes, SetStatus(p)
  PROVE  /\ request[p].status \in Statuses
         /\ RowsChange(RowPut(committed.rows, Target(p),
              [committed.rows[Target(p)] EXCEPT !.status = request[p].status]))
         /\ Contained(staged')
<1> DEFINE new == [committed.rows[Target(p)] EXCEPT !.status = request[p].status]
<1>1. Op(p) = "status" /\ pc[p] = "write" /\ TypeInv /\ LockInv
  BY DEF SetStatus, Move, IInv
<1>2. /\ staged = committed /\ p \in writer /\ View(p) = staged
      /\ Target(p) \in Ids /\ committed.rows[Target(p)] \in Rows
  BY <1>1, TargetAtWrite
<1>3. request[p].status \in Statuses
  BY <1>1, RequestFacts DEF TypeInv, Op
<1>4. new \in Rows
  BY <1>2, <1>3, StatusExcept
<1>5. Change(p, Put(p, Target(p), new))
  BY <1>2 DEF SetStatus, StatusSet
<1> HIDE DEF new
<1>6. RowsChange(RowPut(staged.rows, Target(p), new)) /\ Contained(staged')
  BY <1>1, <1>2, <1>4, <1>5, PutChange
<1>7. QED BY <1>2, <1>3, <1>6 DEF new

LEMMA LogEventChange ==
  ASSUME IInv, NEW p \in Processes, LogEvent(p)
  PROVE  /\ p \in writer
         /\ Target(p) \in DOMAIN staged.rows
         /\ NewEvent(p, staged.rows[Target(p)]) \in Events
         /\ staged'.rows = staged.rows
         /\ staged'.events = Append(committed.events,
                                    NewEvent(p, staged.rows[Target(p)]))
         /\ staged'.runs = staged.runs /\ staged'.files = staged.files
         /\ Contained(staged')
<1> DEFINE event == NewEvent(p, staged.rows[Target(p)])
<1>1. pc[p] = "log" /\ TypeInv /\ LockInv
  BY DEF LogEvent, Move, IInv
<1>2. p \in writer /\ View(p) = staged /\ Contained(staged)
  BY <1>1, WriterFacts DEF Changing
<1>3. Target(p) \in DOMAIN staged.rows /\ staged.events = committed.events
  BY <1>1 DEF IInv, StagedInv, StagedBy, Touched
<1>4. staged' = [staged EXCEPT !.events = Append(committed.events, event)]
  BY <1>2, <1>3 DEF LogEvent, Change, Write, NewEvent
<1>5. event \in Events
  <2>1. staged.rows[Target(p)] \in Rows /\ Target(p) \in Ids
    BY <1>1, <1>2, <1>3, TargetFacts DEF Contained
  <2>2. QED BY <2>1 DEF NewEvent, Event, Events, Rows, OneOf
<1>6. Append(committed.events, event) \in Seq(Events)
  BY <1>2, <1>3, <1>5, AppendProperties DEF Contained
<1> HIDE DEF event
<1>7. staged' = [rows |-> staged.rows, events |-> Append(committed.events, event),
                 runs |-> staged.runs, files |-> staged.files]
  BY <1>2, <1>4, RecordFacts
<1>8. QED BY <1>2, <1>3, <1>5, <1>6, <1>7 DEF Contained, event

(***************************************************************************)
(* Each part of the invariant is preserved: types and the lock.            *)
(***************************************************************************)

LEMMA AppendLen ==
  ASSUME NEW S, NEW s \in Seq(S), NEW e
  PROVE  /\ Len(Append(s, e)) = Len(s) + 1 /\ Len(s) \in Nat
         /\ DOMAIN s = 1..Len(s) /\ DOMAIN Append(s, e) = 1..Len(s) + 1
         /\ \A i \in 1..Len(s) : Append(s, e)[i] = s[i]
         /\ Append(s, e)[Len(s) + 1] = e
OBVIOUS

LEMMA TypePreserved ==
  ASSUME IInv, [Next]_vars
  PROVE  TypeInv'
<1>1. TypeInv /\ LockInv
  BY DEF IInv
<1> USE DEF Waiting, Indexing, Changing, Committed, Goto, Move
<1>2. ASSUME NEW p \in Processes, SkipIndex(p) \/ Scan(p)
      PROVE  TypeInv'
  <2>1. Len(committed.runs) \in Nat
    BY <1>1 DEF TypeInv, Contained
  <2>2. Seen \in 0..MaxEdits
    BY <1>1 DEF TypeInv, Seen
  <2>3. [seen |-> Seen, after |-> Len(committed.runs)] \in Scans
    BY <2>1, <2>2 DEF Scans
  <2>4. QED BY <1>1, <1>2, <2>3 DEF SkipIndex, Scan, TypeInv, file, local
<1>3. ASSUME NEW p \in Processes, ClearIndex(p) \/ FillIndex(p)
      PROVE  TypeInv'
  <2>1. Contained(staged')
    BY <1>1, <1>3, ClearIndexChange, FillIndexChange
  <2>2. QED BY <1>1, <1>3, <2>1 DEF ClearIndex, FillIndex, Change, Write, TypeInv, local
<1>4. ASSUME NEW p \in Processes, BeginTransaction(p) \/ CommitTransaction(p)
      PROVE  TypeInv'
  <2>1. NoScan \in Scans
    BY EditsAssumption DEF NoScan, Scans
  <2>2. writer' \in OneOf(Processes)
    BY <1>4 DEF BeginTransaction, CommitTransaction, Begin, Commit, OneOf
  <2>3. QED BY <1>1, <1>4, <2>1, <2>2 DEF BeginTransaction, CommitTransaction,
              Begin, Commit, TypeInv, local
<1>5. ASSUME NEW p \in Processes, Select(p) \/ ReadLinks(p)
      PROVE  TypeInv'
  <2>1. PICK ids : ReadRow(p, ids)
    BY <1>5 DEF Select, ReadLinks
  <2>2. {View(p).rows[id] : id \in ids} \subseteq Rows
    BY <1>1, <2>1, WriterFacts DEF ReadRow, Contained
  <2>3. read' \in [Processes -> SUBSET Rows]
    BY <1>1, <2>1, <2>2 DEF ReadRow, TypeInv
  <2>4. QED BY <1>1, <1>5, <2>1, <2>3 DEF Select, ReadLinks, ReadRow, TypeInv, file
<1>6. ASSUME NEW p \in Processes, Insert(p) \/ WriteLinks(p) \/ Update(p) \/ SetStatus(p)
      PROVE  TypeInv'
  <2>1. Contained(staged')
    BY <1>1, <1>6, InsertChange, WriteLinksChange, UpdateChange, SetStatusChange
  <2>2. PICK content : Change(p, content)
    BY <1>6 DEF Insert, WriteLinks, Update, SetStatus
  <2>3. pc' \in [Processes -> Waiting \cup Indexing \cup Changing \cup Committed]
        /\ request' = request
    BY <1>1, <1>6 DEF Insert, WriteLinks, Update, SetStatus, TypeInv
  <2>4. QED BY <1>1, <2>1, <2>2, <2>3 DEF Change, Write, TypeInv, local
<1>7. ASSUME NEW p \in Processes, LogEvent(p)
      PROVE  TypeInv'
  <2>1. Contained(staged')
    BY <1>7, LogEventChange
  <2>2. QED BY <1>1, <1>7, <2>1 DEF LogEvent, Change, Write, TypeInv, local
<1>8. ASSUME NEW p \in Processes, Missing(p) \/ Output(p) \/ InsertFails(p) \/ Fails(p)
      PROVE  TypeInv'
  <2>1. NoScan \in Scans
    BY EditsAssumption DEF NoScan, Scans
  <2>2. writer' \in OneOf(Processes) /\ Contained(committed') /\ Contained(staged')
    BY <1>1, <1>8 DEF Missing, Output, InsertFails, Fails, Rollback, TypeInv, OneOf, file
  <2>3. PICK what \in {"ok", "missing", "failed"} : Tell(p, what)
    BY <1>8 DEF Missing, Output, InsertFails, Fails
  <2>4. QED BY <1>1, <2>1, <2>2, <2>3 DEF Tell, TypeInv
<1>9. CASE Edit
  BY <1>1, <1>9, EditsAssumption DEF Edit, TypeInv, file, local
<1>10. CASE UNCHANGED vars
  BY <1>1, <1>10 DEF vars, file, local, TypeInv
<1>11. QED
  BY <1>2, <1>3, <1>4, <1>5, <1>6, <1>7, <1>8, <1>9, <1>10 DEF Next, Step, Done

LEMMA LockPreserved ==
  ASSUME IInv, [Next]_vars
  PROVE  LockInv'
<1>1. TypeInv /\ LockInv
  BY DEF IInv
<1> USE DEF Waiting, Indexing, Changing, Committed, Goto, Move
<1>2. ASSUME NEW p \in Processes, Step(p) \/ Fails(p)
      PROVE  LockInv'
  <2>1. \A q \in Processes : q \in writer => writer = {q}
    BY <1>1, WriterFacts
  <2>2. CASE SkipIndex(p) \/ Scan(p) \/ Missing(p) \/ Select(p) \/ Output(p)
    BY <1>1, <2>2 DEF SkipIndex, Scan, Missing, Select, ReadRow, Output, Tell, TypeInv,
                      LockInv, file
  <2>3. CASE ClearIndex(p) \/ FillIndex(p) \/ Insert(p) \/ WriteLinks(p) \/ Update(p)
             \/ SetStatus(p) \/ LogEvent(p)
    <3>1. p \in writer /\ UNCHANGED <<committed, writer>> /\ pc[p] \in Indexing \cup Changing
      BY <2>3 DEF ClearIndex, FillIndex, Insert, WriteLinks, Update, SetStatus, LogEvent,
                  Change, Write
    <3>2. /\ pc' = [pc EXCEPT ![p] = pc'[p]]
          /\ pc'[p] \in {"fill", "filled", "link", "relink", "log", "commit"}
      BY <1>1, <2>3 DEF ClearIndex, FillIndex, Insert, WriteLinks, Update, SetStatus,
                        LogEvent, TypeInv
    <3>3. \A q \in Processes \ {p} : pc'[q] = pc[q] /\ q \notin writer
      BY <1>1, <2>1, <3>1, <3>2 DEF TypeInv
    <3>4. QED BY <1>1, <2>1, <3>1, <3>2, <3>3 DEF LockInv
  <2>4. CASE BeginTransaction(p)
    BY <1>1, <2>4 DEF BeginTransaction, Begin, LockInv, TypeInv
  <2>5. CASE CommitTransaction(p)
    BY <1>1, <2>1, <2>5 DEF CommitTransaction, Commit, LockInv, TypeInv
  <2>6. CASE InsertFails(p) \/ Fails(p)
    BY <1>1, <2>1, <2>6 DEF InsertFails, Fails, Rollback, Tell, LockInv, TypeInv
  <2>7. CASE ReadLinks(p)
    BY <1>1, <2>7 DEF ReadLinks, ReadRow, LockInv, TypeInv, file
  <2>8. QED BY <1>2, <2>2, <2>3, <2>4, <2>5, <2>6, <2>7 DEF Step
<1>3. CASE Edit \/ UNCHANGED vars
  BY <1>1, <1>3 DEF Edit, vars, file, local, LockInv
<1>4. QED BY <1>2, <1>3 DEF Next, Done

(***************************************************************************)
(* A step of one process, seen by the others.                              *)
(***************************************************************************)

LEMMA Frame ==
  ASSUME TypeInv, LockInv, NEW p \in Processes, Step(p) \/ Fails(p)
  PROVE  /\ request' = request /\ disk' = disk
         /\ \A q \in Processes \ {p} :
              /\ pc'[q] = pc[q] /\ scan'[q] = scan[q]
              /\ read'[q] = read[q] /\ answer'[q] = answer[q]
         /\ \A q \in Processes \ {p} : q \in writer => UNCHANGED file
<1> USE DEF TypeInv, local, Goto, Move, Change, Tell, ReadRow
<1>1. ASSUME NEW q \in Processes \ {p}, q \in writer
      PROVE  UNCHANGED file /\ p \notin writer
  <2>1. writer = {q} /\ p \notin writer
    BY <1>1, WriterFacts
  <2>2. QED BY <2>1 DEF file, Step, Fails, SkipIndex, Scan, ClearIndex, FillIndex,
       BeginTransaction, CommitTransaction, Missing, Select, Insert, InsertFails,
       ReadLinks, WriteLinks, Update, SetStatus, LogEvent, Output,
       Write, Begin, Commit, Rollback
<1>2. CASE SkipIndex(p) \/ Scan(p) \/ ClearIndex(p) \/ FillIndex(p) \/ BeginTransaction(p)
           \/ CommitTransaction(p) \/ Missing(p) \/ Select(p)
  <2>1. request' = request /\ disk' = disk
    BY <1>2 DEF SkipIndex, Scan, ClearIndex, FillIndex, BeginTransaction,
                CommitTransaction, Missing, Select
  <2>2. \A q \in Processes \ {p} :
          /\ pc'[q] = pc[q] /\ scan'[q] = scan[q]
          /\ read'[q] = read[q] /\ answer'[q] = answer[q]
    BY <1>2 DEF SkipIndex, Scan, ClearIndex, FillIndex, BeginTransaction,
                CommitTransaction, Missing, Select
  <2>3. QED BY <1>1, <2>1, <2>2
<1>3. CASE Insert(p) \/ InsertFails(p) \/ ReadLinks(p) \/ WriteLinks(p) \/ Update(p)
           \/ SetStatus(p) \/ LogEvent(p) \/ Output(p) \/ Fails(p)
  <2>1. request' = request /\ disk' = disk
    BY <1>3 DEF Insert, InsertFails, ReadLinks, WriteLinks, Update, SetStatus, LogEvent,
                Output, Fails
  <2>2. \A q \in Processes \ {p} :
          /\ pc'[q] = pc[q] /\ scan'[q] = scan[q]
          /\ read'[q] = read[q] /\ answer'[q] = answer[q]
    BY <1>3 DEF Insert, InsertFails, ReadLinks, WriteLinks, Update, SetStatus, LogEvent,
                Output, Fails
  <2>3. QED BY <1>1, <2>1, <2>2
<1>4. QED BY <1>2, <1>3 DEF Step

\* Only a commit changes what is committed.
LEMMA CommitOnly ==
  ASSUME TypeInv, NEW p \in Processes, Step(p) \/ Fails(p)
  PROVE  \/ committed' = committed
         \/ /\ CommitTransaction(p) /\ committed' = staged
            /\ pc[p] \in {"filled", "commit"} /\ p \in writer
            /\ pc'[p] = IF pc[p] = "filled" THEN "select" ELSE "output"
BY DEF file, Step, Fails, SkipIndex, Scan, ClearIndex, FillIndex, BeginTransaction,
       CommitTransaction, Missing, Select, Insert, InsertFails, ReadLinks, WriteLinks,
       Update, SetStatus, LogEvent, Output, Write, Begin, Commit, Rollback, Change,
       ReadRow, Move, Goto, TypeInv

\* What a commit adds.
LEMMA CommitFacts ==
  ASSUME IInv, NEW p \in Processes, CommitTransaction(p)
  PROVE  /\ committed' = staged
         /\ pc[p] = "filled" =>
              staged.rows = committed.rows /\ staged.events = committed.events
         /\ pc[p] = "commit" =>
              /\ DOMAIN staged.rows = DOMAIN committed.rows \cup {Target(p)}
              /\ staged.events = Append(committed.events,
                                        NewEvent(p, staged.rows[Target(p)]))
         /\ pc[p] \in {"filled", "commit"}
BY DEF CommitTransaction, Commit, Move, IInv, StagedInv, StagedBy, Touched, IndexInv, Refreshing,
       Indexing

LEMMA RowsStay ==
  ASSUME IInv, [Next]_vars
  PROVE  DOMAIN committed.rows \subseteq DOMAIN committed'.rows
<1>1. TypeInv
  BY DEF IInv
<1>2. ASSUME NEW p \in Processes, Step(p) \/ Fails(p)
      PROVE  DOMAIN committed.rows \subseteq DOMAIN committed'.rows
  BY <1>1, <1>2, CommitOnly, CommitFacts
<1>3. CASE Edit \/ UNCHANGED vars
  BY <1>3 DEF Edit, vars, file
<1>4. QED BY <1>2, <1>3 DEF Next, Done

LEMMA ReadPreserved ==
  ASSUME IInv, [Next]_vars
  PROVE  ReadInv'
<1>1. TypeInv /\ LockInv /\ ReadInv /\ Kept(committed.rows)
  BY DEF IInv, Consistent
<1>2. DOMAIN committed.rows \subseteq DOMAIN committed'.rows
  BY RowsStay
<1> DEFINE Good(q) ==
      /\ pc[q] \in {"begin"} \cup Changing => Required(q) \subseteq DOMAIN committed.rows
      /\ pc[q] \in {"begin"} \cup Changing /\ Op(q) # "add" =>
           \E old \in read[q] : read[q] = {old}
                             /\ (Target(q) # "artifact" => old.version = 1)
<1>3. ASSUME NEW q \in Processes, request' = request, read'[q] = read[q],
             pc'[q] \in {"begin"} \cup Changing => pc[q] \in {"begin"} \cup Changing
      PROVE  Good(q)'
  <2>1. /\ Required(q)' = Required(q) /\ Target(q)' = Target(q) /\ Op(q)' = Op(q)
    BY <1>3 DEF Required, Target, Op, Adding
  <2>2. Good(q)
    BY <1>1 DEF ReadInv
  <2>3. QED BY <1>2, <1>3, <2>1, <2>2
<1>4. ASSUME NEW p \in Processes, Step(p) \/ Fails(p)
      PROVE  ReadInv'
  <2>1. \A q \in Processes \ {p} : Good(q)'
    BY <1>1, <1>3, <1>4, Frame
  <2>2. Good(p)'
    <3>1. CASE Select(p)
      <4>1. View(p) = committed /\ UNCHANGED <<committed, request>>
        <5>1. pc[p] = "select"
          BY <3>1 DEF Select, Move
        <5>2. p \notin writer
          BY <1>1, <5>1 DEF LockInv, Indexing, Changing
        <5>3. QED BY <3>1, <5>2 DEF View, Select, ReadRow, Move, file
      <4>2. /\ Required(p) \subseteq DOMAIN committed.rows
            /\ read'[p] = {committed.rows[id] : id \in Required(p)}
        BY <1>1, <3>1, <4>1 DEF Select, ReadRow, TypeInv
      <4>3. /\ Required(p)' = Required(p) /\ Target(p)' = Target(p) /\ Op(p)' = Op(p)
        BY <4>1 DEF Required, Target, Op, Adding
      <4>4. ASSUME Op(p) # "add"
            PROVE  read'[p] = {committed.rows[Target(p)]} /\ Target(p) \in DOMAIN committed.rows
        BY <4>2, <4>4 DEF Required
      <4>5. QED BY <1>1, <4>1, <4>2, <4>3, <4>4 DEF Kept
    <3>2. CASE ReadLinks(p)
      <4>1. pc[p] = "link" /\ request' = request
        BY <3>2 DEF ReadLinks, Move
      <4>2. Op(p) = "add"
        BY <4>1 DEF IInv, StagedInv, StagedBy
      <4>3. Required(p) \subseteq DOMAIN committed.rows
        BY <1>1, <4>1 DEF ReadInv, Changing
      <4>4. /\ Required(p)' = Required(p) /\ Op(p)' = Op(p)
        BY <4>1 DEF Required, Target, Op, Adding
      <4>5. QED BY <1>2, <4>2, <4>3, <4>4
    <3>3. CASE ~Select(p) /\ ~ReadLinks(p)
      <4>1. read' = read /\ request' = request
        BY <1>4, <3>3, <1>1, Frame DEF Step, Fails, SkipIndex, Scan, ClearIndex, FillIndex,
          BeginTransaction, CommitTransaction, Missing, Insert, InsertFails,
          WriteLinks, Update, SetStatus, LogEvent, Output, Change, Tell, local
      <4>2. pc'[p] \in {"begin"} \cup Changing => pc[p] \in {"begin"} \cup Changing
        BY <1>1, <1>4, <3>3 DEF Step, Fails, SkipIndex, Scan, ClearIndex, FillIndex,
          BeginTransaction, CommitTransaction, Missing, Insert, InsertFails,
          WriteLinks, Update, SetStatus, LogEvent, Output, Tell, Move, Goto, TypeInv, Changing
      <4>3. QED BY <1>3, <4>1, <4>2
    <3>4. QED BY <3>1, <3>2, <3>3
  <2>3. QED BY <2>1, <2>2 DEF ReadInv
<1>5. CASE Edit \/ UNCHANGED vars
  <2>1. UNCHANGED <<request, read, pc>>
    BY <1>5 DEF Edit, vars, local
  <2>2. QED BY <1>3, <2>1 DEF ReadInv
<1>6. QED BY <1>4, <1>5 DEF Next, Done

(***************************************************************************)
(* The log.                                                                *)
(***************************************************************************)

\* The event of a command is by its process; its row is there or is its own.
LEMMA CommandFacts ==
  ASSUME IInv, NEW p \in Processes, pc[p] \in Changing
  PROVE  /\ Target(p) = p \/ Target(p) \in DOMAIN committed.rows
         /\ \A row : NewEvent(p, row).by = p /\ NewEvent(p, row).id = Target(p)
<1>1. Op(p) # "add" => Target(p) \in DOMAIN committed.rows
  BY TargetFacts DEF IInv, ReadInv
<1>2. Op(p) = "add" => Target(p) = p
  BY DEF Target
<1>3. \A row : NewEvent(p, row).by = p /\ NewEvent(p, row).id = Target(p)
  BY DEF NewEvent, Event
<1>4. QED BY <1>1, <1>2, <1>3

LEMMA LogPreserved ==
  ASSUME IInv, [Next]_vars
  PROVE  LogInv'
<1>1. TypeInv /\ LockInv /\ LogInv
  BY DEF IInv
<1> DEFINE Logged(q) == \E i \in DOMAIN committed.events : committed.events[i].by = q
           Good(q) ==
             /\ answer[q] = "none" <=> pc[q] # "ended"
             /\ pc[q] = "output" \/ answer[q] = "ok" => Logged(q)
             /\ pc[q] \notin Committed \/ answer[q] = "missing" => ~Logged(q)
             /\ pc[q] \notin Committed => q \notin DOMAIN committed.rows
<1>2. LogInv <=> \A q \in Processes : Good(q)
  BY DEF LogInv
<1>3. LogInv' <=> \A q \in Processes : Good(q)'
  BY DEF LogInv
<1>4. ASSUME NEW p \in Processes, Step(p) \/ Fails(p), ~CommitTransaction(p)
      PROVE  LogInv'
  <2>1. committed' = committed
    BY <1>1, <1>4, CommitOnly
  <2>2. \A q \in Processes : Logged(q)' <=> Logged(q)
    BY <2>1
  <2>3. ASSUME NEW q \in Processes \ {p} PROVE Good(q)'
    BY <1>1, <1>2, <1>4, <2>1, <2>2, Frame
  <2>4. \/ answer' = answer /\ pc[p] \notin Committed /\ pc'[p] \notin Committed
        \/ /\ pc'[p] = "ended" /\ answer'[p] \in {"ok", "missing", "failed"}
           /\ answer'[p] = "ok" => pc[p] = "output"
           /\ answer'[p] = "missing" => pc[p] = "select"
    <3>1. CASE Missing(p) \/ InsertFails(p) \/ Output(p) \/ Fails(p)
      BY <1>1, <3>1 DEF Missing, InsertFails, Output, Fails, Tell, Goto, TypeInv
    <3>2. CASE Step(p) /\ ~Missing(p) /\ ~InsertFails(p) /\ ~Output(p)
      BY <1>1, <1>4, <3>2 DEF Step, SkipIndex, Scan, ClearIndex, FillIndex,
        BeginTransaction, Select, Insert, ReadLinks, ReadRow, WriteLinks, Update,
        SetStatus, LogEvent, Change, Move, Goto, TypeInv, Committed, local
    <3>3. QED BY <1>4, <3>1, <3>2
  <2>5. Good(p)'
    <3>1. Logged(p)' <=> Logged(p)
      BY <2>2
    <3>2. Good(p)
      BY <1>1, <1>2
    <3> HIDE DEF Logged
    <3>3. QED BY <2>1, <2>4, <3>1, <3>2 DEF Committed
  <2>6. QED BY <1>3, <2>3, <2>5
<1>5. ASSUME NEW p \in Processes, CommitTransaction(p)
      PROVE  LogInv'
  <2>1. /\ \/ pc[p] = "filled" /\ pc'[p] = "select"
           \/ pc[p] = "commit" /\ pc'[p] = "output"
        /\ answer' = answer /\ committed' = staged
    <3>1. DOMAIN pc = Processes
      BY <1>1 DEF TypeInv
    <3>2. \A to : Goto(p, to) => pc'[p] = to
      BY <3>1 DEF Goto
    <3>3. Move(p, "filled", "select") \/ Move(p, "commit", "output")
      BY <1>5 DEF CommitTransaction
    <3>4. committed' = staged /\ answer' = answer
      BY <1>5 DEF CommitTransaction, Commit
    <3>5. QED BY <3>2, <3>3, <3>4 DEF Move
  <2>2. \A q \in Processes \ {p} : pc'[q] = pc[q]
    BY <1>1, <1>5, Frame DEF Step
  <2>3. CASE pc[p] = "filled"
    <3>1. committed'.rows = committed.rows /\ committed'.events = committed.events
      BY <1>5, <2>1, <2>3, CommitFacts
    <3>2. \A q \in Processes : Good(q) /\ (Logged(q)' <=> Logged(q))
      BY <1>1, <1>2, <3>1
    <3> HIDE DEF Logged
    <3>3. \A q \in Processes : Good(q)'
      <4>1. TAKE q \in Processes
      <4>2. Good(q) /\ (Logged(q)' <=> Logged(q))
        BY <3>2
      <4>3. pc'[q] = pc[q] \/ (q = p /\ pc[q] = "filled" /\ pc'[q] = "select")
        BY <2>1, <2>2, <2>3
      <4>4. QED BY <2>1, <3>1, <4>2, <4>3 DEF Committed
    <3>4. QED BY <1>3, <3>3
  <2>4. CASE pc[p] = "commit"
    <3> DEFINE event == NewEvent(p, staged.rows[Target(p)])
    <3>1. /\ committed'.events = Append(committed.events, event)
          /\ DOMAIN committed'.rows = DOMAIN committed.rows \cup {Target(p)}
      BY <1>5, <2>1, <2>4, CommitFacts
    <3>2. event.by = p /\ (Target(p) = p \/ Target(p) \in DOMAIN committed.rows)
      BY <2>4, CommandFacts DEF Changing
    <3>3. committed.events \in Seq(Events)
      BY <1>1 DEF TypeInv, Contained
    <3> HIDE DEF event
    <3>4. \A q \in Processes : Logged(q)' <=> Logged(q) \/ q = p
      <4>1. /\ DOMAIN committed'.events = 1..Len(committed.events) + 1
            /\ DOMAIN committed.events = 1..Len(committed.events)
            /\ Len(committed.events) \in Nat
            /\ \A i \in 1..Len(committed.events) :
                 committed'.events[i] = committed.events[i]
            /\ committed'.events[Len(committed.events) + 1] = event
        BY <3>1, <3>3, AppendLen
      <4>2. QED BY <3>2, <4>1, SMTT(30)
    <3>5. \A q \in Processes : Good(q)
      BY <1>1, <1>2
    <3> HIDE DEF Logged
    <3>6. \A q \in Processes \ {p} : Good(q)'
      <4>1. TAKE q \in Processes \ {p}
      <4>2. Good(q) /\ pc'[q] = pc[q] /\ (Logged(q)' <=> Logged(q))
        BY <2>2, <3>4, <3>5
      <4>3. QED BY <2>1, <3>1, <3>2, <4>2 DEF Committed
    <3>8. Good(p)'
      BY <2>1, <2>4, <3>4, <3>5 DEF Committed
    <3>9. QED BY <1>3, <3>6, <3>8
  <2>5. QED BY <2>1, <2>3, <2>4
<1>6. CASE Edit \/ UNCHANGED vars
  BY <1>1, <1>6 DEF Edit, vars, file, local, LogInv
<1>7. QED BY <1>4, <1>5, <1>6 DEF Next, Done

(***************************************************************************)
(* What the commands keep of the rows.                                     *)
(***************************************************************************)

Rowed(rows) == /\ rows \in [DOMAIN rows -> Rows]
               /\ Kept(rows) /\ Linked(rows)

LEMMA OwnerIsNode ==
  ASSUME NEW row \in Rows
  PROVE  row.node = {} \/ row.node = {"node"}
BY DEF Rows, OneOf

\* A row may be rewritten with the same kind, owner and links.
LEMMA RewriteKeeps ==
  ASSUME NEW rows, Rowed(rows), NEW id \in DOMAIN rows, NEW new \in Rows,
         new.kind = rows[id].kind, new.node = rows[id].node,
         new.links = rows[id].links, new.package = rows[id].package,
         id # "artifact" => new.version = 1
  PROVE  Rowed(RowPut(rows, id, new))
<1> DEFINE after == RowPut(rows, id, new)
<1>1. /\ DOMAIN after = DOMAIN rows /\ after[id] = new
      /\ \A i \in DOMAIN rows \ {id} : after[i] = rows[i]
  BY DEF RowPut
<1>2. after \in [DOMAIN after -> Rows]
  BY DEF RowPut, Rowed
<1> HIDE DEF after
<1>3. Kept(after)
  BY <1>1 DEF Kept, Rowed
<1>4. \A i \in DOMAIN rows :
        /\ after[i].kind = rows[i].kind /\ after[i].node = rows[i].node
        /\ after[i].links = rows[i].links /\ after[i].package = rows[i].package
  BY <1>1
<1>5. \A i, kinds : Owned(after, i, kinds) = Owned(rows, i, kinds)
  BY <1>1, <1>4 DEF Owned
<1>6. Linked(after)
  BY <1>1, <1>4, <1>5 DEF Linked, Rowed
<1>7. QED BY <1>2, <1>3, <1>6 DEF Rowed, after

\* A new row that no node has to list.
LEMMA UnlinkedKeeps ==
  ASSUME NEW rows, Rowed(rows), NEW p \in Processes, p \notin DOMAIN rows,
         Op(p) = "add", ~Linking(p), NewRow(p) \in Rows
  PROVE  Rowed(RowPut(rows, p, NewRow(p)))
<1> DEFINE after == RowPut(rows, p, NewRow(p))
<1>1. /\ DOMAIN after = DOMAIN rows \cup {p} /\ after[p] = NewRow(p)
      /\ \A i \in DOMAIN rows : after[i] = rows[i]
  BY DEF RowPut
<1>2. after \in [DOMAIN after -> Rows]
  BY DEF RowPut, Rowed
<1>3. /\ NewRow(p).version = 1 /\ NewRow(p).links = {} /\ NewRow(p).package = {}
      /\ NewRow(p).kind = Adding(p).kind /\ NewRow(p).node = Adding(p).node
  BY DEF NewRow, Row
<1> HIDE DEF after
<1>4. Kept(after)
  BY <1>1, <1>3, FreshIdsAssumption DEF Kept, Rowed
<1>5. \A i : {"artifact", "question", "package"} \cap {NewRow(p).kind} = {}
             \/ NewRow(p).node # {i}
  BY <1>3 DEF Linking
<1>6. \A i : /\ Owned(after, i, {"artifact", "question"})
                  = Owned(rows, i, {"artifact", "question"})
             /\ Owned(after, i, {"package"}) = Owned(rows, i, {"package"})
  BY <1>1, <1>5 DEF Owned
<1>7. \A kinds : Owned(rows, p, kinds) = {}
  <2>1. p # "node"
    BY FreshIdsAssumption DEF Existing
  <2>2. \A i \in DOMAIN rows : rows[i] \in Rows
    BY DEF Rowed
  <2>3. \A i \in DOMAIN rows : rows[i].node # {p}
    BY <2>1, <2>2, OwnerIsNode
  <2>4. QED BY <2>3 DEF Owned
<1>8. Linked(after)
  BY <1>1, <1>3, <1>6, <1>7 DEF Linked, Rowed
<1>9. QED BY <1>2, <1>4, <1>8 DEF Rowed, after

\* A new row, and the node that lists it.
LEMMA LinkedKeeps ==
  ASSUME NEW rows, Rowed(rows), NEW p \in Processes, p \notin DOMAIN rows,
         Op(p) = "add", Linking(p), request[p] \in Requests, NewRow(p) \in Rows,
         Adding(p).kind = "package" =>
           \A id \in DOMAIN rows : rows[id].kind # "package"
  PROVE  LET node == rows["node"]
         IN  Rowed(RowPut(RowPut(rows, p, NewRow(p)), "node",
                          NodeWith(p, node, node)))
<1> DEFINE node  == rows["node"]
           added == RowPut(rows, p, NewRow(p))
           new   == NodeWith(p, node, node)
           after == RowPut(added, "node", new)
<1>1. /\ p # "node" /\ p # "artifact" /\ "node" \in DOMAIN rows
      /\ node \in Rows /\ node.kind = "node"
  BY FreshIdsAssumption DEF Existing, Rowed, Kept
<1>2. /\ NewRow(p).version = 1
      /\ NewRow(p).kind = Adding(p).kind /\ NewRow(p).node = Adding(p).node
  BY DEF NewRow, Row
<1>3. Adding(p).node = {"node"} /\ Adding(p).kind \in {"artifact", "question", "package"}
  BY RequestFacts DEF Linking, Adding, Op, OneOf, Kinds
<1>4. /\ new \in Rows /\ new.kind = "node" /\ new.node = node.node
      /\ new.version = node.version
      /\ new.links = IF Adding(p).kind = "package" THEN node.links
                     ELSE node.links \cup {p}
      /\ new.package = IF Adding(p).kind = "package" THEN {p} ELSE node.package
  BY <1>1, NodeWithFacts, ZenonT(30)
<1>5. /\ DOMAIN after = DOMAIN rows \cup {p}
      /\ after[p] = NewRow(p) /\ after["node"] = new
      /\ \A i \in DOMAIN rows \ {"node"} : after[i] = rows[i]
  BY <1>1 DEF RowPut
<1>6. after \in [DOMAIN after -> Rows]
  BY <1>4 DEF RowPut, Rowed
<1> HIDE DEF after, new
<1>7. Kept(after)
  BY <1>1, <1>2, <1>4, <1>5 DEF Kept, Rowed, Existing
<1>8. \A i \in DOMAIN rows : after[i].kind = rows[i].kind /\ after[i].node = rows[i].node
  BY <1>1, <1>4, <1>5
<1>9. \A kinds : Owned(after, "node", kinds) =
        Owned(rows, "node", kinds) \cup (IF Adding(p).kind \in kinds THEN {p} ELSE {})
  BY <1>2, <1>3, <1>5, <1>8 DEF Owned
<1>10. \A id, kinds : id # "node" =>
         Owned(after, id, kinds) = {} /\ Owned(rows, id, kinds) = {}
  <2>1. \A i \in DOMAIN rows : rows[i].node = {} \/ rows[i].node = {"node"}
    BY OwnerIsNode DEF Rowed
  <2>2. QED BY <1>2, <1>3, <1>5, <1>8, <2>1 DEF Owned
<1>11. ASSUME NEW id \in DOMAIN after, after[id].kind = "node"
       PROVE  /\ after[id].links = Owned(after, id, {"artifact", "question"})
              /\ after[id].package = Owned(after, id, {"package"})
  <2>1. CASE id = "node"
    <3>1. /\ node.links = Owned(rows, "node", {"artifact", "question"})
          /\ node.package = Owned(rows, "node", {"package"})
      BY <1>1 DEF Rowed, Linked
    <3>2. Adding(p).kind = "package" => node.package = {}
      BY <3>1 DEF Owned
    <3>3. Owned(after, "node", {"artifact", "question"}) =
            node.links \cup (IF Adding(p).kind \in {"artifact", "question"} THEN {p}
                             ELSE {})
      BY <1>9, <3>1
    <3>4. Owned(after, "node", {"package"}) =
            node.package \cup (IF Adding(p).kind = "package" THEN {p} ELSE {})
      BY <1>9, <3>1
    <3>5. /\ new.links = Owned(after, "node", {"artifact", "question"})
          /\ new.package = Owned(after, "node", {"package"})
      <4> HIDE DEF node
      <4>1. CASE Adding(p).kind = "package"
        BY <1>4, <3>2, <3>3, <3>4, <4>1
      <4>2. CASE Adding(p).kind \in {"artifact", "question"}
        BY <1>4, <3>3, <3>4, <4>2
      <4>3. QED BY <1>3, <4>1, <4>2
    <3>6. QED BY <1>5, <2>1, <3>5
  <2>2. CASE id # "node"
    <3>1. id \in DOMAIN rows /\ after[id] = rows[id]
      BY <1>2, <1>3, <1>5, <1>11, <2>2
    <3>2. QED BY <1>10, <1>11, <2>2, <3>1 DEF Rowed, Linked
  <2>3. QED BY <2>1, <2>2
<1>12. QED BY <1>6, <1>7, <1>11 DEF Rowed, Linked, after, new

(***************************************************************************)
(* What a command stages.                                                  *)
(***************************************************************************)

LEMMA CommittedRowed ==
  ASSUME IInv
  PROVE  Rowed(committed.rows)
BY DEF IInv, TypeInv, Contained, Consistent, Rowed

\* The statements of a command that change a row, one by one.
LEMMA BeginStages ==
  ASSUME IInv, NEW p \in Processes, BeginTransaction(p)
  PROVE  StagedBy(p)'
<1>1. staged = committed
  BY DEF IInv, LockInv, BeginTransaction, Begin
<1>2. /\ committed' = committed /\ staged' = staged
      /\ pc'[p] \in {"clear", "write"}
  BY DEF IInv, TypeInv, BeginTransaction, Begin, Move, Goto
<1>3. QED BY <1>1, <1>2 DEF StagedBy

LEMMA InsertStages ==
  ASSUME IInv, NEW p \in Processes, Insert(p)
  PROVE  StagedBy(p)'
<1>1. /\ TypeInv /\ LockInv /\ Op(p) = "add" /\ pc[p] = "write"
      /\ Admissible(p) /\ request' = request /\ committed' = committed
  BY DEF IInv, Insert, Move, Change, Write
<1>2. staged = committed /\ p \notin DOMAIN committed.rows /\ View(p) = staged
  BY <1>1, InsertChange DEF IInv, LockInv, LogInv, Committed
<1>3. RowsChange(RowPut(committed.rows, p, NewRow(p)))
  BY <1>1, <1>2, InsertChange
<1>4. /\ Rowed(committed.rows) /\ NewRow(p) \in Rows /\ request[p] \in Requests
      /\ Target(p) = p
  BY <1>1, CommittedRowed, TargetFacts DEF TypeInv
<1>5. /\ Op(p)' = Op(p) /\ Adding(p)' = Adding(p) /\ NewRow(p)' = NewRow(p)
      /\ Linking(p)' = Linking(p) /\ Target(p)' = Target(p)
  BY <1>1 DEF Op, Adding, NewRow, Linking, Target
<1>6. pc'[p] = IF Linking(p) THEN "link" ELSE "log"
  BY <1>1 DEF TypeInv, Insert, Move, Goto
<1>7. CASE Linking(p)
  <2>1. ASSUME Adding(p).kind = "package", NEW id \in DOMAIN committed.rows
        PROVE  committed.rows[id].kind # "package"
    BY <1>1, <1>2, <1>4, <2>1 DEF Admissible, Rowed, Kept, Existing
  <2>2. QED BY <1>1, <1>2, <1>3, <1>5, <1>6, <1>7, <2>1
            DEF StagedBy, RowsChange, RowPut
<1>8. CASE ~Linking(p)
  <2>1. Rowed(staged'.rows)
    BY <1>1, <1>2, <1>3, <1>4, <1>8, UnlinkedKeeps DEF RowsChange
  <2>2. /\ DOMAIN staged'.rows = DOMAIN committed.rows \cup {p}
        /\ \A id \in DOMAIN committed.rows \ {p} :
             staged'.rows[id] = committed.rows[id]
    BY <1>3 DEF RowsChange, RowPut
  <2>3. Touched(p)'
    BY <1>1, <1>4, <1>5, <2>2 DEF Touched
  <2>4. QED BY <1>1, <1>2, <1>3, <1>6, <1>8, <2>1, <2>3
            DEF StagedBy, RowsChange, Rowed
<1>9. QED BY <1>7, <1>8

LEMMA ReadLinksStages ==
  ASSUME IInv, NEW p \in Processes, ReadLinks(p)
  PROVE  StagedBy(p)'
<1>1. /\ TypeInv /\ LockInv /\ pc[p] = "link" /\ UNCHANGED <<request, file>>
      /\ read' = [read EXCEPT ![p] = {View(p).rows[id] : id \in Adding(p).node}]
  BY DEF IInv, ReadLinks, ReadRow, Move
<1>2. View(p) = staged /\ pc'[p] = "relink"
  BY <1>1, WriterFacts DEF Changing, ReadLinks, Move, Goto, TypeInv
<1>3. StagedBy(p)
  BY DEF IInv, StagedInv
<1>4. Op(p) = "add" /\ Linking(p) /\ request[p] \in Requests
  BY <1>1, <1>3 DEF StagedBy, TypeInv
<1>5. Adding(p).node = {"node"} /\ p # "node" /\ "node" \in DOMAIN committed.rows
  BY <1>4, RequestFacts, FreshIdsAssumption, CommittedRowed
     DEF Linking, Adding, Op, OneOf, Existing, Rowed, Kept
<1>6. staged.rows["node"] = committed.rows["node"]
  BY <1>1, <1>3, <1>5 DEF StagedBy
<1>7. read'[p] = {committed.rows["node"]}
  BY <1>1, <1>2, <1>5, <1>6 DEF TypeInv
<1>8. /\ Op(p)' = Op(p) /\ Adding(p)' = Adding(p) /\ NewRow(p)' = NewRow(p)
      /\ Linking(p)' = Linking(p)
  BY <1>1 DEF Op, Adding, NewRow, Linking
<1>9. QED BY <1>1, <1>2, <1>3, <1>7, <1>8 DEF StagedBy, file, Changing

LEMMA WriteLinksStages ==
  ASSUME IInv, NEW p \in Processes, WriteLinks(p)
  PROVE  StagedBy(p)'
<1> DEFINE node == committed.rows["node"]
           new  == NodeWith(p, node, node)
<1>1. /\ TypeInv /\ LockInv /\ pc[p] = "relink" /\ request' = request
      /\ committed' = committed /\ StagedBy(p)
  BY DEF IInv, StagedInv, WriteLinks, Move, Change, Write
<1>2. pc'[p] = "log"
  BY <1>1 DEF TypeInv, WriteLinks, Move, Goto
<1>3. /\ Op(p) = "add" /\ Linking(p) /\ Target(p) = p /\ p \notin DOMAIN committed.rows
      /\ Adding(p).kind = "package" =>
           \A id \in DOMAIN committed.rows : committed.rows[id].kind # "package"
      /\ staged.rows = RowPut(committed.rows, p, NewRow(p))
      /\ staged.runs = committed.runs /\ staged.files = committed.files
      /\ staged.events = committed.events
  BY <1>1 DEF StagedBy, RowPut, Target, IInv, LogInv, Committed, Changing
<1>4. /\ Adding(p).node = {"node"} /\ "node" \in DOMAIN committed.rows /\ node \in Rows
      /\ RowsChange(RowPut(staged.rows, "node", new))
  BY WriteLinksChange
<1>5. Rowed(committed.rows) /\ NewRow(p) \in Rows /\ request[p] \in Requests
  BY <1>1, <1>3, CommittedRowed, TargetFacts DEF TypeInv
<1>6. Rowed(staged'.rows)
  BY <1>3, <1>4, <1>5, LinkedKeeps DEF RowsChange
<1>7. /\ Op(p)' = Op(p) /\ Target(p)' = Target(p)
  BY <1>1 DEF Op, Adding, Target
<1>8. /\ DOMAIN staged'.rows = DOMAIN committed.rows \cup {p}
      /\ staged'.rows[p].node = {"node"}
      /\ staged'.rows["node"] = new
      /\ \A id \in DOMAIN committed.rows \ {p, "node"} :
           staged'.rows[id] = committed.rows[id]
  <2>1. p # "node" /\ NewRow(p).node = {"node"}
    BY <1>4, FreshIdsAssumption DEF Existing, NewRow, Row
  <2> HIDE DEF new
  <2>2. QED BY <1>3, <1>4, <2>1 DEF RowsChange, RowPut
<1>9. /\ new.status = node.status /\ new.version = node.version
      /\ new.text = node.text
  <2>1. node \in Rows
    BY <1>4
  <2> HIDE DEF node
  <2>2. QED BY <2>1, NodeWithFacts
<1> HIDE DEF new
<1>10. Touched(p)'
  BY <1>1, <1>3, <1>7, <1>8, <1>9 DEF Touched
<1>11. QED BY <1>1, <1>2, <1>3, <1>4, <1>6, <1>10
           DEF StagedBy, RowsChange, Rowed

\* A command that rewrites the row it has read.
LEMMA RewriteStages ==
  ASSUME IInv, NEW p \in Processes, Move(p, "write", "log"), Op(p) # "add",
         committed' = committed, read' = read, NEW new \in Rows,
         RowsChange(RowPut(committed.rows, Target(p), new)),
         LET row == committed.rows[Target(p)]
         IN  /\ new.kind = row.kind /\ new.node = row.node
             /\ new.links = row.links /\ new.package = row.package
             /\ Target(p) # "artifact" => new.version = 1
             /\ ~TellsStatus(p) => new.status = row.status
             /\ ~TellsVersion(p) => new.version = row.version
             /\ new.text \in IF Op(p) = "update" THEN NewText(p) ELSE {row.text}
  PROVE  StagedBy(p)'
<1>1. /\ pc[p] = "write" /\ pc'[p] = "log" /\ request' = request
      /\ staged = committed /\ Target(p) \in DOMAIN committed.rows
  BY TargetAtWrite DEF IInv, TypeInv, Move, Goto
<1>2. Rowed(staged'.rows)
  BY <1>1, CommittedRowed, RewriteKeeps DEF RowsChange
<1>3. /\ Target(p)' = Target(p) /\ Op(p)' = Op(p) /\ NewText(p)' = NewText(p)
      /\ TellsStatus(p)' = TellsStatus(p) /\ TellsVersion(p)' = TellsVersion(p)
  BY <1>1 DEF Target, Op, NewText, SetsText, TellsStatus, TellsVersion, Adding
<1>4. /\ DOMAIN staged'.rows = DOMAIN committed.rows \cup {Target(p)}
      /\ staged'.rows[Target(p)] = new
      /\ \A id \in DOMAIN committed.rows \ {Target(p)} :
           staged'.rows[id] = committed.rows[id]
  BY DEF RowsChange, RowPut
<1>5. Touched(p)'
  BY <1>3, <1>4 DEF Touched
<1>6. QED BY <1>1, <1>2, <1>5 DEF StagedBy, RowsChange, Rowed

LEMMA UpdateStages ==
  ASSUME IInv, NEW p \in Processes, Update(p)
  PROVE  StagedBy(p)'
<1> DEFINE row == committed.rows[Target(p)]
<1>1. /\ TypeInv /\ Op(p) = "update" /\ Move(p, "write", "log")
      /\ committed' = committed /\ read' = read
  BY DEF IInv, Update, Change, Write, local
<1>2. PICK old \in Rows :
        /\ read[p] = {old} /\ (Target(p) # "artifact" => old.version = 1)
        /\ RowsChange(RowPut(committed.rows, Target(p), Updated(p, row, old)))
  BY UpdateChange
<1>3. /\ row \in Rows /\ Target(p) \in Existing /\ row.kind = Target(p)
      /\ Target(p) # "artifact" => row.version = 1
      /\ "version" \in request[p].sets => Target(p) = "artifact"
  BY <1>1, TargetFacts, CommittedRowed DEF Rowed, Kept
<1> DEFINE new == Updated(p, row, old)
<1>4. /\ new \in Rows
      /\ new.kind = row.kind /\ new.node = row.node
      /\ new.links = row.links /\ new.package = row.package
      /\ new.text = IF SetsText(p) THEN p ELSE old.text
      /\ new.version = IF "version" \in request[p].sets THEN old.version + 1
                       ELSE old.version
      /\ row.kind # "project" => new.status = row.status
  <2>1. row \in Rows /\ old \in Rows
    BY <1>3
  <2> HIDE DEF row
  <2>2. QED BY <1>1, <2>1, UpdatedFacts
<1> HIDE DEF new, row
<1>5. new.text \in NewText(p)
  BY <1>2, <1>4 DEF NewText
<1>6. /\ Target(p) # "artifact" => new.version = 1
      /\ ~TellsStatus(p) => new.status = row.status
      /\ ~TellsVersion(p) => new.version = row.version
  BY <1>1, <1>2, <1>3, <1>4 DEF TellsStatus, TellsVersion
<1>7. QED BY <1>1, <1>2, <1>4, <1>5, <1>6, RewriteStages DEF new, row

LEMMA SetStatusStages ==
  ASSUME IInv, NEW p \in Processes, SetStatus(p)
  PROVE  StagedBy(p)'
<1> DEFINE row == committed.rows[Target(p)]
           new == [row EXCEPT !.status = request[p].status]
<1>1. /\ TypeInv /\ Op(p) = "status" /\ Move(p, "write", "log")
      /\ committed' = committed /\ read' = read
  BY DEF IInv, SetStatus, Change, Write, local
<1>2. /\ request[p].status \in Statuses
      /\ RowsChange(RowPut(committed.rows, Target(p), new))
  BY SetStatusChange
<1>3. /\ row \in Rows /\ Target(p) \in DOMAIN committed.rows
      /\ Target(p) # "artifact" => row.version = 1
  BY <1>1, TargetAtWrite, CommittedRowed DEF Rowed, Kept, Move
<1>4. /\ new \in Rows
      /\ new.version = row.version /\ new.text = row.text
      /\ new.kind = row.kind /\ new.node = row.node
      /\ new.links = row.links /\ new.package = row.package
  <2>1. row \in Rows
    BY <1>3
  <2> HIDE DEF row
  <2>2. QED BY <1>2, <2>1, StatusExcept
<1> HIDE DEF new, row
<1>5. TellsStatus(p) /\ Op(p) # "update" /\ Op(p) # "add"
  BY <1>1 DEF TellsStatus
<1>6. /\ Target(p) # "artifact" => new.version = 1
      /\ ~TellsStatus(p) => new.status = row.status
      /\ new.text \in IF Op(p) = "update" THEN NewText(p) ELSE {row.text}
  BY <1>3, <1>4, <1>5
<1>7. RowsChange(RowPut(committed.rows, Target(p), new))
  BY <1>2 DEF new
<1>8. QED BY <1>1, <1>4, <1>5, <1>6, <1>7, RewriteStages DEF row

LEMMA LogEventStages ==
  ASSUME IInv, NEW p \in Processes, LogEvent(p)
  PROVE  StagedBy(p)'
<1>1. /\ pc[p] = "log" /\ pc'[p] = "commit" /\ request' = request /\ read' = read
      /\ committed' = committed /\ StagedBy(p)
  BY DEF IInv, TypeInv, StagedInv, LogEvent, Move, Goto, Change, Write, local
<1>2. /\ staged'.rows = staged.rows
      /\ staged'.events = Append(committed.events,
                                 NewEvent(p, staged.rows[Target(p)]))
      /\ staged'.runs = staged.runs /\ staged'.files = staged.files
  BY LogEventChange
<1>3. /\ Target(p)' = Target(p) /\ Op(p)' = Op(p) /\ NewText(p)' = NewText(p)
      /\ TellsStatus(p)' = TellsStatus(p) /\ TellsVersion(p)' = TellsVersion(p)
  BY <1>1 DEF Target, Op, NewText, SetsText, TellsStatus, TellsVersion, Adding
<1>4. NewEvent(p, staged.rows[Target(p)])' = NewEvent(p, staged.rows[Target(p)])
  BY <1>2, <1>3 DEF NewEvent
<1>5. /\ Touched(p) /\ Kept(staged.rows) /\ Linked(staged.rows)
      /\ staged.runs = committed.runs /\ staged.files = committed.files
  BY <1>1 DEF StagedBy, Changing
<1>6. Touched(p)'
  BY <1>1, <1>2, <1>3, <1>5 DEF Touched
<1>7. QED BY <1>1, <1>2, <1>4, <1>5, <1>6 DEF StagedBy

LEMMA StagedPreserved ==
  ASSUME IInv, [Next]_vars
  PROVE  StagedInv'
<1>1. TypeInv /\ LockInv /\ StagedInv
  BY DEF IInv
<1>2. ASSUME NEW q \in Processes, pc'[q] \notin Changing
      PROVE  StagedBy(q)'
  BY <1>2 DEF StagedBy, Changing
<1>3. ASSUME NEW q \in Processes, pc'[q] = pc[q], read'[q] = read[q],
             UNCHANGED <<file, request>>
      PROVE  StagedBy(q)'
  <2>1. /\ Target(q)' = Target(q) /\ Op(q)' = Op(q) /\ NewText(q)' = NewText(q)
        /\ TellsStatus(q)' = TellsStatus(q) /\ TellsVersion(q)' = TellsVersion(q)
        /\ Adding(q)' = Adding(q) /\ NewRow(q)' = NewRow(q) /\ Linking(q)' = Linking(q)
    BY <1>3 DEF Target, Op, NewText, SetsText, TellsStatus, TellsVersion, Adding,
                NewRow, Linking
  <2>2. StagedBy(q) /\ committed' = committed /\ staged' = staged
    BY <1>1, <1>3 DEF StagedInv, file
  <2>3. Touched(q)' = Touched(q)
    BY <1>3, <2>1, <2>2 DEF Touched
  <2>4. NewEvent(q, staged.rows[Target(q)])' = NewEvent(q, staged.rows[Target(q)])
    BY <2>1, <2>2 DEF NewEvent
  <2>5. QED BY <1>3, <2>1, <2>2, <2>3, <2>4 DEF StagedBy
<1>4. ASSUME NEW p \in Processes, Step(p) \/ Fails(p)
      PROVE  StagedInv'
  <2>1. ASSUME NEW q \in Processes \ {p}
        PROVE  StagedBy(q)'
    <3>1. pc'[q] = pc[q] /\ read'[q] = read[q] /\ request' = request
      BY <1>1, <1>4, Frame
    <3>2. CASE q \in writer
      BY <1>1, <1>3, <1>4, <3>1, <3>2, Frame
    <3>3. CASE q \notin writer
      BY <1>1, <1>2, <3>1, <3>3 DEF LockInv
    <3>4. QED BY <3>2, <3>3
  <2>2. StagedBy(p)'
    <3>1. CASE BeginTransaction(p) \/ Insert(p) \/ ReadLinks(p) \/ WriteLinks(p)
               \/ Update(p) \/ SetStatus(p) \/ LogEvent(p)
      BY <3>1, BeginStages, InsertStages, ReadLinksStages, WriteLinksStages,
         UpdateStages, SetStatusStages, LogEventStages
    <3>2. CASE \/ SkipIndex(p) \/ Scan(p) \/ ClearIndex(p) \/ FillIndex(p)
               \/ CommitTransaction(p) \/ Missing(p) \/ Select(p) \/ InsertFails(p)
               \/ Output(p) \/ Fails(p)
      <4>1. pc'[p] \notin Changing
        BY <1>1, <3>2 DEF SkipIndex, Scan, ClearIndex, FillIndex, CommitTransaction,
          Missing, Select, InsertFails, Output, Fails, Tell, Move, Goto, TypeInv, Changing
      <4>2. QED BY <1>2, <4>1
    <3>3. QED BY <1>4, <3>1, <3>2 DEF Step
  <2>3. QED BY <2>1, <2>2 DEF StagedInv
<1>5. CASE Edit \/ UNCHANGED vars
  <2>1. UNCHANGED <<file, request, pc, read>>
    BY <1>5 DEF Edit, vars, local
  <2>2. QED BY <1>3, <2>1 DEF StagedInv
<1>6. QED BY <1>4, <1>5 DEF Next, Done

(***************************************************************************)
(* The code index.                                                         *)
(***************************************************************************)

LEMMA CommitKeepsIndex ==
  ASSUME IInv, NEW p \in Processes, CommitTransaction(p), pc[p] = "commit"
  PROVE  committed'.runs = committed.runs /\ committed'.files = committed.files
BY DEF CommitTransaction, Commit, IInv, StagedInv, StagedBy, Changing

LEMMA CommitExtendsIndex ==
  ASSUME IInv, NEW p \in Processes, CommitTransaction(p), pc[p] = "filled"
  PROVE  LET n == Len(committed.runs)
         IN  /\ n \in Nat /\ DOMAIN committed.runs = 1..n
             /\ DOMAIN committed'.runs = 1..n+1 /\ Len(committed'.runs) = n + 1
             /\ \A i \in 1..n : committed'.runs[i] = committed.runs[i]
             /\ committed'.runs[n+1] = scan[p]
             /\ committed'.files = {[run |-> n + 1, seen |-> scan[p].seen]}
<1>1. committed.runs \in Seq(Scans)
  BY DEF IInv, TypeInv, Contained
<1>2. /\ committed'.runs = Append(committed.runs, scan[p])
      /\ committed'.files = {[run |-> Len(committed'.runs), seen |-> scan[p].seen]}
  BY DEF CommitTransaction, Commit, IInv, IndexInv, Refreshing
<1>3. QED BY <1>1, <1>2, AppendLen

\* Runs are only added to the index.
LEMMA RunsGrow ==
  ASSUME IInv, [Next]_vars
  PROVE  /\ Len(committed.runs) \in Nat /\ Len(committed'.runs) \in Nat
         /\ Len(committed.runs) <= Len(committed'.runs)
         /\ \A i \in 1..Len(committed.runs) : committed'.runs[i] = committed.runs[i]
         /\ disk \in Nat /\ disk' \in Nat /\ disk <= disk'
<1>1. TypeInv /\ LockInv /\ Len(committed.runs) \in Nat /\ disk \in Nat
  BY EditsAssumption DEF IInv, TypeInv, Contained
<1>2. ASSUME NEW p \in Processes, Step(p) \/ Fails(p)
      PROVE  /\ Len(committed'.runs) \in Nat /\ disk' = disk
             /\ Len(committed.runs) <= Len(committed'.runs)
             /\ \A i \in 1..Len(committed.runs) : committed'.runs[i] = committed.runs[i]
  <2>1. disk' = disk
    BY <1>1, <1>2, Frame
  <2>2. CASE committed' = committed
    BY <1>1, <2>1, <2>2
  <2>3. CASE CommitTransaction(p) /\ pc[p] = "commit"
    BY <1>1, <2>1, <2>3, CommitKeepsIndex
  <2>4. CASE CommitTransaction(p) /\ pc[p] = "filled"
    BY <1>1, <2>1, <2>4, CommitExtendsIndex
  <2>5. QED BY <1>1, <1>2, <2>2, <2>3, <2>4, CommitOnly
<1>3. CASE Edit \/ UNCHANGED vars
  BY <1>1, <1>3, EditsAssumption DEF Edit, vars, file
<1>4. QED BY <1>1, <1>2, <1>3 DEF Next, Done

LEMMA IndexedPreserved ==
  ASSUME IInv, [Next]_vars
  PROVE  Indexed(committed)'
<1>1. TypeInv /\ LockInv /\ Indexed(committed)
  BY DEF IInv, IndexInv
<1>2. disk \in Nat /\ disk' \in Nat /\ disk <= disk' /\ Len(committed.runs) \in Nat
  BY RunsGrow
<1>3. committed.runs \in Seq(Scans)
  BY <1>1 DEF TypeInv, Contained
<1>4. \A i \in DOMAIN committed.runs : committed.runs[i].seen \in Nat
  <2>1. \A i \in DOMAIN committed.runs : committed.runs[i] \in Scans
    BY <1>3
  <2>2. \A s \in Scans : s.seen \in Nat
    BY EditsAssumption DEF Scans
  <2>3. QED BY <2>1, <2>2
<1>5. CASE committed'.runs = committed.runs /\ committed'.files = committed.files
  BY <1>1, <1>2, <1>4, <1>5 DEF Indexed
<1>6. ASSUME NEW p \in Processes, CommitTransaction(p), pc[p] = "filled"
      PROVE  Indexed(committed)'
  <2> DEFINE n == Len(committed.runs)
  <2>1. /\ n \in Nat /\ DOMAIN committed.runs = 1..n
        /\ DOMAIN committed'.runs = 1..n+1 /\ Len(committed'.runs) = n + 1
        /\ \A i \in 1..n : committed'.runs[i] = committed.runs[i]
        /\ committed'.runs[n+1] = scan[p]
        /\ committed'.files = {[run |-> n + 1, seen |-> scan[p].seen]}
    BY <1>6, CommitExtendsIndex
  <2>2. Scanned(p)
    BY DEF IInv, IndexInv
  <2>3. scan[p].seen \in Nat
    BY <1>1, EditsAssumption DEF TypeInv, Scans
  <2> HIDE DEF n
  <2>4. scan[p].after \in 0..n
    BY <2>2 DEF Scanned, n
  <2>5. \A i \in 1..n : /\ committed.runs[i].after \in 0..n
                        /\ committed.runs[i].seen <= disk
                        /\ \A j \in 1..committed.runs[i].after :
                             committed.runs[j].seen <= committed.runs[i].seen
    BY <1>1, <2>1 DEF Indexed, n
  <2>6. ASSUME NEW i \in 1..n+1
        PROVE  /\ committed'.runs[i].after \in 0..n+1
               /\ committed'.runs[i].seen <= disk'
               /\ \A j \in 1..committed'.runs[i].after :
                    committed'.runs[j].seen <= committed'.runs[i].seen
    <3>1. CASE i = n + 1
      <4>1. committed'.runs[i] = scan[p]
        BY <2>1, <3>1
      <4>2. /\ scan[p].after \in 0..n+1 /\ scan[p].seen <= disk'
            /\ \A j \in 1..scan[p].after : j \in 1..n
        BY <1>2, <2>1, <2>2, <2>3, <2>4 DEF Scanned
      <4>3. \A j \in 1..scan[p].after : committed'.runs[j].seen <= scan[p].seen
        BY <2>1, <2>2, <4>2 DEF Scanned
      <4>4. QED BY <4>1, <4>2, <4>3
    <3>2. CASE i \in 1..n
      <4>1. committed'.runs[i] = committed.runs[i] /\ committed.runs[i].seen \in Nat
        BY <1>4, <2>1, <3>2
      <4>2. /\ committed.runs[i].after \in 0..n+1 /\ committed.runs[i].seen <= disk'
            /\ \A j \in 1..committed.runs[i].after : j \in 1..n
        BY <1>2, <2>1, <2>5, <3>2, <4>1
      <4>3. \A j \in 1..committed.runs[i].after :
              committed'.runs[j].seen <= committed.runs[i].seen
        BY <2>1, <2>5, <3>2, <4>2
      <4>4. QED BY <4>1, <4>2, <4>3
    <3>3. QED BY <2>1, <3>1, <3>2, SMTT(30)
  <2>7. /\ committed'.files = {[run  |-> Len(committed'.runs),
                                seen |-> committed'.runs[Len(committed'.runs)].seen]}
        /\ committed'.runs # <<>>
    BY <2>1
  <2>8. QED BY <2>1, <2>6, <2>7 DEF Indexed
<1>7. ASSUME NEW p \in Processes, Step(p) \/ Fails(p)
      PROVE  Indexed(committed)'
  BY <1>1, <1>5, <1>6, <1>7, CommitOnly, CommitKeepsIndex
<1>8. CASE Edit \/ UNCHANGED vars
  BY <1>5, <1>8 DEF Edit, vars, file
<1>9. QED BY <1>7, <1>8 DEF Next, Done

LEMMA IndexPreserved ==
  ASSUME IInv, [Next]_vars
  PROVE  IndexInv'
<1>1. TypeInv /\ LockInv /\ Indexed(committed) /\ IndexInv
  BY DEF IInv, IndexInv
<1>2. ASSUME NEW q \in Processes, scan'[q] = scan[q]
      PROVE  Scanned(q)'
  <2>1. Scanned(q)
    BY <1>1 DEF IndexInv
  <2>2. scan[q].seen \in Nat /\ scan[q].after \in Nat
    BY <1>1, EditsAssumption DEF TypeInv, Scans
  <2>3. QED BY <1>2, <2>1, <2>2, RunsGrow, SMTT(30) DEF Scanned
<1>3. ASSUME NEW q \in Processes, scan'[q] = NoScan
      PROVE  Scanned(q)'
  BY <1>3, RunsGrow DEF Scanned, NoScan
<1>4. ASSUME NEW q \in Processes, pc'[q] \notin Indexing
      PROVE  Refreshing(q)'
  BY <1>4 DEF Refreshing, Indexing
<1>5. ASSUME NEW q \in Processes, pc'[q] = pc[q], scan'[q] = scan[q], UNCHANGED file
      PROVE  Refreshing(q)'
  <2>1. Refreshing(q) /\ committed' = committed /\ staged' = staged
    BY <1>1, <1>5 DEF IndexInv, file
  <2>2. QED BY <1>5, <2>1 DEF Refreshing
<1>6. ASSUME NEW p \in Processes, Step(p) \/ Fails(p)
      PROVE  \A q \in Processes : Scanned(q)' /\ Refreshing(q)'
  <2>1. ASSUME NEW q \in Processes \ {p}
        PROVE  Scanned(q)' /\ Refreshing(q)'
    <3>1. pc'[q] = pc[q] /\ scan'[q] = scan[q]
      BY <1>1, <1>6, Frame
    <3>2. CASE q \in writer
      BY <1>1, <1>2, <1>5, <1>6, <3>1, <3>2, Frame
    <3>3. CASE q \notin writer
      BY <1>1, <1>2, <1>4, <3>1, <3>3 DEF LockInv
    <3>4. QED BY <3>2, <3>3
  <2>2. Scanned(p)'
    <3>1. CASE Scan(p)
      <4>1. scan'[p] = [seen |-> disk, after |-> Len(committed.runs)]
            /\ committed' = committed /\ disk' = disk
        BY <1>1, <3>1 DEF Scan, Seen, TypeInv, file
      <4>2. Len(committed.runs) \in Nat /\ disk \in Nat
        BY RunsGrow
      <4>3. \A j \in 1..Len(committed.runs) : committed.runs[j].seen <= disk
        BY <1>1, <4>2 DEF Indexed, TypeInv, Contained
      <4>4. QED BY <4>1, <4>2, <4>3 DEF Scanned
    <3>2. CASE scan'[p] = scan[p]
      BY <1>2, <3>2
    <3>3. CASE scan'[p] = NoScan
      BY <1>3, <3>3
    <3>4. Scan(p) \/ scan'[p] = scan[p] \/ scan'[p] = NoScan
      BY <1>1, <1>6 DEF Step, Fails, SkipIndex, ClearIndex, FillIndex, BeginTransaction,
        CommitTransaction, Missing, Select, Insert, InsertFails, ReadLinks, ReadRow,
        WriteLinks, Update, SetStatus, LogEvent, Output, Change, Tell, local, TypeInv
    <3>5. QED BY <3>1, <3>2, <3>3, <3>4
  <2>3. Refreshing(p)'
    <3> USE DEF Move, Goto
    <3>1. CASE BeginTransaction(p)
      <4>1. /\ staged' = committed' /\ pc'[p] \in {"clear", "write"}
        BY <1>1, <3>1 DEF BeginTransaction, Begin, LockInv, TypeInv
      <4>2. QED BY <4>1 DEF Refreshing
    <3>2. CASE ClearIndex(p)
      <4>1. /\ IndexChange(Append(staged.runs, scan[p]), {})
            /\ staged = committed /\ committed' = committed /\ scan' = scan
            /\ pc'[p] = "fill"
        BY <1>1, <3>2, ClearIndexChange DEF ClearIndex, Change, Write, local, LockInv,
           TypeInv
      <4>2. QED BY <4>1 DEF IndexChange, Refreshing
    <3>3. CASE FillIndex(p)
      <4>1. /\ IndexChange(staged.runs, staged.files \cup
                 {[run |-> Len(staged.runs), seen |-> scan[p].seen]})
            /\ committed' = committed /\ scan' = scan
            /\ pc[p] = "fill" /\ pc'[p] = "filled"
        BY <1>1, <3>3, FillIndexChange DEF FillIndex, Change, Write, local, TypeInv
      <4>2. /\ staged.rows = committed.rows /\ staged.events = committed.events
            /\ staged.runs = Append(committed.runs, scan[p]) /\ staged.files = {}
        BY <1>1, <4>1 DEF IndexInv, Refreshing, Indexing
      <4>3. QED BY <4>1, <4>2 DEF IndexChange, Refreshing
    <3>4. CASE ~BeginTransaction(p) /\ ~ClearIndex(p) /\ ~FillIndex(p)
      <4>1. pc'[p] \notin Indexing
        BY <1>1, <1>6, <3>4 DEF Step, Fails, SkipIndex, Scan, CommitTransaction, Missing,
          Select, Insert, InsertFails, ReadLinks, WriteLinks, Update, SetStatus,
          LogEvent, Output, Tell, TypeInv, Indexing
      <4>2. QED BY <1>4, <4>1
    <3>5. QED BY <3>1, <3>2, <3>3, <3>4
  <2>4. QED BY <2>1, <2>2, <2>3
<1>7. CASE Edit \/ UNCHANGED vars
  <2>1. UNCHANGED <<file, pc, scan>>
    BY <1>7 DEF Edit, vars, local
  <2>2. QED BY <1>2, <1>5, <2>1, IndexedPreserved DEF IndexInv
<1>8. QED BY <1>6, <1>7, IndexedPreserved DEF Next, Done, IndexInv

(***************************************************************************)
(* What a command adds agrees with the log.                                *)
(***************************************************************************)

LEMMA AfterAppend ==
  ASSUME NEW S, NEW events \in Seq(S), NEW e
  PROVE  LET n     == Len(events)
             after == Append(events, e)
         IN  /\ n \in Nat /\ DOMAIN events = 1..n /\ DOMAIN after = 1..n+1
             /\ \A i \in 1..n : after[i] = events[i]
             /\ after[n+1] = e
             /\ \A i \in 1..n : After(events, i) \subseteq 1..n
             /\ \A i \in 1..n : After(after, i) =
                  After(events, i) \cup (IF e.id = events[i].id THEN {n+1} ELSE {})
             /\ After(after, n+1) = {}
<1> DEFINE n     == Len(events)
           after == Append(events, e)
<1>1. /\ n \in Nat /\ DOMAIN events = 1..n /\ DOMAIN after = 1..n+1
      /\ \A i \in 1..n : after[i] = events[i]
      /\ after[n+1] = e /\ Len(after) = n + 1
  BY AppendLen
<1> HIDE DEF n, after
<1>2. \A i \in 1..n : After(events, i) \subseteq 1..n
  BY <1>1 DEF After, n
<1>3. ASSUME NEW i \in 1..n
      PROVE  After(after, i) =
               After(events, i) \cup (IF e.id = events[i].id THEN {n+1} ELSE {})
  <2>1. After(after, i) = {j \in i+1..n+1 : after[j].id = events[i].id}
    BY <1>1 DEF After
  <2>2. After(events, i) = {j \in i+1..n : events[j].id = events[i].id}
    BY DEF After, n
  <2>3. \A j : j \in i+1..n+1 <=> j \in i+1..n \/ j = n+1
    BY <1>1
  <2>4. \A j \in i+1..n : after[j] = events[j]
    BY <1>1
  <2>5. n+1 \notin i+1..n
    BY <1>1
  <2>6. QED BY <1>1, <2>1, <2>2, <2>3, <2>4, <2>5
<1>4. After(after, n+1) = {}
  BY <1>1 DEF After
<1>5. QED BY <1>1, <1>2, <1>3, <1>4 DEF n, after

\* The rows and the events when the event of a command is committed.
LEMMA CommandCommits ==
  ASSUME IInv, NEW p \in Processes, CommitTransaction(p), pc[p] = "commit"
  PROVE  LET rows  == committed.rows
             rows2 == committed'.rows
             e     == NewEvent(p, rows2[Target(p)])
         IN  /\ committed'.events = Append(committed.events, e)
             /\ e.by = p /\ e.id = Target(p)
             /\ DOMAIN rows2 = DOMAIN rows \cup {Target(p)}
             /\ Op(p) = "add" <=> Target(p) \notin DOMAIN rows
             /\ \A id \in DOMAIN rows \ {Target(p)} :
                  /\ rows2[id].status = rows[id].status
                  /\ rows2[id].version = rows[id].version
                  /\ rows2[id].text = rows[id].text
             /\ IF TellsStatus(p) THEN e.status = {rows2[Target(p)].status}
                ELSE /\ e.status = {}
                     /\ Op(p) # "add" =>
                          rows2[Target(p)].status = rows[Target(p)].status
             /\ IF TellsVersion(p) THEN e.version = {rows2[Target(p)].version}
                ELSE /\ e.version = {}
                     /\ Op(p) # "add" =>
                          rows2[Target(p)].version = rows[Target(p)].version
             /\ Op(p) = "update" => rows2[Target(p)].text \in NewText(p)
             /\ Op(p) = "status" => rows2[Target(p)].text = rows[Target(p)].text
             /\ Kept(rows2) /\ Linked(rows2)
<1>1. committed' = staged /\ StagedBy(p) /\ TypeInv /\ p \notin DOMAIN committed.rows
  BY DEF CommitTransaction, Commit, IInv, StagedInv, LogInv, Committed
<1>2. /\ Touched(p) /\ Kept(staged.rows) /\ Linked(staged.rows)
      /\ staged.events = Append(committed.events, NewEvent(p, staged.rows[Target(p)]))
  BY <1>1 DEF StagedBy
<1>3. Op(p) = "add" => Target(p) = p
  BY <1>1, TargetFacts
<1>4. Op(p) # "add" => Target(p) \in DOMAIN committed.rows
  BY <1>1, TargetFacts DEF IInv, ReadInv, Changing
<1>5. \A row : /\ NewEvent(p, row).by = p /\ NewEvent(p, row).id = Target(p)
               /\ NewEvent(p, row).status = IF TellsStatus(p) THEN {row.status} ELSE {}
               /\ NewEvent(p, row).version =
                    IF TellsVersion(p) THEN {row.version} ELSE {}
  BY DEF NewEvent, Event
<1>6. QED BY <1>1, <1>2, <1>3, <1>4, <1>5 DEF Touched

LEMMA CommitTells ==
  ASSUME IInv, NEW p \in Processes, CommitTransaction(p), pc[p] = "commit"
  PROVE  Told(committed'.rows, committed'.events)
<1> DEFINE rows    == committed.rows
           rows2   == committed'.rows
           events  == committed.events
           events2 == committed'.events
           T       == Target(p)
           e       == NewEvent(p, rows2[T])
           n       == Len(events)
<1>1. events \in Seq(Events) /\ events2 = Append(events, e) /\ e.id = T
  BY CommandCommits DEF IInv, TypeInv, Contained
<1>2. /\ n \in Nat /\ DOMAIN events = 1..n /\ DOMAIN events2 = 1..n+1
      /\ \A i \in 1..n : events2[i] = events[i]
      /\ events2[n+1] = e
      /\ \A i \in 1..n : After(events, i) \subseteq 1..n
      /\ \A i \in 1..n : After(events2, i) =
           After(events, i) \cup (IF e.id = events[i].id THEN {n+1} ELSE {})
      /\ After(events2, n+1) = {}
  BY <1>1, AfterAppend
<1>3. /\ Told(rows, events)
      /\ \A i \in DOMAIN events : events[i].id \in DOMAIN rows
  BY DEF IInv, Consistent
<1>4. /\ Op(p) = "add" <=> T \notin DOMAIN rows
      /\ \A id \in DOMAIN rows \ {T} : rows2[id].status = rows[id].status
                                     /\ rows2[id].version = rows[id].version
      /\ IF TellsStatus(p) THEN e.status = {rows2[T].status}
         ELSE e.status = {} /\ (Op(p) # "add" => rows2[T].status = rows[T].status)
      /\ IF TellsVersion(p) THEN e.version = {rows2[T].version}
         ELSE e.version = {} /\ (Op(p) # "add" => rows2[T].version = rows[T].version)
  BY CommandCommits, ZenonT(30)
<1> HIDE DEF rows, rows2, events, events2, T, e, n
<1>5. ASSUME NEW i \in 1..n
      PROVE  /\ (\A j \in After(events2, i) : events2[j].status = {})
                  => events2[i].status \subseteq {rows2[events2[i].id].status}
             /\ (\A j \in After(events2, i) : events2[j].version = {})
                  => events2[i].version \subseteq {rows2[events2[i].id].version}
  <2>1. /\ events2[i] = events[i] /\ events[i].id \in DOMAIN rows
        /\ After(events, i) \subseteq After(events2, i)
        /\ \A j \in After(events, i) : events2[j] = events[j]
    BY <1>2, <1>3
  <2>2. /\ (\A j \in After(events, i) : events[j].status = {})
             => events[i].status \subseteq {rows[events[i].id].status}
        /\ (\A j \in After(events, i) : events[j].version = {})
             => events[i].version \subseteq {rows[events[i].id].version}
    BY <1>2, <1>3 DEF Told
  <2>3. CASE events[i].id # T
    BY <1>4, <2>1, <2>2, <2>3
  <2>4. CASE events[i].id = T
    <3>1. n+1 \in After(events2, i) /\ events2[n+1] = e /\ Op(p) # "add"
      BY <1>1, <1>2, <1>4, <2>1, <2>4
    <3>2. e.status = {} => rows2[T].status = rows[T].status
      BY <1>4, <3>1
    <3>3. e.version = {} => rows2[T].version = rows[T].version
      BY <1>4, <3>1
    <3>4. QED BY <2>1, <2>2, <2>4, <3>1, <3>2, <3>3
  <2>5. QED BY <2>3, <2>4
<1>6. /\ events2[n+1].status \subseteq {rows2[events2[n+1].id].status}
      /\ events2[n+1].version \subseteq {rows2[events2[n+1].id].version}
  BY <1>1, <1>2, <1>4
<1>7. \A i \in DOMAIN events2 : i \in 1..n \/ i = n+1
  BY <1>2
<1>8. Told(rows2, events2)
  BY <1>5, <1>6, <1>7 DEF Told
<1>9. QED BY <1>8 DEF rows2, events2

LEMMA CommitSticks ==
  ASSUME IInv, NEW p \in Processes, CommitTransaction(p), pc[p] = "commit"
  PROVE  Stuck(committed'.rows, committed'.events)
<1> DEFINE rows    == committed.rows
           rows2   == committed'.rows
           events  == committed.events
           events2 == committed'.events
           T       == Target(p)
           e       == NewEvent(p, rows2[T])
           n       == Len(events)
<1>1. /\ events \in Seq(Events) /\ events2 = Append(events, e)
      /\ e.id = T /\ e.by = p
  BY CommandCommits DEF IInv, TypeInv, Contained
<1>2. /\ n \in Nat /\ DOMAIN events = 1..n /\ DOMAIN events2 = 1..n+1
      /\ \A i \in 1..n : events2[i] = events[i]
      /\ events2[n+1] = e
      /\ \A i \in 1..n : After(events, i) \subseteq 1..n
      /\ \A i \in 1..n : After(events2, i) =
           After(events, i) \cup (IF e.id = events[i].id THEN {n+1} ELSE {})
      /\ After(events2, n+1) = {}
  BY <1>1, AfterAppend
<1>3. /\ Stuck(rows, events)
      /\ \A i \in DOMAIN events : events[i].id \in DOMAIN rows
  BY DEF IInv, Consistent
<1>4. /\ Op(p) = "add" <=> T \notin DOMAIN rows
      /\ \A id \in DOMAIN rows \ {T} : rows2[id].text = rows[id].text
      /\ Op(p) = "update" => rows2[T].text \in NewText(p)
      /\ Op(p) = "status" => rows2[T].text = rows[T].text
      /\ Op(p) \in {"add", "update", "status"}
  BY CommandCommits, TargetFacts DEF IInv
<1>5. Op(p) # "add" => \E old : read[p] = {old}
  BY DEF IInv, ReadInv, Changing
<1> HIDE DEF rows, rows2, events, events2, T, e, n
<1>6. ASSUME NEW i \in 1..n, events2[i].by \in Processes, SetsText(events2[i].by)
      PROVE  \/ rows2[events2[i].id].text = events2[i].by
             \/ \E j \in After(events2, i) :
                  events2[j].by \in Processes /\ Overrides(events2[j].by, events2[i].by)
  <2>1. /\ events2[i] = events[i] /\ events[i].id \in DOMAIN rows
        /\ After(events, i) \subseteq After(events2, i)
        /\ \A j \in After(events, i) : events2[j] = events[j]
    BY <1>2, <1>3
  <2>2. \/ rows[events[i].id].text = events[i].by
        \/ \E j \in After(events, i) :
             events[j].by \in Processes /\ Overrides(events[j].by, events[i].by)
    BY <1>2, <1>3, <1>6, <2>1 DEF Stuck
  <2>3. CASE \E j \in After(events, i) :
               events[j].by \in Processes /\ Overrides(events[j].by, events[i].by)
    BY <2>1, <2>3
  <2>4. CASE rows[events[i].id].text = events[i].by /\ events[i].id # T
    BY <1>4, <2>1, <2>4
  <2>5. CASE rows[events[i].id].text = events[i].by /\ events[i].id = T
    <3>1. n+1 \in After(events2, i) /\ events2[n+1].by = p /\ Op(p) # "add"
      BY <1>1, <1>2, <1>4, <2>1, <2>5
    <3>2. CASE Op(p) = "status"
      BY <1>4, <2>1, <2>5, <3>2
    <3>3. CASE Op(p) = "update" /\ SetsText(p)
      BY <3>1, <3>3 DEF Overrides
    <3>4. CASE Op(p) = "update" /\ ~SetsText(p)
      <4>1. PICK old : read[p] = {old}
        BY <1>5, <3>1
      <4>2. rows2[T].text = old.text
        BY <1>4, <3>4, <4>1 DEF NewText
      <4>3. CASE old.text = events[i].by
        BY <2>1, <2>5, <4>2, <4>3
      <4>4. CASE old.text # events[i].by
        BY <2>1, <3>1, <3>4, <4>1, <4>4 DEF Overrides
      <4>5. QED BY <4>3, <4>4
    <3>5. QED BY <1>4, <3>1, <3>2, <3>3, <3>4
  <2>6. QED BY <2>2, <2>3, <2>4, <2>5
<1>7. SetsText(p) => rows2[T].text = p
  BY <1>4 DEF NewText, SetsText
<1>8. SetsText(events2[n+1].by) => rows2[events2[n+1].id].text = events2[n+1].by
  BY <1>1, <1>2, <1>7
<1>9. \A i \in DOMAIN events2 : i \in 1..n \/ i = n+1
  BY <1>2
<1>10. Stuck(rows2, events2)
  BY <1>6, <1>8, <1>9 DEF Stuck
<1>11. QED BY <1>10 DEF rows2, events2

\* Whether an update sticks is not changed by what others read.
LEMMA StuckFrame ==
  ASSUME TypeInv', request' = request, Stuck(committed'.rows, committed'.events),
         \A i \in DOMAIN committed'.events :
           committed'.events[i].by \in Processes =>
             read'[committed'.events[i].by] = read[committed'.events[i].by]
  PROVE  Stuck(committed.rows, committed.events)'
<1> DEFINE rows   == committed'.rows
           events == committed'.events
<1>1. \A i \in DOMAIN events : After(events, i) \subseteq DOMAIN events
  <2>1. events \in Seq(Events)
    BY DEF TypeInv, Contained
  <2>2. QED BY <2>1 DEF After
<1>2. \A i \in DOMAIN events : events[i].by \in Processes => read'[events[i].by] = read[events[i].by]
  OBVIOUS
<1>3. Stuck(rows, events)
  OBVIOUS
<1> HIDE DEF rows, events
<1>4. \A i \in DOMAIN events :
        events[i].by \in Processes /\ SetsText(events[i].by) =>
          \/ rows[events[i].id].text = events[i].by
          \/ \E j \in After(events, i) :
               /\ events[j].by \in Processes
               /\ Op(events[j].by) = "update"
               /\ \/ SetsText(events[j].by)
                  \/ \A old \in read'[events[j].by] : old.text # events[i].by
  BY <1>1, <1>2, <1>3 DEF Stuck, Overrides
<1>5. QED BY <1>4 DEF Stuck, Overrides, SetsText, Op, rows, events, After

LEMMA ConsistentPreserved ==
  ASSUME IInv, [Next]_vars
  PROVE  Consistent(committed)'
<1>1. /\ TypeInv /\ LockInv /\ Consistent(committed) /\ TypeInv' /\ LogInv
  BY TypePreserved DEF IInv
<1>2. \A q \in Processes : pc[q] \notin Committed =>
        \A i \in DOMAIN committed.events : committed.events[i].by # q
  BY <1>1 DEF LogInv
<1>3. ASSUME committed'.rows = committed.rows, committed'.events = committed.events,
             request' = request,
             \A q \in Processes : read'[q] = read[q] \/ pc[q] \notin Committed
      PROVE  Consistent(committed)'
  <2>1. Stuck(committed.rows, committed.events)'
    BY <1>1, <1>2, <1>3, StuckFrame DEF Consistent
  <2>2. QED BY <1>1, <1>3, <2>1 DEF Consistent
<1>4. ASSUME NEW p \in Processes, CommitTransaction(p)
      PROVE  Consistent(committed)'
  <2>1. read' = read /\ request' = request
    BY <1>4 DEF CommitTransaction, Move
  <2>2. CASE pc[p] = "filled"
    BY <1>3, <1>4, <2>1, <2>2, CommitFacts
  <2>3. CASE pc[p] = "commit"
    <3>1. Kept(committed'.rows) /\ Linked(committed'.rows)
      BY <1>4, <2>3, CommandCommits
    <3>2. \A i \in DOMAIN committed'.events :
            committed'.events[i].id \in DOMAIN committed'.rows
      <4> DEFINE e == NewEvent(p, committed'.rows[Target(p)])
      <4>1. /\ committed'.events = Append(committed.events, e) /\ e.id = Target(p)
            /\ DOMAIN committed'.rows = DOMAIN committed.rows \cup {Target(p)}
            /\ committed.events \in Seq(Events)
        BY <1>1, <1>4, <2>3, CommandCommits DEF TypeInv, Contained
      <4> HIDE DEF e
      <4>2. \A i \in DOMAIN committed'.events :
              committed'.events[i] = e \/ (i \in DOMAIN committed.events
                /\ committed'.events[i] = committed.events[i])
        BY <4>1, AppendLen
      <4>3. QED BY <1>1, <4>1, <4>2 DEF Consistent
    <3>3. Told(committed'.rows, committed'.events)
      BY <1>4, <2>3, CommitTells
    <3>4. Stuck(committed.rows, committed.events)'
      BY <1>1, <1>4, <2>1, <2>3, CommitSticks, StuckFrame
    <3>5. QED BY <3>1, <3>2, <3>3, <3>4 DEF Consistent
  <2>4. QED BY <1>4, <2>2, <2>3, CommitFacts
<1>5. ASSUME NEW p \in Processes, Step(p) \/ Fails(p), ~CommitTransaction(p)
      PROVE  Consistent(committed)'
  <2>1. committed' = committed /\ request' = request
    BY <1>1, <1>5, CommitOnly, Frame
  <2>2. \A q \in Processes \ {p} : read'[q] = read[q]
    BY <1>1, <1>5, Frame
  <2>3. read'[p] = read[p] \/ pc[p] \in {"select", "link"}
    BY <1>1, <1>5 DEF Step, Fails, SkipIndex, Scan, ClearIndex, FillIndex,
      BeginTransaction, Missing, Select, Insert, InsertFails, ReadLinks,
      WriteLinks, Update, SetStatus, LogEvent, Output, Change, Tell, Move, local
  <2>4. QED BY <1>3, <2>1, <2>2, <2>3 DEF Committed
<1>6. CASE Edit \/ UNCHANGED vars
  BY <1>3, <1>6 DEF Edit, vars, file, local
<1>7. QED BY <1>4, <1>5, <1>6 DEF Next, Done

(***************************************************************************)
(* The ledger when the processes start.                                    *)
(***************************************************************************)

LEMMA FirstRowsFacts ==
  /\ DOMAIN FirstRows = Existing
  /\ \A id \in Existing :
       /\ FirstRows[id] \in Rows
       /\ FirstRows[id].kind = id /\ FirstRows[id].version = 1
       /\ FirstRows[id].node =
            IF id \in {"project", "node"} THEN {} ELSE {"node"}
       /\ id # "question" => FirstRows[id].status = "pending"
       /\ FirstRows[id].package = {}
  /\ FirstRows["node"].links = {"artifact", "question"}
<1> DEFINE project  == Row("project", {}, "old", "pending", {})
           node     == Row("node", {}, "old", "pending", {})
           artifact == Row("artifact", {"node"}, "old", "pending", {})
           question == Row("question", {"node"}, "old", "settled", {})
           decision == Row("decision", {"node"}, "old", "pending", {})
           linked   == [node EXCEPT !.links = {"artifact", "question"}]
<1>1. /\ DOMAIN FirstRows = Existing
      /\ FirstRows["project"] = project /\ FirstRows["node"] = linked
      /\ FirstRows["artifact"] = artifact /\ FirstRows["question"] = question
      /\ FirstRows["decision"] = decision
  BY DEF FirstRows, Existing
<1>2. /\ project \in Rows /\ node \in Rows /\ artifact \in Rows
      /\ question \in Rows /\ decision \in Rows
  BY RowFacts DEF Kinds, Statuses, OneOf
<1>3. /\ linked \in Rows /\ linked.kind = node.kind /\ linked.version = node.version
      /\ linked.node = node.node /\ linked.status = node.status
      /\ linked.package = node.package /\ linked.links = {"artifact", "question"}
  <2>1. {"artifact", "question"} \in SUBSET Ids
    BY DEF Ids, Existing
  <2> HIDE DEF node
  <2>2. QED BY <1>2, <2>1 DEF Rows
<1>4. /\ project.kind = "project" /\ node.kind = "node" /\ artifact.kind = "artifact"
      /\ question.kind = "question" /\ decision.kind = "decision"
      /\ project.node = {} /\ node.node = {} /\ artifact.node = {"node"}
      /\ question.node = {"node"} /\ decision.node = {"node"}
  BY DEF Row
<1>5. \A r \in {project, node, artifact, question, decision} :
        r.version = 1 /\ r.package = {} /\ r.status = IF r = question THEN "settled" ELSE "pending"
  BY <1>4 DEF Row
<1>6. question # project /\ question # node /\ question # artifact /\ question # decision
  BY <1>4
<1> HIDE DEF project, node, artifact, question, decision, linked
<1>7. QED BY <1>1, <1>2, <1>3, <1>4, <1>5, <1>6 DEF Existing

LEMMA FirstConsistent ==
  Contained(FirstContent) /\ Consistent(FirstContent)
<1>1. /\ FirstContent.rows = FirstRows /\ FirstContent.events = FirstEvents
      /\ FirstContent.runs = <<>> /\ FirstContent.files = {}
      /\ FirstContent = [rows |-> FirstRows, events |-> FirstEvents, runs |-> <<>>,
                         files |-> {}]
  BY DEF FirstContent
<1>2. /\ FirstEvents \in Seq(Events) /\ DOMAIN FirstEvents = 1..5
      /\ \A i \in 1..5 : /\ FirstEvents[i].id \in Existing
                         /\ FirstEvents[i].by = "earlier"
                         /\ FirstEvents[i].version = {}
                         /\ FirstEvents[i].status # {} =>
                              /\ FirstEvents[i].status = {"pending"}
                              /\ FirstEvents[i].id = "decision"
  <2>1. \A id \in Existing, s \in {{}, {"pending"}} : Event(id, "earlier", s, {}) \in Events
    BY DEF Event, Events, Ids, OneOf, Statuses
  <2>2. FirstEvents \in Seq(Events)
    BY <2>1 DEF FirstEvents, Existing
  <2>3. QED BY <2>2 DEF FirstEvents, Event, Existing
<1>3. FirstRows \in [DOMAIN FirstRows -> Rows]
  <2> DEFINE First(id) ==
         CASE id = "project"  -> Row("project", {}, "old", "pending", {})
           [] id = "node"     -> [Row("node", {}, "old", "pending", {})
                                   EXCEPT !.links = {"artifact", "question"}]
           [] id = "artifact" -> Row("artifact", {"node"}, "old", "pending", {})
           [] id = "question" -> Row("question", {"node"}, "old", "settled", {})
           [] id = "decision" -> Row("decision", {"node"}, "old", "pending", {})
  <2>1. FirstRows = [id \in Existing |-> First(id)]
    BY DEF FirstRows
  <2> HIDE DEF First
  <2>2. QED BY <2>1, FirstRowsFacts
<1>4. Contained(FirstContent)
  BY <1>1, <1>2, <1>3, FirstRowsFacts DEF Contained, Ids
<1>5. Kept(FirstRows)
  BY FirstRowsFacts DEF Kept
<1>6. Linked(FirstRows)
  BY FirstRowsFacts DEF Linked, Owned, Existing
<1>7. Told(FirstRows, FirstEvents)
  BY <1>2, FirstRowsFacts DEF Told
<1>8. Stuck(FirstRows, FirstEvents)
  BY <1>2, FreshIdsAssumption DEF Stuck
<1>9. QED BY <1>1, <1>2, <1>4, <1>5, <1>6, <1>7, <1>8, FirstRowsFacts DEF Consistent

LEMMA InitIInv ==
  ASSUME Init
  PROVE  IInv
<1>1. /\ committed = FirstContent /\ staged = FirstContent /\ writer = {}
      /\ \A p \in Processes : pc[p] = "start" /\ answer[p] = "none"
                              /\ scan[p] = NoScan
  BY DEF Init, OpenFile
<1>2. FirstContent.runs = <<>> /\ FirstContent.files = {}
      /\ FirstContent.events = FirstEvents /\ FirstContent.rows = FirstRows
  BY DEF FirstContent
<1>3. \A i \in DOMAIN FirstEvents : FirstEvents[i].by \notin Processes
  BY FreshIdsAssumption DEF FirstEvents, Event
<1>4. TypeInv
  BY <1>1, FirstConsistent, EditsAssumption
     DEF Init, TypeInv, NoScan, Scans, OneOf, Waiting
<1>5. LockInv
  BY <1>1 DEF LockInv, Indexing, Changing
<1>6. ReadInv
  BY <1>1 DEF ReadInv, Changing
<1>7. LogInv
  BY <1>1, <1>2, <1>3, FirstRowsFacts, FreshIdsAssumption DEF LogInv
<1>8. StagedInv
  BY <1>1 DEF StagedInv, StagedBy, Changing
<1>9. IndexInv
  <2>1. Indexed(committed)
    BY <1>1, <1>2 DEF Indexed
  <2>2. ASSUME NEW p \in Processes PROVE Scanned(p) /\ Refreshing(p)
    BY <1>1, <1>2 DEF Init, Scanned, Refreshing, NoScan, Indexing
  <2>3. QED BY <2>1, <2>2 DEF IndexInv
<1>10. QED BY <1>1, <1>4, <1>5, <1>6, <1>7, <1>8, <1>9, FirstConsistent DEF IInv

(***************************************************************************)
(* Theorems.                                                               *)
(***************************************************************************)

\* The lock, the reads and the log of every process fit the ledger in every
\* state, however the commands interleave and fail.
THEOREM Inductive == Spec => []IInv
<1>1. Init => IInv
  BY InitIInv
<1>2. IInv /\ [Next]_vars => IInv'
  BY TypePreserved, LockPreserved, ConsistentPreserved, ReadPreserved, LogPreserved,
     StagedPreserved, IndexPreserved DEF IInv
<1>3. QED BY <1>1, <1>2, PTL DEF Spec

\* Every variable has its type, and at most one process is in a transaction.
THEOREM TypeCorrect == Spec => []TypeOK
<1>1. IInv => TypeOK
  <2> SUFFICES ASSUME IInv PROVE TypeOK
    OBVIOUS
  <2>1. TypeInv /\ IndexInv
    BY DEF IInv
  <2>2. ASSUME NEW c, Contained(c),
               \A f \in c.files : f.run = Len(c.runs) /\ c.runs # <<>>
        PROVE  Content(c)
    <3>1. /\ DOMAIN c.rows \subseteq Ids /\ c.rows \in [DOMAIN c.rows -> Rows]
          /\ c.events \in Seq(Events) /\ c.runs \in Seq(Scans) /\ c.files \subseteq Files
      BY <2>2 DEF Contained
    <3>2. \A i \in DOMAIN c.events : c.events[i] \in Events
      BY <3>1
    <3>3. \A f \in c.files : f.run \in DOMAIN c.runs /\ f.seen \in 0..MaxEdits
      BY <2>2, <3>1 DEF Files
    <3>4. QED BY <3>1, <3>2, <3>3 DEF Content, Events
  <2>3. \A f \in committed.files : f.run = Len(committed.runs) /\ committed.runs # <<>>
    BY <2>1 DEF IndexInv, Indexed
  <2>4. \A f \in staged.files : f.run = Len(staged.runs) /\ staged.runs # <<>>
    <3>1. CASE staged.runs = committed.runs /\ staged.files = committed.files
      BY <2>3, <3>1
    <3>2. ASSUME NEW p \in writer
          PROVE  \/ staged.runs = committed.runs /\ staged.files = committed.files
                 \/ staged.files = {}
                 \/ /\ staged.files = {[run |-> Len(staged.runs), seen |-> scan[p].seen]}
                    /\ staged.runs = Append(committed.runs, scan[p])
      <4>1. p \in Processes /\ pc[p] \in Indexing \cup Changing
        BY <2>1, <3>2 DEF TypeInv, OneOf, IInv, LockInv
      <4>2. StagedBy(p) /\ Refreshing(p)
        BY <4>1 DEF IInv, StagedInv, IndexInv
      <4>3. QED BY <4>1, <4>2 DEF IInv, LockInv, StagedBy, Refreshing, Indexing
    <3>3. ASSUME NEW p \in writer, staged.runs = Append(committed.runs, scan[p])
          PROVE  staged.runs # <<>>
      <4>1. committed.runs \in Seq(Scans)
        BY <2>1 DEF TypeInv, Contained
      <4>2. Len(staged.runs) # 0
        BY <3>3, <4>1, AppendLen
      <4>3. QED BY <4>2
    <3>4. CASE writer = {}
      BY <3>1, <3>4 DEF IInv, LockInv
    <3>5. QED BY <3>1, <3>2, <3>3, <3>4
  <2>5. Content(committed) /\ Content(staged)
    BY <2>1, <2>2, <2>3, <2>4 DEF TypeInv
  <2>6. QED BY <2>1, <2>5 DEF TypeInv, TypeOK, Scans
<1>2. QED BY <1>1, Inductive, PTL

\* A node lists exactly its artifacts, questions and package: no link is lost
\* or left behind by concurrent commands (update_node_links).
THEOREM LinksAreKept == Spec => []LinksAreExact
<1>1. IInv => LinksAreExact
  BY DEF IInv, Consistent, Linked, Owned, LinksAreExact
<1>2. QED BY <1>1, Inductive, PTL

\* What the event log told last of a row's status and version is what the row
\* says (append_event in each command).
THEOREM EventsAgree == Spec => []EventsTellState
<1>1. IInv => EventsTellState
  BY DEF IInv, Consistent, Told, After, EventsTellState
<1>2. QED BY <1>1, Inductive, PTL

\* The code index is that of the last run, whole, and never older than a run
\* that was committed before its scan (refresh_code_index).
THEOREM IndexStaysWhole == Spec => []IndexIsWhole
<1>1. IInv => IndexIsWhole
  BY DEF IInv, IndexInv, Indexed, IndexIsWhole
<1>2. QED BY <1>1, Inductive, PTL

\* A text that an update sets is only lost to an update that had read the row
\* before, or that sets it again.
THEOREM UpdatesAreKept == Spec => []UpdatesStick
<1>1. IInv => UpdatesStick
  <2> SUFFICES ASSUME IInv PROVE UpdatesStick
    OBVIOUS
  <2>1. Stuck(committed.rows, committed.events)
    BY DEF IInv, Consistent
  <2>2. QED BY <2>1 DEF Stuck, After, Overrides, SetsText, UpdatesStick
<1>2. QED BY <1>1, Inductive, PTL

\* Audited is what AuditIsComplete says of one step.
Audited ==
  /\ SubSeq(committed'.events, 1, Len(committed.events)) = committed.events
  /\ committed'.rows # committed.rows =>
       LET e       == committed'.events[Len(committed'.events)]
           changed == {id \in DOMAIN committed'.rows :
                         id \notin DOMAIN committed.rows
                           \/ committed'.rows[id] # committed.rows[id]}
       IN  /\ Len(committed'.events) = Len(committed.events) + 1
           /\ e.by \in writer
           /\ changed \subseteq {e.id} \cup committed'.rows[e.id].node
  /\ \A p \in Processes : answer'[p] \in {"ok", "missing"} =>
       (answer'[p] = "ok") =
         (\E i \in DOMAIN committed'.events : committed'.events[i].by = p)

LEMMA EventsOnlyAppended ==
  ASSUME NEW S, NEW s \in Seq(S), NEW e \in S
  PROVE  SubSeq(s, 1, Len(s)) = s /\ SubSeq(Append(s, e), 1, Len(s)) = s
<1>1. Len(s) \in Nat /\ Append(s, e) \in Seq(S) /\ Len(Append(s, e)) = Len(s) + 1
  BY AppendProperties, LenProperties
<1>2. \A t \in Seq(S) : Len(s) <= Len(t) /\ (\A i \in 1..Len(s) : t[i] = s[i])
        => SubSeq(t, 1, Len(s)) = s
  OBVIOUS
<1>3. QED BY <1>1, <1>2, AppendLen

\* The log is append-only and complete, in every step of every behaviour.
THEOREM AuditHolds == Spec => AuditIsComplete
<1>1. IInv /\ IInv' /\ [Next]_vars => Audited
  <2> SUFFICES ASSUME IInv, IInv', [Next]_vars PROVE Audited
    OBVIOUS
  <2>1. TypeInv /\ LockInv /\ LogInv'
    BY DEF IInv
  <2>2. committed.events \in Seq(Events)
    BY <2>1 DEF TypeInv, Contained
  <2>3. ASSUME NEW p \in Processes, answer'[p] \in {"ok", "missing"}
        PROVE  (answer'[p] = "ok") =
                 (\E i \in DOMAIN committed'.events : committed'.events[i].by = p)
    <3>1. CASE answer'[p] = "ok"
      BY <2>1, <3>1 DEF LogInv
    <3>2. CASE answer'[p] = "missing"
      BY <2>1, <3>2 DEF LogInv
    <3>3. QED BY <2>3, <3>1, <3>2
  <2>4. ASSUME committed'.rows = committed.rows, committed'.events = committed.events
        PROVE  Audited
    <3>1. SubSeq(committed.events, 1, Len(committed.events)) = committed.events
      BY <2>2
    <3>2. QED BY <2>3, <2>4, <3>1 DEF Audited
  <2>5. ASSUME NEW p \in Processes, CommitTransaction(p), pc[p] = "commit"
        PROVE  Audited
    <3> DEFINE e == NewEvent(p, committed'.rows[Target(p)])
    <3>1. /\ committed'.events = Append(committed.events, e)
          /\ e.by = p /\ e.id = Target(p)
      BY <2>5, CommandCommits
    <3>2. committed' = staged /\ Touched(p) /\ p \in writer
      <4>1. committed' = staged /\ p \in writer
        BY <2>5 DEF CommitTransaction, Commit
      <4>2. Touched(p)
        BY <2>5 DEF IInv, StagedInv, StagedBy
      <4>3. QED BY <4>1, <4>2
    <3>3. {id \in DOMAIN committed'.rows : id \notin DOMAIN committed.rows
             \/ committed'.rows[id] # committed.rows[id]}
            \subseteq {Target(p)} \cup committed'.rows[Target(p)].node
      BY <3>2 DEF Touched
    <3>4. e \in Events
      <4>1. committed'.rows[Target(p)] \in Rows
        BY <3>2 DEF Touched, IInv, TypeInv, Contained
      <4>2. Target(p) \in Ids
        BY <2>1, TargetFacts
      <4>3. QED BY <4>1, <4>2 DEF NewEvent, Event, Events, Rows, OneOf
    <3> HIDE DEF e
    <3>5. /\ SubSeq(committed'.events, 1, Len(committed.events)) = committed.events
          /\ Len(committed'.events) = Len(committed.events) + 1
          /\ committed'.events[Len(committed'.events)] = e
      BY <2>2, <3>1, <3>4, EventsOnlyAppended, AppendLen
    <3>6. QED BY <2>3, <3>1, <3>2, <3>3, <3>5 DEF Audited
  <2>6. ASSUME NEW p \in Processes, Step(p) \/ Fails(p)
        PROVE  Audited
    <3>1. CASE CommitTransaction(p) /\ pc[p] = "filled"
      BY <2>4, <3>1, CommitFacts
    <3>2. CASE CommitTransaction(p) /\ pc[p] = "commit"
      BY <2>5, <3>2
    <3>3. CASE committed' = committed
      BY <2>4, <3>3
    <3>4. QED BY <2>1, <2>6, <3>1, <3>2, <3>3, CommitOnly
  <2>7. CASE Edit \/ UNCHANGED vars
    BY <2>4, <2>7 DEF Edit, vars, file
  <2>8. QED BY <2>6, <2>7 DEF Next, Done
<1>2. IInv /\ IInv' /\ [Next]_vars => [Audited]_<<committed, answer>>
  BY <1>1
<1>3. QED BY <1>2, Inductive, PTL DEF Spec, AuditIsComplete, Audited
==============================================================================

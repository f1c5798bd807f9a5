---------------------------- MODULE DecisionLedger ----------------------------
(***************************************************************************)
(* Concurrent invocations of the autoswe CLI on one ledger.  Each process  *)
(* refreshes the code index (main, refresh_code_index) and then runs one   *)
(* command: it reads with SELECTs outside a transaction, takes the write   *)
(* lock with its first INSERT or UPDATE, logs an event and commits.        *)
(*                                                                         *)
(* The commands of all tables have the same shape, so a row is a record    *)
(* with the columns of every kind.  A process that adds a row gives it its *)
(* own name as id, and texts are told apart by who wrote them.  Commands   *)
(* that only read are the subject of Resume.                               *)
(***************************************************************************)
EXTENDS SqliteFile, Naturals, Sequences

CONSTANTS
  Processes,
  MaxEdits         \* bound: changes of the workspace while processes run

ASSUME EditsAssumption == MaxEdits \in Nat

VARIABLES
  request,         \* command line of each process
  pc,
  disk,            \* revision of the files in the workspace
  scan,            \* what generate_code_map observed, and after which runs
  read,            \* row the process has read: empty or a singleton
  answer

local == <<scan, read, answer>>
vars  == <<file, request, pc, disk, local>>

Existing == {"project", "node", "artifact", "question", "decision"}
Nowhere  == "nowhere"          \* an id that no row has
Ids      == Existing \cup Processes
OneOf(S) == {{}} \cup {{x} : x \in S}

\* The ids of new rows are new (--node-id and the like, or new_id).
ASSUME FreshIdsAssumption ==
  Processes \cap (Existing \cup {Nowhere, "earlier"}) = {}

\* Statuses of every kind: todo, draft, proposed, active are pending; done,
\* approved, accepted, archived, resolved are settled.
Statuses == {"pending", "settled"}

Row(kind, node, text, status, depends) ==
  [kind |-> kind, node |-> node, text |-> text, status |-> status, version |-> 1,
   links |-> {}, package |-> {}, depends |-> depends]

Event(id, by, status, version) ==
  [id |-> id, by |-> by, status |-> status, version |-> version]

(***************************************************************************)
(* Command lines.                                                          *)
(***************************************************************************)

Add(kind, node, status, depends) ==
  [op |-> "add", row |-> [kind |-> kind, node |-> node, status |-> status,
                          depends |-> depends]]

\* decision record, artifact add, question record, constraint-package create,
\* node create and project init; depends_on is any JSON list.
Adds ==
  {Add("decision", n, s, {}) : n \in OneOf({"node"}), s \in Statuses} \cup
  {Add("artifact", n, "pending", {}) : n \in OneOf({"node"})} \cup
  {Add("question", n, "settled", {}) : n \in OneOf({"node"})} \cup
  {Add("package", {"node"}, "pending", {})} \cup
  {Add("node", {}, "pending", d) : d \in SUBSET {"node", Nowhere}} \cup
  {Add("project", {}, "pending", {})}

\* The columns an update command can set.
Columns(id) ==
  CASE id = "project"  -> {"text", "status"}
    [] id = "node"     -> {"text", "depends"}
    [] id = "artifact" -> {"text", "version"}
    [] id = "decision" -> {"text"}

Updates ==
  UNION {[op : {"update"}, target : {id}, sets : SUBSET Columns(id)]
           : id \in {"project", "node", "artifact", "decision"}}

\* The update-status commands and question resolve, also of rows that another
\* process adds.
StatusUpdates ==
  [op : {"status"}, target : {"node", "artifact", "decision"} \cup Processes,
   status : Statuses] \cup
  [op : {"status"}, target : {"question"}, status : {"settled"}]

Requests == Adds \cup Updates \cup StatusUpdates

(***************************************************************************)
(* The ledger when the processes start: a project with one node, which has *)
(* an artifact, a question and a decision.                                 *)
(***************************************************************************)

FirstRows ==
  [id \in Existing |->
     CASE id = "project"  -> Row("project", {}, "old", "pending", {})
       [] id = "node"     -> [Row("node", {}, "old", "pending", {})
                               EXCEPT !.links = {"artifact", "question"}]
       [] id = "artifact" -> Row("artifact", {"node"}, "old", "pending", {})
       [] id = "question" -> Row("question", {"node"}, "old", "settled", {})
       [] id = "decision" -> Row("decision", {"node"}, "old", "pending", {})]

FirstEvents ==
  <<Event("project", "earlier", {}, {}), Event("node", "earlier", {}, {}),
    Event("artifact", "earlier", {}, {}), Event("question", "earlier", {}, {}),
    Event("decision", "earlier", {"pending"}, {})>>

FirstContent == [rows |-> FirstRows, events |-> FirstEvents,
                 runs |-> <<>>, files |-> {}]

NoScan == [seen |-> 0, after |-> 0]

Init ==
  /\ OpenFile(FirstContent)
  /\ request \in [Processes -> Requests]
  /\ pc = [p \in Processes |-> "start"]
  /\ disk = 0
  /\ scan = [p \in Processes |-> NoScan]
  /\ read = [p \in Processes |-> {}]
  /\ answer = [p \in Processes |-> "none"]

Goto(p, label) == pc' = [pc EXCEPT ![p] = label]

\* A step of p from one label to another.
Move(p, from, to) == pc[p] = from /\ Goto(p, to) /\ UNCHANGED request

Tell(p, what) ==
  /\ Goto(p, "ended")
  /\ answer' = [answer EXCEPT ![p] = what]
  /\ scan' = [scan EXCEPT ![p] = NoScan]
  /\ UNCHANGED <<request, disk, read>>

\* A statement that changes the file.
Change(p, content) == Write(p, content) /\ UNCHANGED <<disk, local>>

(***************************************************************************)
(* refresh_code_index: the files are observed before the transaction.      *)
(***************************************************************************)

\* Somebody edits a file of the workspace.
Edit ==
  /\ disk < MaxEdits
  /\ disk' = disk + 1
  /\ UNCHANGED <<file, request, pc, local>>

SkipIndex(p) == Move(p, "start", "select") /\ UNCHANGED <<file, disk, local>>

\* Broken variant: once there is an index, changes are not looked for.
SeenUnlessIndexed == IF committed.runs = <<>> THEN disk ELSE 0

\* What generate_code_map finds.
Seen == disk

Scan(p) ==
  /\ Move(p, "start", "scanned")
  /\ scan' = [scan EXCEPT ![p] = [seen  |-> Seen,
                                  after |-> Len(committed.runs)]]
  /\ UNCHANGED <<file, disk, read, answer>>

\* Broken variant: the statements are not in one transaction.
ClearIndexCommitted(p) ==
  LET content == [View(p) EXCEPT !.runs = Append(@, scan[p]), !.files = {}]
  IN  /\ Move(p, "clear", "fill")
      /\ committed' = content /\ staged' = content
      /\ UNCHANGED <<writer, disk, local>>

ClearIndex(p) ==
  /\ Move(p, "clear", "fill")
  /\ Change(p, [View(p) EXCEPT !.runs = Append(@, scan[p]), !.files = {}])

FillIndex(p) ==
  /\ Move(p, "fill", "filled")
  /\ Change(p, [View(p) EXCEPT !.files =
                  @ \cup {[run |-> Len(View(p).runs), seen |-> scan[p].seen]}])

\* The transaction of the index, and the one that sqlite3 opens before the
\* first INSERT or UPDATE of the command.
BeginTransaction(p) ==
  /\ Move(p, "scanned", "clear") \/ Move(p, "begin", "write")
  /\ Begin(p)
  /\ UNCHANGED <<disk, local>>

CommitTransaction(p) ==
  /\ Move(p, "filled", "select") \/ Move(p, "commit", "output")
  /\ Commit(p)
  /\ scan' = [scan EXCEPT ![p] = NoScan]
  /\ UNCHANGED <<disk, read, answer>>

(***************************************************************************)
(* The commands that change the ledger.                                    *)
(***************************************************************************)

Op(p)     == request[p].op
Adding(p) == request[p].row

\* The row a command adds or changes.
Target(p) == IF Op(p) = "add" THEN p ELSE request[p].target

\* The row a command requires (require_node, Database.one).
Required(p) == IF Op(p) = "add" THEN Adding(p).node ELSE {Target(p)}

Missing(p) ==
  /\ pc[p] = "select"
  /\ ~(Required(p) \subseteq DOMAIN View(p).rows)
  /\ Tell(p, "missing")
  /\ UNCHANGED file

ReadRow(p, ids) ==
  /\ ids \subseteq DOMAIN View(p).rows
  /\ read' = [read EXCEPT ![p] = {View(p).rows[id] : id \in ids}]
  /\ UNCHANGED <<file, disk, scan, answer>>

Select(p) == Move(p, "select", "begin") /\ ReadRow(p, Required(p))

Put(p, id, row) ==
  [View(p) EXCEPT !.rows = [i \in DOMAIN @ \cup {id} |->
                              IF i = id THEN row ELSE View(p).rows[i]]]

\* constraint_packages.node_id and projects.name are UNIQUE; the projects that
\* are added all ask for the same name.
Admissible(p) ==
  Adding(p).kind \in {"package", "project"} =>
    \A id \in DOMAIN View(p).rows \ Existing :
      View(p).rows[id].kind # Adding(p).kind

Linking(p) == Adding(p).node # {} /\ Adding(p).kind # "decision"

Insert(p) ==
  /\ Op(p) = "add" /\ Admissible(p)
  /\ Move(p, "write", IF Linking(p) THEN "link" ELSE "log")
  /\ Change(p, Put(p, p, Row(Adding(p).kind, Adding(p).node, p,
                             Adding(p).status, Adding(p).depends)))

InsertFails(p) ==
  /\ pc[p] = "write" /\ Op(p) = "add" /\ ~Admissible(p)
  /\ Rollback(p)
  /\ Tell(p, "failed")

\* Broken variant: the links are those of the row that require_node returned.
ReadLinksEarlier(p) == Move(p, "link", "relink") /\ UNCHANGED <<file, disk, local>>

\* update_node_links reads the node again, under the lock.
ReadLinks(p) == Move(p, "link", "relink") /\ ReadRow(p, Adding(p).node)

WriteLinks(p) ==
  /\ Move(p, "relink", "log")
  /\ \E id \in Adding(p).node, old \in read[p] :
       Change(p, Put(p, id, [View(p).rows[id] EXCEPT
                   !.links = IF Adding(p).kind = "package" THEN old.links
                             ELSE old.links \cup {p},
                   !.package = IF Adding(p).kind = "package" THEN {p}
                               ELSE old.package]))

\* The columns that an update command writes: those it is given, and the others
\* as they were when it read the row.
Updated(p, row, old) ==
  LET sets == request[p].sets
  IN  [row EXCEPT
        !.text    = IF "text" \in sets THEN p ELSE old.text,
        !.version = IF "version" \in sets THEN old.version + 1 ELSE old.version,
        !.depends = IF "depends" \in sets THEN {Nowhere} ELSE old.depends,
        !.status  = IF row.kind # "project" THEN @
                    ELSE IF "status" \in sets THEN "settled" ELSE old.status]

\* Broken variants: all columns are written back; a column that is not given
\* falls back to its first value.
UpdateAllColumns(p) ==
  /\ Op(p) = "update" /\ Move(p, "write", "log")
  /\ \E old \in read[p] : Change(p, Put(p, Target(p), Updated(p, old, old)))

UpdateWithDefaults(p) ==
  /\ Op(p) = "update" /\ Move(p, "write", "log")
  /\ \E old \in read[p] :
       Change(p, Put(p, Target(p), Updated(p, View(p).rows[Target(p)],
                                           [old EXCEPT !.text = "old"])))

Update(p) ==
  /\ Op(p) = "update" /\ Move(p, "write", "log")
  /\ \E old \in read[p] :
       Change(p, Put(p, Target(p), Updated(p, View(p).rows[Target(p)], old)))

StatusSet(p) ==
  Put(p, Target(p), [View(p).rows[Target(p)] EXCEPT !.status = request[p].status])

\* Broken variant: the event is forgotten.
SetStatusUnlogged(p) ==
  /\ Op(p) = "status" /\ Move(p, "write", "commit")
  /\ Change(p, StatusSet(p))

SetStatus(p) ==
  /\ Op(p) = "status" /\ Move(p, "write", "log")
  /\ Change(p, StatusSet(p))

\* Which events tell the status and the version that was written.
TellsStatus(p) ==
  \/ Op(p) = "add" /\ Adding(p).kind = "decision"
  \/ Op(p) = "update" /\ Target(p) = "project"
  \/ Op(p) = "status"

TellsVersion(p) == Op(p) = "update" /\ Target(p) = "artifact"

LogEvent(p) ==
  LET row == View(p).rows[Target(p)]
  IN  /\ Move(p, "log", "commit")
      /\ Change(p, [View(p) EXCEPT !.events = Append(@,
           Event(Target(p), p,
                 IF TellsStatus(p) THEN {row.status} ELSE {},
                 IF TellsVersion(p) THEN {row.version} ELSE {}))])

\* The row is read once more to be printed.
Output(p) ==
  /\ pc[p] = "output"
  /\ Tell(p, "ok")
  /\ UNCHANGED file

\* An exception (invalid input, a lock held beyond the timeout, an index that
\* took too long), or the death of the process.
Fails(p) ==
  /\ pc[p] # "ended"
  /\ Rollback(p)
  /\ Tell(p, "failed")

Step(p) ==
  \/ SkipIndex(p) \/ Scan(p) \/ ClearIndex(p) \/ FillIndex(p)
  \/ BeginTransaction(p) \/ CommitTransaction(p)
  \/ Missing(p) \/ Select(p) \/ Insert(p) \/ InsertFails(p)
  \/ ReadLinks(p) \/ WriteLinks(p) \/ Update(p) \/ SetStatus(p)
  \/ LogEvent(p) \/ Output(p)

\* All processes have ended.
Done == (\A p \in Processes : pc[p] = "ended") /\ UNCHANGED vars

Next == (\E p \in Processes : Step(p) \/ Fails(p)) \/ Edit \/ Done

Spec == Init /\ [][Next]_vars

(***************************************************************************)
(* Properties.                                                             *)
(***************************************************************************)

Kinds == {"project", "node", "artifact", "question", "decision", "package"}

Rows == [kind : Kinds, node : OneOf({"node"}), text : {"old"} \cup Processes,
         status : Statuses, version : Nat, links : SUBSET Ids,
         package : OneOf(Processes), depends : SUBSET {"node", Nowhere}]

Content(c) ==
  /\ DOMAIN c.rows \subseteq Ids
  /\ \A id \in DOMAIN c.rows : c.rows[id] \in Rows
  /\ \A i \in DOMAIN c.events :
       /\ c.events[i].id \in Ids
       /\ c.events[i].status \in OneOf(Statuses)
       /\ c.events[i].version \subseteq Nat
  /\ \A f \in c.files : f.run \in DOMAIN c.runs /\ f.seen \in 0..MaxEdits

\* Every variable has its type; only one process writes.
TypeOK ==
  /\ Content(committed)
  /\ Content(staged)
  /\ writer \in OneOf(Processes)
  /\ request \in [Processes -> Requests]
  /\ disk \in 0..MaxEdits
  /\ scan \in [Processes -> [seen : 0..MaxEdits, after : Nat]]
  /\ \A p \in Processes : read[p] \subseteq Rows
  /\ answer \in [Processes -> {"none", "ok", "missing", "failed"}]

\* A node lists exactly the artifacts, questions and package that say they
\* belong to it: concurrent commands lose no link and leave none behind.
LinksAreExact ==
  LET rows == committed.rows
      Of(id, kinds) == {i \in DOMAIN rows : rows[i].node = {id}
                                              /\ rows[i].kind \in kinds}
  IN  \A id \in DOMAIN rows : rows[id].kind = "node" =>
        /\ rows[id].links = Of(id, {"artifact", "question"})
        /\ rows[id].package = Of(id, {"package"})

\* What the log told last of a row's status and version is what the row says,
\* although updates write back columns they read before they had the lock.
EventsTellState ==
  \A i \in DOMAIN committed.events :
    LET e     == committed.events[i]
        row   == committed.rows[e.id]
        Later == {j \in i+1 .. Len(committed.events) :
                    committed.events[j].id = e.id}
    IN  /\ (\A j \in Later : committed.events[j].status = {})
             => e.status \subseteq {row.status}
        /\ (\A j \in Later : committed.events[j].version = {})
             => e.version \subseteq {row.version}

\* The log is append-only, and nothing changes without one event about it: a
\* commit that changes rows adds the event of the process that commits, and
\* touches only its row and the node that row belongs to.  A command that
\* answers ok is in the log, one that answers missing is not.
AuditIsComplete ==
  [][/\ SubSeq(committed'.events, 1, Len(committed.events)) = committed.events
     /\ committed'.rows # committed.rows =>
          LET e       == committed'.events[Len(committed'.events)]
              changed == {id \in DOMAIN committed'.rows :
                            id \notin DOMAIN committed.rows
                              \/ committed'.rows[id] # committed.rows[id]}
          IN  /\ Len(committed'.events) = Len(committed.events) + 1
              /\ e.by \in writer
              /\ changed \subseteq {e.id} \cup committed'.rows[e.id].node
     /\ \A p \in Processes : answer'[p] \in {"ok", "missing"} =>
          (answer'[p] = "ok") =
            (\E i \in DOMAIN committed'.events : committed'.events[i].by = p)
    ]_<<committed, answer>>

\* The code index is that of one run, the last one, whole, whoever else was
\* indexing and whatever failed.  It may go back to an older state of the files
\* only between overlapping commands: a run is never older than one that was
\* committed before its scan.
IndexIsWhole ==
  /\ committed.runs # <<>> =>
       committed.files = {[run  |-> Len(committed.runs),
                           seen |-> committed.runs[Len(committed.runs)].seen]}
  /\ \A i \in DOMAIN committed.runs : \A j \in 1..committed.runs[i].after :
       committed.runs[j].seen <= committed.runs[i].seen

\* What an update sets stays until another update sets it.  It can be lost, but
\* only to a command that had read the row before: never to a later one.
UpdatesStick ==
  \A i \in DOMAIN committed.events :
    LET id == committed.events[i].id
        p  == committed.events[i].by
        Later == {committed.events[j].by : j \in
                    {k \in i+1 .. Len(committed.events) :
                       committed.events[k].id = id}}
    IN  p \in Processes /\ Op(p) = "update" /\ "text" \in request[p].sets =>
          \/ committed.rows[id].text = p
          \/ \E q \in Later : /\ Op(q) = "update"
                              /\ \/ "text" \in request[q].sets
                                 \/ \A old \in read[q] : old.text # p
==============================================================================

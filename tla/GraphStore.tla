------------------------------ MODULE GraphStore ------------------------------
(***************************************************************************)
(* The processes that share one graph database: eg_migrate and             *)
(* eg_demo_pipeline with --save-graph or --stored-graph.  Each applies the *)
(* migrations that are missing (MigrationRunner::apply_all) and then saves *)
(* or loads a graph (GraphRepositorySqlite).                               *)
(*                                                                         *)
(* A process runs once.  What it stores is told apart by the process       *)
(* itself; a text that does not parse is one of the ways to fail.          *)
(***************************************************************************)
EXTENDS SqliteFile, Naturals, Sequences, FiniteSets, Functions

CONSTANTS
  Processes,
  Graphs,          \* graph ids
  MaxExpected      \* bound: revisions a caller may expect

ASSUME BoundAssumption == MaxExpected \in Nat

VARIABLES
  request,         \* command line of each process
  pc,
  cursor,          \* position in the list of migration files
  applied,         \* migrations the process has applied
  seen,            \* row that save_graph has read
  answer           \* what the process was told

local == <<cursor, applied, seen>>
vars  == <<file, request, pc, local, answer>>

\* Only a save may expect a revision.
Requests ==
  [kind : {"migrate", "load", "save"}, graph : Graphs, expected : {{}}] \cup
  [kind : {"save"}, graph : Graphs, expected : {{n} : n \in 1..MaxExpected}]

Row(revision, source) == [revision |-> revision, source |-> source]
Revisions(rows)       == {r.revision : r \in rows}

\* The sorted migration files, and what each adds to the schema.
Migrations == <<"0001_graph_snapshots", "0002_graph_snapshot_working_directory">>
Effect(version) ==
  IF version = Migrations[1] THEN "graph_snapshots" ELSE "working_directory"

EmptyFile == [schema |-> {}, versions |-> {}, graphs |-> [g \in Graphs |-> {}]]

NoAnswer        == [kind |-> "none", row |-> {}]
Answer(kind, r) == [kind |-> kind, row |-> r]

Init ==
  /\ OpenFile(EmptyFile)
  /\ request \in [Processes -> Requests]
  /\ pc = [p \in Processes |-> "create"]
  /\ cursor = [p \in Processes |-> 1]
  /\ applied = [p \in Processes |-> {}]
  /\ seen = [p \in Processes |-> {}]
  /\ answer = [p \in Processes |-> NoAnswer]

Goto(p, label) == pc' = [pc EXCEPT ![p] = label]

Tell(p, what) ==
  /\ Goto(p, "ended")
  /\ answer' = [answer EXCEPT ![p] = what]

(***************************************************************************)
(* MigrationRunner::apply_all.                                             *)
(***************************************************************************)

\* CREATE TABLE IF NOT EXISTS schema_migrations: writes only the first time.
CreateVersions(p) ==
  /\ pc[p] = "create"
  /\ IF "schema_migrations" \in committed.schema
     THEN UNCHANGED file
     ELSE AutoCommit([committed EXCEPT !.schema = @ \cup {"schema_migrations"}])
  /\ Goto(p, "select")
  /\ UNCHANGED <<request, local, answer>>

Version(p) == Migrations[cursor[p]]

\* Broken variant: the loop does not advance.
SkipMigrationInPlace(p) ==
  /\ pc[p] = "select" /\ cursor[p] <= Len(Migrations)
  /\ Version(p) \in View(p).versions
  /\ UNCHANGED vars

\* Whether a migration is applied is asked outside the transaction that applies
\* it.
SkipMigration(p) ==
  /\ pc[p] = "select" /\ cursor[p] <= Len(Migrations)
  /\ Version(p) \in View(p).versions
  /\ cursor' = [cursor EXCEPT ![p] = @ + 1]
  /\ UNCHANGED <<file, request, pc, applied, seen, answer>>

FindMissing(p) ==
  /\ pc[p] = "select" /\ cursor[p] <= Len(Migrations)
  /\ Version(p) \notin View(p).versions
  /\ Goto(p, "begin")
  /\ UNCHANGED <<file, request, local, answer>>

BeginMigration(p) ==
  /\ pc[p] = "begin"
  /\ Begin(p)
  /\ Goto(p, "apply")
  /\ UNCHANGED <<request, local, answer>>

\* Broken variant: both statements tolerate what is there already.
ApplicableAgain(p) ==
  Version(p) = Migrations[2] => "graph_snapshots" \in View(p).schema

\* Another process may have been faster: ADD COLUMN of a column that is there
\* is an error, and so is the INSERT of a version that is recorded.
Applicable(p) ==
  /\ Version(p) \notin View(p).versions
  /\ Version(p) = Migrations[2] =>
       "graph_snapshots" \in View(p).schema
         /\ "working_directory" \notin View(p).schema

\* Broken variant: the version is not recorded.
ApplyMigrationUnrecorded(p) ==
  /\ pc[p] = "apply" /\ Applicable(p)
  /\ Write(p, [View(p) EXCEPT !.schema = @ \cup {Effect(Version(p))}])
  /\ Goto(p, "commit")
  /\ UNCHANGED <<request, local, answer>>

ApplyMigration(p) ==
  /\ pc[p] = "apply" /\ Applicable(p)
  /\ Write(p, [View(p) EXCEPT !.schema = @ \cup {Effect(Version(p))},
                              !.versions = @ \cup {Version(p)}])
  /\ Goto(p, "commit")
  /\ UNCHANGED <<request, local, answer>>

ApplyFails(p) ==
  /\ pc[p] = "apply" /\ ~Applicable(p)
  /\ Rollback(p)
  /\ Tell(p, Answer("failed", {}))
  /\ UNCHANGED <<request, local>>

CommitMigration(p) ==
  /\ pc[p] = "commit"
  /\ Commit(p)
  /\ applied' = [applied EXCEPT ![p] = @ \cup {Version(p)}]
  /\ cursor' = [cursor EXCEPT ![p] = @ + 1]
  /\ Goto(p, "select")
  /\ UNCHANGED <<request, seen, answer>>

Migrated(p) == pc[p] = "select" /\ cursor[p] > Len(Migrations)

\* eg_migrate ends here.
EndMigrate(p) ==
  /\ Migrated(p) /\ request[p].kind = "migrate"
  /\ Tell(p, Answer("migrated", {}))
  /\ UNCHANGED <<file, request, local>>

(***************************************************************************)
(* GraphRepositorySqlite::save_graph.                                      *)
(***************************************************************************)

BeginSave(p) ==
  /\ Migrated(p) /\ request[p].kind = "save"
  /\ Begin(p)
  /\ Goto(p, "read")
  /\ UNCHANGED <<request, local, answer>>

ReadRow(p) ==
  /\ pc[p] = "read"
  /\ seen' = [seen EXCEPT ![p] = View(p).graphs[request[p].graph]]
  /\ Goto(p, "write")
  /\ UNCHANGED <<file, request, cursor, applied, answer>>

\* Broken variants: a save that expects nothing overwrites; an update keeps the
\* revision.
ExpectedIfGiven(p) ==
  request[p].expected = {} \/ request[p].expected = Revisions(seen[p])

NextRevisionKept(p) == IF seen[p] = {} THEN 1
                       ELSE CHOOSE n \in Revisions(seen[p]) : TRUE

\* No revision must be expected of a new graph, and the current one of an
\* existing graph.
Expected(p) == request[p].expected = Revisions(seen[p])

NextRevision(p) == IF seen[p] = {} THEN 1
                   ELSE 1 + CHOOSE n \in Revisions(seen[p]) : TRUE

RefuseSave(p) ==
  /\ pc[p] = "write" /\ ~Expected(p)
  /\ Rollback(p)
  /\ Tell(p, Answer("conflict", {}))
  /\ UNCHANGED <<request, local>>

\* Broken variant: the row is added to the one that is there.
WriteSecondRow(p) ==
  /\ pc[p] = "write" /\ Expected(p)
  /\ Write(p, [View(p) EXCEPT
       !.graphs[request[p].graph] = @ \cup {Row(NextRevision(p), p)}])
  /\ Goto(p, "store")
  /\ UNCHANGED <<request, local, answer>>

WriteRow(p) ==
  /\ pc[p] = "write" /\ Expected(p)
  /\ Write(p, [View(p) EXCEPT
       !.graphs[request[p].graph] = {Row(NextRevision(p), p)}])
  /\ Goto(p, "store")
  /\ UNCHANGED <<request, local, answer>>

CommitSave(p) ==
  /\ pc[p] = "store"
  /\ Commit(p)
  /\ Goto(p, "return")
  /\ UNCHANGED <<request, local, answer>>

ReturnSave(p) ==
  /\ pc[p] = "return"
  /\ Tell(p, Answer("saved", {Row(NextRevision(p), p)}))
  /\ UNCHANGED <<file, request, local>>

\* GraphRepositorySqlite::load_graph: one SELECT, outside a transaction.
LoadGraph(p) ==
  /\ Migrated(p) /\ request[p].kind = "load"
  /\ LET row == View(p).graphs[request[p].graph]
     IN  Tell(p, Answer(IF row = {} THEN "missing" ELSE "loaded", row))
  /\ UNCHANGED <<file, request, local>>

\* An exception anywhere (an invalid text, a lock held beyond the busy timeout
\* of 5 seconds, an I/O error), or the death of the process.
Fails(p) ==
  /\ pc[p] # "ended"
  /\ Rollback(p)
  /\ Tell(p, Answer("failed", {}))
  /\ UNCHANGED <<request, local>>

Step(p) ==
  \/ CreateVersions(p) \/ SkipMigration(p) \/ FindMissing(p)
  \/ BeginMigration(p) \/ ApplyMigration(p) \/ ApplyFails(p)
  \/ CommitMigration(p) \/ EndMigrate(p)
  \/ BeginSave(p) \/ ReadRow(p) \/ RefuseSave(p) \/ WriteRow(p)
  \/ CommitSave(p) \/ ReturnSave(p)
  \/ LoadGraph(p)

\* All processes have ended.
Done == (\A p \in Processes : pc[p] = "ended") /\ UNCHANGED vars

Next == (\E p \in Processes : Step(p) \/ Fails(p)) \/ Done

Spec == Init /\ [][Next]_vars

\* Every process is scheduled; a waiting BEGIN succeeds or times out.
FairSpec == Spec /\ \A p \in Processes : WF_vars(Step(p))

(***************************************************************************)
(* Properties.                                                             *)
(***************************************************************************)

Rows     == [revision : 1 .. MaxExpected + 1, source : Processes]
OneOf(S) == {{}} \cup {{x} : x \in S}

Contents == [schema : SUBSET {"schema_migrations", "graph_snapshots",
                              "working_directory"},
             versions : SUBSET Range(Migrations),
             graphs : [Graphs -> OneOf(Rows)]]

Labels   == {"create", "select", "begin", "apply", "commit", "read", "write",
             "store", "return", "ended"}

Answers  == [kind : {"none", "migrated", "failed", "conflict", "saved",
                     "missing", "loaded"},
             row : OneOf(Rows)]

\* Every variable has its type; graph_id is a key, and only one process writes.
TypeOK ==
  /\ committed \in Contents
  /\ staged \in Contents
  /\ writer \in OneOf(Processes)
  /\ request \in [Processes -> Requests]
  /\ pc \in [Processes -> Labels]
  /\ cursor \in [Processes -> 1..Len(Migrations) + 1]
  /\ applied \in [Processes -> SUBSET Range(Migrations)]
  /\ seen \in [Processes -> OneOf(Rows)]
  /\ answer \in [Processes -> Answers]

\* A version is recorded exactly when its migration is in the schema, and
\* migrations are applied in order, by whichever processes and through
\* whatever failures.
SchemaIsVersioned ==
  \A i \in DOMAIN Migrations :
    /\ Migrations[i] \in committed.versions
         <=> Effect(Migrations[i]) \in committed.schema
    /\ Migrations[i] \in committed.versions =>
         \A j \in 1..i-1 : Migrations[j] \in committed.versions

\* No migration is counted as applied by two processes, and what a process
\* counted is recorded.
AppliedOnce ==
  \A p \in Processes :
    /\ applied[p] \subseteq committed.versions
    /\ \A q \in Processes \ {p} : applied[p] \cap applied[q] = {}

\* The repository only ever works on a complete schema, although a process may
\* have skipped what another one was to apply.
StoreIsReady ==
  \A p \in Processes :
    Migrated(p) \/ pc[p] \in {"read", "write", "store", "return"} =>
      /\ Range(Migrations) \subseteq committed.versions
      /\ {Effect(v) : v \in Range(Migrations)} \subseteq committed.schema

Saved(p) == {a \in {answer[p]} : a.kind = "saved"}

\* An acknowledged save is never lost: it is the current row or was followed by
\* a later revision, and no two saves of a graph got the same revision.
SavesAreSerial ==
  \A p \in Processes : \A a \in Saved(p) : \A r \in a.row :
    /\ \E s \in committed.graphs[request[p].graph] :
         s = r \/ s.revision > r.revision
    /\ \A q \in Processes \ {p} : request[q].graph = request[p].graph =>
         \A b \in Saved(q) : Revisions(b.row) # {r.revision}

\* Every process ends: no two wait for each other's lock.
EveryCallEnds == <>(\A p \in Processes : pc[p] = "ended")

(***************************************************************************)
(* Refinement: the stored graphs are compare-and-set registers.            *)
(***************************************************************************)

Status == [p \in Processes |-> CASE pc[p] = "return" -> "stored"
                                 [] pc[p] = "ended"  -> "ended"
                                 [] OTHER            -> "open"]

Register == INSTANCE RevisionRegister WITH
  register <- committed.graphs,
  status   <- Status

\* A save takes effect at once, at its commit, and only on the revision it
\* expected; a load returns what was stored at one moment; every answer is true.
ImplementsRegister == Register!Spec
==============================================================================

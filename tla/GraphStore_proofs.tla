-------------------------- MODULE GraphStore_proofs --------------------------
(***************************************************************************)
(* Proofs about GraphStore, for any processes, graph ids and revisions.    *)
(***************************************************************************)
EXTENDS GraphStore, TLAPS

(***************************************************************************)
(* The inductive invariant: what the writer has staged, what each process  *)
(* has read and skipped, and what that says of the file.                   *)
(***************************************************************************)

Locking == {"apply", "commit", "read", "write", "store"}
Saving  == {"read", "write", "store", "return"}
First   == Migrations[1]
Second  == Migrations[2]

\* A process is in a transaction exactly at the steps between BEGIN and COMMIT,
\* and nothing is staged outside one or before its first change.
LockInv ==
  /\ \A p \in Processes : pc[p] \in Locking <=> p \in writer
  /\ \A p \in Processes : pc[p] \in {"apply", "read", "write"} => staged = committed
  /\ writer = {} => staged = committed

\* The schema of the file, version by version.
SchemaInv ==
  /\ First \in committed.versions <=> "graph_snapshots" \in committed.schema
  /\ Second \in committed.versions <=> "working_directory" \in committed.schema
  /\ Second \in committed.versions => First \in committed.versions

\* A process has only passed migrations that are committed, and one that is to
\* be committed was missing until then.
MigrationInv ==
  \A p \in Processes :
    /\ pc[p] \in {"begin", "apply", "commit"} => cursor[p] \in {1, 2}
    /\ pc[p] \in Saving => cursor[p] = 3
    /\ cursor[p] > 1 => First \in committed.versions
    /\ cursor[p] > 2 => Second \in committed.versions
    /\ applied[p] \subseteq committed.versions
    /\ \A q \in Processes \ {p} : applied[p] \cap applied[q] = {}
    /\ pc[p] = "commit" =>
         /\ Version(p) \notin committed.versions
         /\ Version(p) = Second => First \in committed.versions
         /\ staged = [committed EXCEPT !.schema = @ \cup {Effect(Version(p))},
                                       !.versions = @ \cup {Version(p)}]

\* What a save has read is still there when it writes, and is what it expects.
SaveInv ==
  \A p \in Processes :
    /\ pc[p] \in Saving => request[p].kind = "save"
    /\ pc[p] \in {"write", "store"} =>
         seen[p] = committed.graphs[request[p].graph]
    /\ pc[p] \in {"store", "return"} => Expected(p)
    /\ pc[p] = "store" =>
         staged = [committed EXCEPT
                     !.graphs[request[p].graph] = {Row(NextRevision(p), p)}]

IInv == TypeOK /\ LockInv /\ SchemaInv /\ MigrationInv /\ SaveInv

(***************************************************************************)
(* Lemmas about the operators.                                             *)
(***************************************************************************)

LEMMA MigrationFacts ==
  /\ Len(Migrations) = 2
  /\ First # Second
  /\ Range(Migrations) = {First, Second}
  /\ Effect(First) = "graph_snapshots"
  /\ Effect(Second) = "working_directory"
<1>1. /\ Len(Migrations) = 2 /\ DOMAIN Migrations = {1, 2} /\ First # Second
  BY DEF Migrations, First, Second
<1>2. Range(Migrations) = {First, Second}
  BY <1>1 DEF Range, First, Second
<1>3. Effect(First) = "graph_snapshots" /\ Effect(Second) = "working_directory"
  BY <1>1 DEF Effect, First
<1>4. QED BY <1>1, <1>2, <1>3

LEMMA VersionFacts ==
  ASSUME NEW p \in Processes
  PROVE  /\ cursor[p] = 1 => Version(p) = First
         /\ cursor[p] = 2 => Version(p) = Second
BY DEF Version, First, Second

LEMMA RequestFacts ==
  ASSUME NEW r \in Requests
  PROVE  /\ r.kind \in {"migrate", "load", "save"} /\ r.graph \in Graphs
         /\ r.expected = {} \/ \E n \in 1..MaxExpected : r.expected = {n}
         /\ r.kind # "save" => r.expected = {}
BY DEF Requests

LEMMA RevisionOfOne ==
  ASSUME NEW r
  PROVE  /\ Revisions({r}) = {r.revision}
         /\ (CHOOSE n \in Revisions({r}) : TRUE) = r.revision
<1>1. Revisions({r}) = {r.revision}
  BY DEF Revisions
<1>2. QED BY <1>1

LEMMA NextRevisionTyped ==
  ASSUME TypeOK, NEW p \in Processes, Expected(p)
  PROVE  /\ NextRevision(p) \in 1..MaxExpected + 1
         /\ request[p].expected = {} => NextRevision(p) = 1
         /\ \A n : request[p].expected = {n} => NextRevision(p) = n + 1
<1>0. MaxExpected \in Nat
  BY BoundAssumption
<1>1. seen[p] \in OneOf(Rows) /\ request[p] \in Requests
  BY DEF TypeOK
<1>2. CASE seen[p] = {}
  <2>1. request[p].expected = {}
    BY <1>2 DEF Expected, Revisions
  <2>2. QED BY <1>0, <1>2, <2>1 DEF NextRevision
<1>3. CASE seen[p] # {}
  <2>1. PICK r \in Rows : seen[p] = {r}
    BY <1>1, <1>3 DEF OneOf
  <2>2. request[p].expected = {r.revision}
    BY <2>1, RevisionOfOne DEF Expected
  <2>3. NextRevision(p) = 1 + r.revision
    BY <1>3, <2>1, RevisionOfOne DEF NextRevision
  <2>4. r.revision \in 1..MaxExpected
    BY <1>1, <2>2, RequestFacts
  <2>5. QED BY <1>0, <2>2, <2>3, <2>4
<1>4. QED BY <1>2, <1>3

LEMMA NewRowTyped ==
  ASSUME TypeOK, NEW p \in Processes, Expected(p)
  PROVE  {Row(NextRevision(p), p)} \in OneOf(Rows)
BY NextRevisionTyped DEF Row, Rows, OneOf

(***************************************************************************)
(* Steps that leave the file and the process's data alone.                 *)
(***************************************************************************)

LEMMA InitInv == Init => IInv
<1> SUFFICES ASSUME Init PROVE IInv
  OBVIOUS
<1>0. {} \in OneOf(Rows) /\ {} \in OneOf(Processes)
  BY DEF OneOf
<1>1. EmptyFile \in Contents
  BY <1>0 DEF EmptyFile, Contents
<1>2. NoAnswer \in Answers
  BY <1>0 DEF NoAnswer, Answers
<1>3. TypeOK
  BY <1>0, <1>1, <1>2, MigrationFacts DEF Init, OpenFile, TypeOK, Labels
<1>4. LockInv
  BY DEF Init, OpenFile, LockInv, Locking
<1>5. SchemaInv
  BY DEF Init, OpenFile, SchemaInv, EmptyFile
<1>6. MigrationInv
  BY DEF Init, OpenFile, MigrationInv, Saving
<1>7. SaveInv
  BY DEF Init, OpenFile, SaveInv, Saving
<1>8. QED BY <1>3, <1>4, <1>5, <1>6, <1>7 DEF IInv

\* A row that is shown to a caller, and the answers.
LEMMA TellTyped ==
  ASSUME TypeOK, NEW p \in Processes, NEW what,
         what \in Answers,
         Tell(p, what)
  PROVE  /\ answer' \in [Processes -> Answers]
         /\ pc' \in [Processes -> Labels]
BY DEF TypeOK, Tell, Goto, Labels

LEMMA ViewTyped ==
  ASSUME TypeOK, NEW p \in Processes
  PROVE  View(p) \in Contents
BY DEF TypeOK, View

LEMMA RollbackTyped ==
  ASSUME TypeOK, NEW p \in Processes, Rollback(p)
  PROVE  /\ committed' \in Contents /\ staged' \in Contents
         /\ writer' \in OneOf(Processes)
BY DEF TypeOK, Rollback, OneOf

LEMMA StepTyped ==
  ASSUME IInv, NEW p \in Processes, Step(p) \/ Fails(p)
  PROVE  TypeOK'
<1> USE DEF local, Labels
<1>0. /\ TypeOK /\ LockInv /\ MigrationInv /\ SaveInv
      /\ {} \in OneOf(Rows) /\ p \in Processes /\ {p} \in OneOf(Processes)
      /\ {} \in OneOf(Processes)
  BY DEF IInv, OneOf
<1>1. CASE CreateVersions(p)
  <2>1. CASE UNCHANGED file
    BY <1>0, <1>1, <2>1 DEF CreateVersions, TypeOK, Goto, file
  <2>2. CASE ~UNCHANGED file
    <3>1. [committed EXCEPT !.schema = @ \cup {"schema_migrations"}] \in Contents
      BY <1>0 DEF TypeOK, Contents
    <3>2. QED
      BY <1>0, <1>1, <2>2, <3>1 DEF CreateVersions, AutoCommit, TypeOK, Goto
  <2>3. QED BY <2>1, <2>2
<1>2. CASE SkipMigration(p)
  <2>1. cursor[p] + 1 \in 1..Len(Migrations) + 1
    BY <1>0, <1>2, MigrationFacts DEF SkipMigration, TypeOK
  <2>2. QED BY <1>0, <1>2, <2>1 DEF SkipMigration, TypeOK, file
<1>3. CASE FindMissing(p)
  BY <1>0, <1>3 DEF FindMissing, TypeOK, Goto, file
<1>4. CASE BeginMigration(p)
  BY <1>0, <1>4 DEF BeginMigration, Begin, TypeOK, Goto
<1>5. CASE ApplyMigration(p)
  <2>1. Version(p) \in Range(Migrations) /\ Effect(Version(p)) \in
            {"schema_migrations", "graph_snapshots", "working_directory"}
    BY <1>0, <1>5, MigrationFacts, VersionFacts
       DEF ApplyMigration, MigrationInv
  <2>2. [View(p) EXCEPT !.schema = @ \cup {Effect(Version(p))},
                        !.versions = @ \cup {Version(p)}] \in Contents
    BY <1>0, <2>1, ViewTyped DEF Contents
  <2>3. QED BY <1>0, <1>5, <2>2 DEF ApplyMigration, Write, TypeOK, Goto
<1>6. CASE ApplyFails(p)
  <2>1. Answer("failed", {}) \in Answers
    BY <1>0 DEF Answer, Answers
  <2>2. QED
    BY <1>0, <1>6, <2>1, TellTyped, RollbackTyped DEF ApplyFails, TypeOK
<1>7. CASE CommitMigration(p)
  <2>1. cursor[p] \in {1, 2}
    BY <1>0, <1>7 DEF CommitMigration, MigrationInv
  <2>2. cursor[p] + 1 \in 1..Len(Migrations) + 1
    BY <2>1, MigrationFacts
  <2>3. Version(p) \in Range(Migrations)
    BY <2>1, MigrationFacts, VersionFacts
  <2>4. QED
    BY <1>0, <1>7, <2>2, <2>3 DEF CommitMigration, Commit, TypeOK, Goto
<1>8. CASE EndMigrate(p)
  <2>1. Answer("migrated", {}) \in Answers
    BY <1>0 DEF Answer, Answers
  <2>2. QED
    BY <1>0, <1>8, <2>1, TellTyped DEF EndMigrate, TypeOK, file
<1>9. CASE BeginSave(p)
  BY <1>0, <1>9 DEF BeginSave, Begin, TypeOK, Goto
<1>10. CASE ReadRow(p)
  <2>1. View(p).graphs[request[p].graph] \in OneOf(Rows)
    BY <1>0, ViewTyped, RequestFacts DEF Contents, TypeOK
  <2>2. QED BY <1>0, <1>10, <2>1 DEF ReadRow, TypeOK, Goto, file
<1>11. CASE RefuseSave(p)
  <2>1. Answer("conflict", {}) \in Answers
    BY <1>0 DEF Answer, Answers
  <2>2. QED
    BY <1>0, <1>11, <2>1, TellTyped, RollbackTyped DEF RefuseSave, TypeOK
<1>12. CASE WriteRow(p)
  <2>1. {Row(NextRevision(p), p)} \in OneOf(Rows)
    BY <1>0, <1>12, NewRowTyped DEF WriteRow
  <2>2. [View(p) EXCEPT !.graphs[request[p].graph] = {Row(NextRevision(p), p)}]
          \in Contents
    BY <1>0, <2>1, ViewTyped DEF Contents
  <2>3. QED BY <1>0, <1>12, <2>2 DEF WriteRow, Write, TypeOK, Goto
<1>13. CASE CommitSave(p)
  BY <1>0, <1>13 DEF CommitSave, Commit, TypeOK, Goto
<1>14. CASE ReturnSave(p)
  <2>1. {Row(NextRevision(p), p)} \in OneOf(Rows)
    BY <1>0, <1>14, NewRowTyped DEF ReturnSave, SaveInv
  <2>2. Answer("saved", {Row(NextRevision(p), p)}) \in Answers
    BY <2>1 DEF Answer, Answers
  <2>3. QED BY <1>0, <1>14, <2>2, TellTyped DEF ReturnSave, TypeOK, file
<1>15. CASE LoadGraph(p)
  <2> DEFINE row == View(p).graphs[request[p].graph]
  <2>1. row \in OneOf(Rows)
    BY <1>0, ViewTyped, RequestFacts DEF Contents, TypeOK
  <2>2. Answer(IF row = {} THEN "missing" ELSE "loaded", row) \in
          Answers
    BY <2>1 DEF Answer, Answers
  <2>3. QED BY <1>0, <1>15, <2>2, TellTyped DEF LoadGraph, TypeOK, file
<1>16. CASE Fails(p)
  <2>1. Answer("failed", {}) \in Answers
    BY <1>0 DEF Answer, Answers
  <2>2. QED
    BY <1>0, <1>16, <2>1, TellTyped, RollbackTyped DEF Fails, TypeOK
<1>17. QED
  BY <1>1, <1>2, <1>3, <1>4, <1>5, <1>6, <1>7, <1>8, <1>9, <1>10, <1>11, <1>12,
     <1>13, <1>14, <1>15, <1>16 DEF Step

(***************************************************************************)
(* The other conjuncts of the invariant.                                   *)
(***************************************************************************)

\* Steps that change neither the file nor what is staged.
Quiet(p) ==
  \/ SkipMigration(p) \/ FindMissing(p) \/ EndMigrate(p)
  \/ ReadRow(p) \/ ReturnSave(p) \/ LoadGraph(p)

\* Steps that end a transaction without a commit.
GivesUp(p) == ApplyFails(p) \/ RefuseSave(p) \/ Fails(p)

LEMMA StepCases ==
  ASSUME NEW p \in Processes, Step(p) \/ Fails(p)
  PROVE  \/ CreateVersions(p) \/ BeginMigration(p) \/ ApplyMigration(p)
         \/ CommitMigration(p) \/ BeginSave(p) \/ WriteRow(p) \/ CommitSave(p)
         \/ Quiet(p) \/ GivesUp(p)
BY DEF Step, Quiet, GivesUp

LEMMA WriterIsOne ==
  ASSUME IInv, NEW p \in Processes, p \in writer
  PROVE  /\ writer = {p}
         /\ \A q \in Processes : pc[q] \in Locking => q = p
BY DEF IInv, TypeOK, OneOf, LockInv

LEMMA StepKeepsLock ==
  ASSUME IInv, NEW p \in Processes, Step(p) \/ Fails(p)
  PROVE  LockInv'
<1> USE DEF Locking, Goto, file
<1>0. /\ LockInv /\ writer \in OneOf(Processes) /\ pc \in [Processes -> Labels]
      /\ p \in writer => writer = {p}
  BY WriterIsOne DEF IInv, TypeOK
<1>1. CASE CreateVersions(p)
  <2>2. writer' = writer /\ pc' = [pc EXCEPT ![p] = "select"] /\ pc[p] = "create"
    BY <1>1 DEF CreateVersions, AutoCommit
  <2>3. CASE UNCHANGED file
    BY <1>0, <2>2, <2>3 DEF LockInv
  <2>4. CASE ~UNCHANGED file
    <3>1. writer = {} /\ staged' = committed'
      BY <1>1, <2>4 DEF CreateVersions, AutoCommit
    <3>2. QED BY <1>0, <2>2, <3>1 DEF LockInv
  <2>5. QED BY <2>3, <2>4
<1>2. CASE BeginMigration(p) \/ BeginSave(p)
  BY <1>0, <1>2 DEF BeginMigration, BeginSave, Begin, Migrated, LockInv
<1>3. CASE ApplyMigration(p) \/ WriteRow(p)
  BY <1>0, <1>3 DEF ApplyMigration, WriteRow, Write, LockInv
<1>4. CASE CommitMigration(p) \/ CommitSave(p)
  BY <1>0, <1>4 DEF CommitMigration, CommitSave, Commit, LockInv
<1>5. CASE Quiet(p)
  BY <1>0, <1>5 DEF Quiet, SkipMigration, FindMissing, EndMigrate, ReadRow,
                    ReturnSave, LoadGraph, Migrated, Tell, LockInv
<1>6. CASE GivesUp(p)
  <2>1. Rollback(p) /\ pc' = [pc EXCEPT ![p] = "ended"]
    BY <1>6 DEF GivesUp, ApplyFails, RefuseSave, Fails, Tell
  <2>2. CASE p \in writer
    BY <1>0, <2>1, <2>2 DEF Rollback, LockInv
  <2>3. CASE p \notin writer
    BY <1>0, <2>1, <2>3 DEF Rollback, LockInv
  <2>4. QED BY <2>2, <2>3
<1>7. QED BY <1>1, <1>2, <1>3, <1>4, <1>5, <1>6, StepCases

\* What the two kinds of commit, and nothing else, do to the file.
LEMMA FileSteps ==
  ASSUME IInv, NEW p \in Processes, Step(p) \/ Fails(p)
  PROVE  \/ UNCHANGED committed /\ ~CommitMigration(p) /\ ~CommitSave(p)
         \/ /\ CreateVersions(p)
            /\ committed' = [committed EXCEPT !.schema =
                                @ \cup {"schema_migrations"}]
         \/ /\ CommitMigration(p)
            /\ committed' = [committed EXCEPT !.schema = @ \cup {Effect(Version(p))},
                                              !.versions = @ \cup {Version(p)}]
         \/ /\ CommitSave(p)
            /\ committed' = [committed EXCEPT
                  !.graphs[request[p].graph] = {Row(NextRevision(p), p)}]
<1> USE DEF Goto, file
<1>0. pc \in [Processes -> Labels]
  BY DEF IInv, TypeOK
<1>1. CASE CreateVersions(p)
  BY <1>1 DEF CreateVersions, AutoCommit, CommitMigration, CommitSave
<1>2. CASE CommitMigration(p)
  BY <1>2 DEF CommitMigration, Commit, IInv, MigrationInv
<1>3. CASE CommitSave(p)
  BY <1>3 DEF CommitSave, Commit, IInv, SaveInv
<1>4. CASE BeginMigration(p) \/ ApplyMigration(p) \/ BeginSave(p) \/ WriteRow(p)
  BY <1>0, <1>4 DEF BeginMigration, BeginSave, ApplyMigration, WriteRow, Begin, Write,
              Migrated, CommitMigration, CommitSave
<1>5. CASE Quiet(p)
  BY <1>0, <1>5 DEF Quiet, SkipMigration, FindMissing, EndMigrate, ReadRow,
              ReturnSave, LoadGraph, Migrated, Tell, CommitMigration, CommitSave
<1>6. CASE GivesUp(p)
  BY <1>0, <1>6 DEF GivesUp, ApplyFails, RefuseSave, Fails, Tell, Rollback,
              CommitMigration, CommitSave
<1>7. QED BY <1>1, <1>2, <1>3, <1>4, <1>5, <1>6, StepCases

LEMMA MigrationCommitted ==
  ASSUME IInv, NEW p \in Processes, CommitMigration(p)
  PROVE  /\ committed'.schema = committed.schema \cup {Effect(Version(p))}
         /\ committed'.versions = committed.versions \cup {Version(p)}
<1>1. committed' = [committed EXCEPT !.schema = @ \cup {Effect(Version(p))},
                                     !.versions = @ \cup {Version(p)}]
  BY DEF CommitMigration, Commit, IInv, MigrationInv
<1>2. committed \in Contents
  BY DEF IInv, TypeOK
<1>3. QED BY <1>1, <1>2 DEF Contents

LEMMA StepKeepsSchema ==
  ASSUME IInv, NEW p \in Processes, Step(p) \/ Fails(p)
  PROVE  SchemaInv' /\ committed.versions \subseteq committed'.versions
<1>0. SchemaInv /\ committed \in Contents
  BY DEF IInv, TypeOK
<1>1. CASE UNCHANGED committed
  BY <1>0, <1>1 DEF SchemaInv
<1>2. CASE committed' = [committed EXCEPT !.schema = @ \cup {"schema_migrations"}]
  BY <1>0, <1>2 DEF SchemaInv, Contents
<1>3. CASE /\ CommitMigration(p)
           /\ committed' = [committed EXCEPT !.schema = @ \cup {Effect(Version(p))},
                                             !.versions = @ \cup {Version(p)}]
  <2>1. /\ Version(p) \in {First, Second}
        /\ Version(p) = Second => First \in committed.versions
    BY <1>3, VersionFacts DEF CommitMigration, IInv, MigrationInv
  <2>2. /\ committed'.schema = committed.schema \cup {Effect(Version(p))}
        /\ committed'.versions = committed.versions \cup {Version(p)}
    BY <1>3, MigrationCommitted
  <2>3. CASE Version(p) = First
    BY <1>0, <2>2, <2>3, MigrationFacts DEF SchemaInv
  <2>4. CASE Version(p) = Second
    BY <1>0, <2>1, <2>2, <2>4, MigrationFacts DEF SchemaInv
  <2>5. QED BY <2>1, <2>2, <2>3, <2>4
<1>4. CASE committed' = [committed EXCEPT
                   !.graphs[request[p].graph] = {Row(NextRevision(p), p)}]
  BY <1>0, <1>4 DEF SchemaInv, Contents
<1>5. QED BY <1>1, <1>2, <1>3, <1>4, FileSteps

\* What a step leaves alone: the command lines, the data of the other
\* processes, and the file while another process is in a transaction.
LEMMA OthersAreLeftAlone ==
  ASSUME IInv, NEW p \in Processes, Step(p) \/ Fails(p)
  PROVE  /\ request' = request
         /\ \A q \in Processes \ {p} :
              /\ pc'[q] = pc[q] /\ cursor'[q] = cursor[q]
              /\ applied'[q] = applied[q] /\ seen'[q] = seen[q]
              /\ answer'[q] = answer[q]
              /\ q \in writer => UNCHANGED <<committed, staged>>
<1> USE DEF Goto, Tell, file, local
<1>0. /\ TypeOK
      /\ \A q \in Processes \ {p} : q \in writer => writer # {} /\ p \notin writer
  BY WriterIsOne DEF IInv
<1>1. CASE CreateVersions(p)
  BY <1>0, <1>1 DEF CreateVersions, AutoCommit, TypeOK
<1>2. CASE BeginMigration(p) \/ BeginSave(p)
  BY <1>0, <1>2 DEF BeginMigration, BeginSave, Begin, TypeOK
<1>3. CASE ApplyMigration(p) \/ WriteRow(p)
  BY <1>0, <1>3 DEF ApplyMigration, WriteRow, Write, TypeOK
<1>4. CASE CommitMigration(p) \/ CommitSave(p)
  BY <1>0, <1>4 DEF CommitMigration, CommitSave, Commit, TypeOK
<1>5. CASE Quiet(p)
  BY <1>0, <1>5 DEF Quiet, SkipMigration, FindMissing, EndMigrate, ReadRow,
                    ReturnSave, LoadGraph, TypeOK
<1>6. CASE GivesUp(p)
  BY <1>0, <1>6 DEF GivesUp, ApplyFails, RefuseSave, Fails, Rollback, TypeOK
<1>7. QED BY <1>1, <1>2, <1>3, <1>4, <1>5, <1>6, StepCases

\* No process counts a migration that another one has counted.
LEMMA StepKeepsApplied ==
  ASSUME IInv, NEW p \in Processes, Step(p) \/ Fails(p)
  PROVE  \A q \in Processes :
           /\ applied'[q] \subseteq committed'.versions
           /\ \A r \in Processes \ {q} : applied'[q] \cap applied'[r] = {}
<1>0. /\ TypeOK /\ MigrationInv
      /\ committed.versions \subseteq committed'.versions
      /\ \A q \in Processes \ {p} : applied'[q] = applied[q]
  BY StepKeepsSchema, OthersAreLeftAlone DEF IInv
<1>1. CASE CommitMigration(p)
  <2>1. /\ applied'[p] = applied[p] \cup {Version(p)}
        /\ Version(p) \notin committed.versions
    BY <1>0, <1>1 DEF CommitMigration, TypeOK, MigrationInv
  <2>2. Version(p) \in committed'.versions
    BY <1>1, MigrationCommitted
  <2>3. \A q \in Processes : applied[q] \subseteq committed.versions
    BY <1>0 DEF MigrationInv
  <2>4. \A q, r \in Processes : q # r => applied[q] \cap applied[r] = {}
    BY <1>0 DEF MigrationInv
  <2>5. \A q \in Processes : Version(p) \notin applied[q]
    BY <2>1, <2>3
  <2>6. ASSUME NEW q \in Processes PROVE applied'[q] \subseteq committed'.versions
    BY <1>0, <2>1, <2>2, <2>3, <2>6
  <2>7. ASSUME NEW q \in Processes, NEW r \in Processes \ {q}
        PROVE  applied'[q] \cap applied'[r] = {}
    BY <1>0, <2>1, <2>4, <2>5, <2>7
  <2>8. QED BY <2>6, <2>7
<1>2. CASE ~CommitMigration(p)
  <2>1. applied'[p] = applied[p]
    BY <1>2 DEF Step, CreateVersions, SkipMigration, FindMissing, BeginMigration,
                ApplyMigration, ApplyFails, EndMigrate, BeginSave, ReadRow,
                RefuseSave, WriteRow, CommitSave, ReturnSave, LoadGraph, Fails,
                local
  <2>2. QED BY <1>0, <2>1, ZenonT(30) DEF MigrationInv
<1>3. QED BY <1>1, <1>2

\* A process passes a migration that it found, or has just committed.
LEMMA StepKeepsMigration ==
  ASSUME IInv, NEW p \in Processes, Step(p) \/ Fails(p)
  PROVE  MigrationInv'
<1> USE DEF Goto, Tell, file, local, Saving
<1>0. /\ TypeOK /\ LockInv /\ SchemaInv /\ MigrationInv
      /\ committed.versions \subseteq committed'.versions
      /\ Len(Migrations) = 2
      /\ cursor[p] \in {1, 2, 3} /\ pc[p] \in Labels
  <2>1. cursor[p] \in 1..3
    BY MigrationFacts DEF IInv, TypeOK
  <2>2. QED BY <2>1, StepKeepsSchema, MigrationFacts DEF IInv, TypeOK
<1> DEFINE Passed(q) ==
      /\ pc[q] \in {"begin", "apply", "commit"} => cursor[q] \in {1, 2}
      /\ pc[q] \in Saving => cursor[q] = 3
      /\ cursor[q] > 1 => First \in committed.versions
      /\ cursor[q] > 2 => Second \in committed.versions
      /\ pc[q] = "commit" =>
           /\ Version(q) \notin committed.versions
           /\ Version(q) = Second => First \in committed.versions
           /\ staged = [committed EXCEPT !.schema = @ \cup {Effect(Version(q))},
                                         !.versions = @ \cup {Version(q)}]
<1>1. ASSUME NEW q \in Processes \ {p} PROVE Passed(q)'
  <2>1. pc'[q] = pc[q] /\ cursor'[q] = cursor[q]
    BY OthersAreLeftAlone
  <2>2. pc[q] = "commit" => UNCHANGED <<committed, staged>>
    BY <1>0, OthersAreLeftAlone DEF LockInv, Locking
  <2>3. Passed(q)
    BY <1>0 DEF MigrationInv
  <2>4. QED BY <1>0, <2>1, <2>2, <2>3 DEF Version
<1>2. ASSUME pc'[p] = pc[p] \/ pc'[p] \in {"select", "ended"}, 
             cursor'[p] = cursor[p],
             pc[p] # "commit" \/ pc'[p] # "commit"
      PROVE  Passed(p)'
  <2>1. Passed(p)
    BY <1>0 DEF MigrationInv
  <2>2. QED BY <1>0, <1>2, <2>1
<1>3. Passed(p)
  BY <1>0 DEF MigrationInv
<1>4. Passed(p)'
  <2>1. CASE CreateVersions(p)
    BY <1>0, <1>2, <2>1 DEF CreateVersions, TypeOK
  <2>2. CASE SkipMigration(p)
    <3>1. p \notin writer /\ Version(p) \in committed.versions
      BY <1>0, <2>2 DEF SkipMigration, View, LockInv, Locking
    <3>2. /\ pc'[p] = "select" /\ cursor'[p] = cursor[p] + 1
          /\ cursor[p] \in {1, 2}
      BY <1>0, <2>2 DEF SkipMigration, TypeOK
    <3>3. \/ Version(p) = First /\ cursor[p] = 1
          \/ Version(p) = Second /\ cursor[p] = 2 /\ First \in committed.versions
      BY <1>3, <3>2, VersionFacts
    <3>4. QED BY <1>0, <3>1, <3>2, <3>3
  <2>3. CASE FindMissing(p) \/ BeginMigration(p)
    <3>1. /\ pc'[p] \in {"begin", "apply"} /\ cursor'[p] = cursor[p]
          /\ cursor[p] \in {1, 2}
      BY <1>0, <1>3, <2>3 DEF FindMissing, BeginMigration, TypeOK
    <3>2. QED BY <1>0, <1>3, <3>1
  <2>4. CASE ApplyMigration(p)
    <3>1. /\ pc'[p] = "commit" /\ cursor'[p] = cursor[p]
          /\ cursor[p] \in {1, 2}
          /\ UNCHANGED committed /\ View(p) = committed
      BY <1>0, <2>4 DEF ApplyMigration, TypeOK, MigrationInv, Write, View, LockInv
    <3>2. /\ Version(p) \notin committed.versions
          /\ Version(p) = Second => First \in committed.versions
      BY <1>0, <2>4, <3>1 DEF ApplyMigration, Applicable, Second, SchemaInv
    <3>3. staged' = [committed EXCEPT !.schema = @ \cup {Effect(Version(p))},
                                      !.versions = @ \cup {Version(p)}]
      BY <2>4, <3>1 DEF ApplyMigration, Write
    <3>4. Version(p)' = Version(p)
      BY <3>1 DEF Version
    <3>5. QED BY <1>0, <3>1, <3>2, <3>3, <3>4 DEF MigrationInv
  <2>5. CASE CommitMigration(p)
    <3>1. /\ pc'[p] = "select" /\ cursor'[p] = cursor[p] + 1
          /\ cursor[p] \in {1, 2}
      BY <1>0, <2>5 DEF CommitMigration, TypeOK, MigrationInv
    <3>2. Version(p) \in committed'.versions
      BY <2>5, MigrationCommitted
    <3>3. \/ Version(p) = First /\ cursor[p] = 1
          \/ Version(p) = Second /\ cursor[p] = 2 /\ First \in committed.versions
      BY <1>3, <3>1, VersionFacts
    <3>4. QED BY <1>0, <3>1, <3>2, <3>3
  <2>6. CASE BeginSave(p)
    <3>1. pc'[p] = "read" /\ cursor'[p] = cursor[p] /\ cursor[p] = 3
      BY <1>0, <2>6 DEF BeginSave, Migrated, TypeOK
    <3>2. QED BY <1>0, <3>1 DEF MigrationInv
  <2>7. CASE ReadRow(p) \/ WriteRow(p) \/ CommitSave(p)
    <3>1. /\ pc'[p] \in {"write", "store", "return"} /\ cursor'[p] = cursor[p]
          /\ cursor[p] = 3
      BY <1>0, <2>7 DEF ReadRow, WriteRow, CommitSave, TypeOK, MigrationInv
    <3>2. QED BY <1>0, <3>1 DEF MigrationInv
  <2>8. CASE EndMigrate(p) \/ LoadGraph(p) \/ ReturnSave(p) \/ GivesUp(p)
    <3>1. pc'[p] = "ended" /\ cursor'[p] = cursor[p]
      BY <1>0, <2>8 DEF EndMigrate, LoadGraph, ReturnSave, GivesUp, ApplyFails,
                        RefuseSave, Fails, TypeOK
    <3>2. QED BY <1>2, <3>1
  <2>9. QED
    BY <2>1, <2>2, <2>3, <2>4, <2>5, <2>6, <2>7, <2>8, StepCases DEF Quiet
<1>5. \A q \in Processes : Passed(q)'
  BY <1>1, <1>4
<1>6. QED BY <1>5, StepKeepsApplied DEF MigrationInv

\* The lock keeps what a save has read until the save is committed.
LEMMA StepKeepsSave ==
  ASSUME IInv, NEW p \in Processes, Step(p) \/ Fails(p)
  PROVE  SaveInv'
<1> USE DEF Goto, Tell, file, local, Saving
<1> DEFINE SaveOf(q) ==
      /\ pc[q] \in Saving => request[q].kind = "save"
      /\ pc[q] \in {"write", "store"} =>
           seen[q] = committed.graphs[request[q].graph]
      /\ pc[q] \in {"store", "return"} => Expected(q)
      /\ pc[q] = "store" =>
           staged = [committed EXCEPT
                       !.graphs[request[q].graph] = {Row(NextRevision(q), q)}]
<1>0. /\ TypeOK /\ LockInv /\ request' = request
      /\ \A q \in Processes : SaveOf(q)
  BY OthersAreLeftAlone DEF IInv, SaveInv
<1>1. ASSUME NEW q \in Processes, request' = request, seen'[q] = seen[q]
      PROVE  (Expected(q)' <=> Expected(q)) /\ NextRevision(q)' = NextRevision(q)
  BY <1>1 DEF Expected, NextRevision, Revisions
<1>2. ASSUME NEW q \in Processes \ {p} PROVE SaveOf(q)'
  <2>1. pc'[q] = pc[q] /\ seen'[q] = seen[q]
    BY OthersAreLeftAlone
  <2>2. pc[q] \in {"write", "store"} => UNCHANGED <<committed, staged>>
    BY <1>0, OthersAreLeftAlone DEF LockInv, Locking
  <2>3. (Expected(q)' <=> Expected(q)) /\ NextRevision(q)' = NextRevision(q)
    BY <1>0, <1>1, <2>1
  <2>4. QED BY <1>0, <2>1, <2>2, <2>3
<1>3. SaveOf(p)'
  <2>0. SaveOf(p)
    BY <1>0
  <2>1. CASE \/ CreateVersions(p) \/ SkipMigration(p) \/ FindMissing(p)
             \/ BeginMigration(p) \/ ApplyMigration(p) \/ CommitMigration(p)
    <3>1. pc'[p] \in {"select", "begin", "apply", "commit"}
      BY <1>0, <2>1 DEF CreateVersions, SkipMigration, FindMissing,
                        BeginMigration, ApplyMigration, CommitMigration, TypeOK
    <3>2. QED BY <3>1
  <2>2. CASE EndMigrate(p) \/ LoadGraph(p) \/ ReturnSave(p) \/ GivesUp(p)
    <3>1. pc'[p] = "ended"
      BY <1>0, <2>2 DEF EndMigrate, LoadGraph, ReturnSave, GivesUp, ApplyFails,
                        RefuseSave, Fails, TypeOK
    <3>2. QED BY <3>1
  <2>3. CASE BeginSave(p)
    BY <1>0, <2>3 DEF BeginSave, TypeOK
  <2>4. CASE ReadRow(p)
    <3>1. View(p) = committed
      BY <1>0, <2>4 DEF ReadRow, View, LockInv
    <3>2. /\ pc[p] = "read" /\ pc'[p] = "write" /\ UNCHANGED committed
          /\ seen'[p] = committed.graphs[request[p].graph]
      BY <1>0, <2>4, <3>1 DEF ReadRow, TypeOK
    <3>3. QED BY <1>0, <2>0, <3>2
  <2>5. CASE WriteRow(p)
    <3>1. View(p) = committed
      BY <1>0, <2>5 DEF WriteRow, View, LockInv
    <3>2. /\ pc[p] = "write" /\ pc'[p] = "store" /\ Expected(p)
          /\ UNCHANGED <<committed, seen>>
          /\ staged' = [committed EXCEPT
               !.graphs[request[p].graph] = {Row(NextRevision(p), p)}]
      BY <1>0, <2>5, <3>1 DEF WriteRow, Write, TypeOK
    <3>3. Expected(p)' /\ NextRevision(p)' = NextRevision(p)
      BY <1>0, <1>1, <3>2
    <3>4. QED BY <1>0, <2>0, <3>2, <3>3
  <2>6. CASE CommitSave(p)
    <3>1. pc[p] = "store" /\ pc'[p] = "return" /\ UNCHANGED seen
      BY <1>0, <2>6 DEF CommitSave, TypeOK
    <3>2. Expected(p)'
      BY <1>0, <1>1, <2>0, <3>1
    <3>3. QED BY <1>0, <2>0, <3>1, <3>2
  <2>7. QED BY <2>1, <2>2, <2>3, <2>4, <2>5, <2>6, StepCases DEF Quiet
<1>4. QED BY <1>2, <1>3 DEF SaveInv

LEMMA StutterKeepsInv == IInv /\ UNCHANGED vars => IInv'
<1> SUFFICES ASSUME IInv, UNCHANGED vars PROVE IInv'
  OBVIOUS
<1> USE DEF vars, file, local, IInv
<1>1. TypeOK'
  BY DEF TypeOK
<1>2. LockInv'
  BY DEF LockInv
<1>3. SchemaInv'
  BY DEF SchemaInv
<1>4. MigrationInv'
  BY DEF MigrationInv, Version
<1>5. SaveInv'
  BY DEF SaveInv, Expected, NextRevision
<1>6. QED BY <1>1, <1>2, <1>3, <1>4, <1>5

LEMMA NextKeepsInv == IInv /\ [Next]_vars => IInv'
<1> SUFFICES ASSUME IInv, [Next]_vars PROVE IInv'
  OBVIOUS
<1>1. ASSUME NEW p \in Processes, Step(p) \/ Fails(p) PROVE IInv'
  BY <1>1, StepTyped, StepKeepsLock, StepKeepsSchema, StepKeepsMigration,
     StepKeepsSave DEF IInv
<1>2. CASE UNCHANGED vars
  BY <1>2, StutterKeepsInv
<1>3. QED BY <1>1, <1>2 DEF Next, Done

(***************************************************************************)
(* Theorems.                                                               *)
(***************************************************************************)

\* The invariant holds in every state of every run.
THEOREM Inductive == Spec => []IInv
BY InitInv, NextKeepsInv, PTL DEF Spec

\* Every variable keeps its type, so that graph_id stays a key and one process
\* at a time has a transaction.
THEOREM TypeCorrect == Spec => []TypeOK
<1>1. IInv => TypeOK
  BY DEF IInv
<1>2. QED BY <1>1, Inductive, PTL

\* The schema is what schema_migrations says, whichever processes applied the
\* migrations and whatever they failed at (apply_migration).
THEOREM Versioned == Spec => []SchemaIsVersioned
<1>1. IInv => SchemaIsVersioned
  <2> SUFFICES ASSUME IInv, NEW i \in DOMAIN Migrations
               PROVE  /\ Migrations[i] \in committed.versions
                           <=> Effect(Migrations[i]) \in committed.schema
                      /\ Migrations[i] \in committed.versions =>
                           \A j \in 1..i-1 : Migrations[j] \in committed.versions
    BY DEF SchemaIsVersioned
  <2>1. i = 1 \/ i = 2
    BY DEF Migrations
  <2>2. CASE i = 1
    BY <2>2, MigrationFacts DEF IInv, SchemaInv, First
  <2>3. CASE i = 2
    <3>1. \A j \in 1..i-1 : j = 1
      BY <2>3
    <3>2. QED BY <2>3, <3>1, MigrationFacts DEF IInv, SchemaInv, First, Second
  <2>4. QED BY <2>1, <2>2, <2>3
<1>2. QED BY <1>1, Inductive, PTL

\* No migration is applied by two processes, although each asks outside its
\* transaction whether it is missing.
THEOREM Once == Spec => []AppliedOnce
<1>1. IInv => AppliedOnce
  BY DEF IInv, MigrationInv, AppliedOnce
<1>2. QED BY <1>1, Inductive, PTL

\* A graph is saved or loaded only in a file that has every migration.
THEOREM Ready == Spec => []StoreIsReady
<1>1. IInv => StoreIsReady
  <2> SUFFICES ASSUME IInv, NEW p \in Processes,
                      Migrated(p) \/ pc[p] \in Saving
               PROVE  /\ Range(Migrations) \subseteq committed.versions
                      /\ {Effect(v) : v \in Range(Migrations)} \subseteq committed.schema
    BY DEF StoreIsReady, Saving
  <2>1. cursor[p] \in 1..3
    BY MigrationFacts DEF IInv, TypeOK
  <2>2. /\ pc[p] \in Saving => cursor[p] = 3
        /\ cursor[p] > 1 => First \in committed.versions
        /\ cursor[p] > 2 => Second \in committed.versions
    BY DEF IInv, MigrationInv
  <2>3. cursor[p] = 3
    BY <2>1, <2>2, MigrationFacts DEF Migrated
  <2>4. First \in committed.versions /\ Second \in committed.versions
    BY <2>2, <2>3
  <2>5. QED BY <2>4, MigrationFacts DEF IInv, SchemaInv
<1>2. QED BY <1>1, Inductive, PTL

(***************************************************************************)
(* Refinement.                                                             *)
(***************************************************************************)

\* The register's copies of the operators are the same, and the row it makes is
\* the one save_graph writes.
LEMMA RegisterOperators ==
  /\ Register!NoAnswer = NoAnswer
  /\ \A kind, row : Register!Answer(kind, row) = Answer(kind, row)
  /\ \A revision, source : Register!Row(revision, source) = Row(revision, source)
  /\ \A rows : Register!Revisions(rows) = Revisions(rows)
BY DEF Register!NoAnswer, NoAnswer, Register!Answer, Answer, Register!Row, Row,
       Register!Revisions, Revisions

LEMMA RegisterRow ==
  ASSUME TypeOK, NEW p \in Processes, Expected(p)
  PROVE  Register!NewRow(p) = {Row(NextRevision(p), p)}
<1>1. request[p] \in Requests
  BY DEF TypeOK
<1>2. CASE request[p].expected = {}
  BY <1>2, NextRevisionTyped, RegisterOperators DEF Register!NewRow
<1>3. CASE request[p].expected # {}
  <2>1. PICK n \in 1..MaxExpected : request[p].expected = {n}
    BY <1>1, <1>3, RequestFacts
  <2>2. NextRevision(p) = n + 1
    BY <2>1, NextRevisionTyped
  <2>3. Register!NewRow(p) = {Row(m + 1, p) : m \in {n}}
    BY <2>1, RegisterOperators DEF Register!NewRow
  <2>4. QED BY <2>2, <2>3
<1>4. QED BY <1>2, <1>3

\* The status of a process while another step of it is taken.
LEMMA StatusStep ==
  ASSUME IInv, NEW p \in Processes, Step(p) \/ Fails(p)
  PROVE  /\ Status[p] = IF pc[p] = "return" THEN "stored"
                        ELSE IF pc[p] = "ended" THEN "ended" ELSE "open"
         /\ pc'[p] = "return" => Status' = [Status EXCEPT ![p] = "stored"]
         /\ pc'[p] = "ended" => Status' = [Status EXCEPT ![p] = "ended"]
         /\ pc[p] \notin {"return", "ended"} /\ pc'[p] \notin {"return", "ended"}
              => Status' = Status
BY OthersAreLeftAlone DEF Status

LEMMA StepRefines ==
  ASSUME IInv, NEW p \in Processes, Step(p) \/ Fails(p)
  PROVE  \/ UNCHANGED <<request, committed.graphs, Status, answer>>
         \/ Register!Store(p) \/ Register!Acknowledge(p) \/ Register!Refuse(p)
         \/ Register!Load(p) \/ Register!Migrate(p) \/ Register!Fail(p)
<1> USE DEF Goto, file, local
<1>0. /\ TypeOK /\ LockInv /\ SaveInv /\ committed \in Contents
      /\ committed.graphs \in [Graphs -> OneOf(Rows)]
      /\ request' = request
  BY OthersAreLeftAlone DEF IInv, TypeOK, Contents
<1>1. ASSUME NEW what, Tell(p, what), UNCHANGED committed
      PROVE  /\ Register!Tell(p, what) /\ UNCHANGED <<request, committed.graphs>>
             /\ pc'[p] = "ended"
  <2>1. pc'[p] = "ended"
    BY <1>0, <1>1 DEF Tell, TypeOK
  <2>2. QED BY <1>0, <1>1, <2>1, StatusStep DEF Tell, Register!Tell
<1>2. CASE CreateVersions(p) \/ CommitMigration(p)
  <2>1. committed'.graphs = committed.graphs
    BY <1>0, <1>2, FileSteps DEF CreateVersions, CommitMigration, CommitSave,
                                 Contents
  <2>2. pc[p] \in {"create", "commit"} /\ pc'[p] = "select" /\ answer' = answer
    BY <1>0, <1>2 DEF CreateVersions, CommitMigration, TypeOK
  <2>3. QED BY <1>0, <2>1, <2>2, StatusStep
<1>3. CASE \/ SkipMigration(p) \/ FindMissing(p) \/ BeginMigration(p)
           \/ ApplyMigration(p) \/ BeginSave(p) \/ ReadRow(p) \/ WriteRow(p)
  <2>1. /\ UNCHANGED <<committed, answer>>
        /\ pc[p] \notin {"return", "ended"} /\ pc'[p] \notin {"return", "ended"}
    BY <1>0, <1>3 DEF SkipMigration, FindMissing, BeginMigration, ApplyMigration,
                      BeginSave, ReadRow, WriteRow, Begin, Write, Migrated, TypeOK
  <2>2. QED BY <1>0, <2>1, StatusStep
<1>4. CASE CommitSave(p)
  <2>1. /\ pc[p] = "store" /\ pc'[p] = "return" /\ answer' = answer
        /\ committed' = staged
    BY <1>0, <1>4 DEF CommitSave, Commit, TypeOK
  <2>2. /\ request[p].kind = "save" /\ Expected(p)
        /\ seen[p] = committed.graphs[request[p].graph]
        /\ staged = [committed EXCEPT
                      !.graphs[request[p].graph] = {Row(NextRevision(p), p)}]
    BY <1>0, <2>1 DEF SaveInv, Saving
  <2>3. committed'.graphs = [committed.graphs EXCEPT
                               ![request[p].graph] = Register!NewRow(p)]
    BY <1>0, <2>1, <2>2, RegisterRow DEF Contents
  <2>4. Register!Matches(p)
    BY <2>2, RegisterOperators DEF Register!Matches, Expected
  <2>5. QED BY <1>0, <2>1, <2>2, <2>3, <2>4, StatusStep DEF Register!Store
<1>5. CASE ReturnSave(p)
  <2>1. /\ pc[p] = "return" /\ Expected(p) /\ UNCHANGED committed
        /\ Tell(p, Answer("saved", {Row(NextRevision(p), p)}))
    BY <1>0, <1>5 DEF ReturnSave, SaveInv
  <2>2. QED
    BY <1>0, <1>1, <2>1, RegisterRow, RegisterOperators, StatusStep
       DEF Register!Acknowledge
<1>6. CASE RefuseSave(p)
  <2>1. /\ pc[p] = "write" /\ ~Expected(p) /\ UNCHANGED committed
        /\ request[p].kind = "save"
        /\ seen[p] = committed.graphs[request[p].graph]
        /\ Tell(p, Answer("conflict", {}))
    BY <1>0, <1>6 DEF RefuseSave, Rollback, SaveInv, Saving
  <2>2. ~Register!Matches(p)
    BY <2>1, RegisterOperators DEF Register!Matches, Expected
  <2>3. QED
    BY <1>1, <2>1, <2>2, RegisterOperators, StatusStep DEF Register!Refuse
<1>7. CASE LoadGraph(p)
  <2> DEFINE row == committed.graphs[request[p].graph]
  <2>1. pc[p] = "select" /\ request[p].kind = "load" /\ View(p) = committed
    BY <1>0, <1>7 DEF LoadGraph, Migrated, View, LockInv, Locking
  <2>2. /\ UNCHANGED committed
        /\ Tell(p, Answer(IF row = {} THEN "missing" ELSE "loaded", row))
    BY <1>7, <2>1 DEF LoadGraph
  <2>3. QED
    BY <1>1, <2>1, <2>2, RegisterOperators, StatusStep DEF Register!Load
<1>8. CASE EndMigrate(p)
  <2>1. /\ pc[p] = "select" /\ request[p].kind = "migrate" /\ UNCHANGED committed
        /\ Tell(p, Answer("migrated", {}))
    BY <1>8 DEF EndMigrate, Migrated
  <2>2. QED BY <1>1, <2>1, RegisterOperators, StatusStep DEF Register!Migrate
<1>9. CASE ApplyFails(p) \/ Fails(p)
  <2>1. /\ pc[p] # "ended" /\ UNCHANGED committed
        /\ Tell(p, Answer("failed", {}))
    BY <1>9 DEF ApplyFails, Fails, Rollback
  <2>2. QED BY <1>1, <2>1, RegisterOperators, StatusStep DEF Register!Fail
<1>10. QED
  BY <1>2, <1>3, <1>4, <1>5, <1>6, <1>7, <1>8, <1>9 DEF Step

\* The stored graphs are compare-and-set registers: every save takes effect at
\* its commit, on the revision it expected, and every answer is true
\* (save_graph, load_graph).
THEOREM Refinement == Spec => ImplementsRegister
<1>1. Init => Register!Init
  BY RegisterOperators DEF Init, Register!Init, OpenFile, EmptyFile, Status
<1>2. IInv /\ [Next]_vars => [Register!Next]_(Register!vars)
  <2> SUFFICES ASSUME IInv, [Next]_vars
               PROVE  \/ Register!Next
                      \/ UNCHANGED <<request, committed.graphs, Status, answer>>
    BY DEF Register!vars
  <2>1. CASE UNCHANGED vars
    BY <2>1 DEF vars, file, local, Status
  <2>2. ASSUME NEW p \in Processes, Step(p) \/ Fails(p)
        PROVE  \/ Register!Next
               \/ UNCHANGED <<request, committed.graphs, Status, answer>>
    BY <2>2, StepRefines DEF Register!Next
  <2>3. QED BY <2>1, <2>2 DEF Next, Done
<1>3. QED
  BY <1>1, <1>2, Inductive, PTL DEF Spec, ImplementsRegister, Register!Spec

(***************************************************************************)
(* Acknowledged saves.                                                     *)
(***************************************************************************)

\* The row a process has committed and not failed to report.
Made(p) == IF pc[p] = "return" THEN {Row(NextRevision(p), p)}
           ELSE IF answer[p].kind = "saved" THEN answer[p].row
           ELSE {}

Graph(p) == request[p].graph

\* What is made is current or was followed, and no revision is made twice.
SerialInv ==
  /\ \A p \in Processes : answer[p].kind = "saved" => pc[p] = "ended"
  /\ \A p \in Processes : \A r \in Made(p) :
       \E s \in committed.graphs[Graph(p)] : s = r \/ s.revision > r.revision
  /\ \A p, q \in Processes : p # q /\ Graph(p) = Graph(q) =>
       \A r \in Made(p), t \in Made(q) : r.revision # t.revision

LEMMA MadeTyped ==
  ASSUME IInv, NEW p \in Processes
  PROVE  Made(p) \subseteq Rows
<1>1. CASE pc[p] = "return"
  <2>1. {Row(NextRevision(p), p)} \in OneOf(Rows)
    BY <1>1, NewRowTyped DEF IInv, SaveInv
  <2>2. QED BY <1>1, <2>1 DEF Made, OneOf
<1>2. CASE pc[p] # "return"
  <2>1. answer[p].row \in OneOf(Rows)
    BY DEF IInv, TypeOK, Answers
  <2>2. QED BY <1>2, <2>1 DEF Made, OneOf
<1>3. QED BY <1>1, <1>2

\* Only the commit of a save makes a row.
LEMMA MadeStep ==
  ASSUME IInv, SerialInv, NEW p \in Processes, Step(p) \/ Fails(p)
  PROVE  /\ \A q \in Processes : Graph(q)' = Graph(q)
         /\ \A q \in Processes \ {p} : Made(q)' = Made(q)
         /\ ~CommitSave(p) => Made(p)' \subseteq Made(p)
         /\ answer'[p].kind = "saved" => pc'[p] = "ended"
<1> USE DEF Goto, file, local
<1>0. /\ TypeOK
      /\ answer[p].kind = "saved" => pc[p] = "ended"
  BY DEF IInv, SerialInv
<1>1. \A q \in Processes : Graph(q)' = Graph(q)
  BY OthersAreLeftAlone DEF Graph
<1>2. ASSUME NEW q \in Processes \ {p} PROVE Made(q)' = Made(q)
  BY OthersAreLeftAlone DEF Made, NextRevision, Revisions
<1>3. ASSUME NEW what, Tell(p, what)
      PROVE  pc'[p] = "ended" /\ answer'[p] = what
  BY <1>0, <1>3 DEF Tell, TypeOK
<1>4. CASE \/ CreateVersions(p) \/ SkipMigration(p) \/ FindMissing(p)
           \/ BeginMigration(p) \/ ApplyMigration(p) \/ CommitMigration(p)
           \/ BeginSave(p) \/ ReadRow(p) \/ WriteRow(p) \/ CommitSave(p)
  <2>1. UNCHANGED answer /\ pc[p] # "ended"
    BY <1>4 DEF CreateVersions, SkipMigration, FindMissing, BeginMigration,
                ApplyMigration, CommitMigration, BeginSave, ReadRow, WriteRow,
                CommitSave, Migrated
  <2>2. ~CommitSave(p) => pc'[p] # "return"
    BY <1>0, <1>4 DEF CreateVersions, SkipMigration, FindMissing, BeginMigration,
                ApplyMigration, CommitMigration, BeginSave, ReadRow, WriteRow, TypeOK
  <2>3. QED BY <1>0, <1>1, <1>2, <2>1, <2>2 DEF Made
<1>5. CASE ReturnSave(p)
  <2>1. /\ pc[p] = "return" /\ pc'[p] = "ended"
        /\ answer'[p] = Answer("saved", {Row(NextRevision(p), p)})
    BY <1>3, <1>5 DEF ReturnSave
  <2>2. Made(p)' = {Row(NextRevision(p), p)}
    BY <2>1 DEF Made, Answer
  <2>3. QED BY <1>1, <1>2, <2>1, <2>2 DEF Made
<1>6. CASE EndMigrate(p) \/ LoadGraph(p) \/ GivesUp(p)
  <2>1. pc'[p] = "ended" /\ answer'[p].kind # "saved"
    BY <1>3, <1>6 DEF EndMigrate, LoadGraph, GivesUp, ApplyFails, RefuseSave,
                      Fails, Answer
  <2>2. QED BY <1>1, <1>2, <2>1 DEF Made
<1>7. QED BY <1>4, <1>5, <1>6, StepCases DEF Quiet

\* A save takes the revision after the current one.
LEMMA SaveFollows ==
  ASSUME IInv, NEW p \in Processes, CommitSave(p)
  PROVE  /\ committed'.graphs[Graph(p)] = {Row(NextRevision(p), p)}
         /\ \A g \in Graphs \ {Graph(p)} :
              committed'.graphs[g] = committed.graphs[g]
         /\ \A s \in committed.graphs[Graph(p)] :
              s \in Rows /\ NextRevision(p) > s.revision
         /\ NextRevision(p) \in Nat
         /\ Made(p)' = {Row(NextRevision(p), p)}
<1>1. /\ TypeOK /\ pc[p] = "store" /\ pc'[p] = "return" /\ UNCHANGED seen
      /\ committed' = staged
  BY DEF CommitSave, Commit, Goto, local, IInv, TypeOK
<1>2. /\ Expected(p) /\ seen[p] = committed.graphs[Graph(p)]
      /\ committed' = [committed EXCEPT !.graphs[Graph(p)] = {Row(NextRevision(p), p)}]
  BY <1>1 DEF IInv, SaveInv, Graph
<1>3. committed \in Contents /\ Graph(p) \in Graphs /\ seen[p] \in OneOf(Rows)
  BY <1>1, RequestFacts DEF TypeOK, Graph
<1>4. /\ committed'.graphs[Graph(p)] = {Row(NextRevision(p), p)}
      /\ \A g \in Graphs \ {Graph(p)} : committed'.graphs[g] = committed.graphs[g]
  BY <1>2, <1>3 DEF Contents
<1>5. NextRevision(p) \in Nat
  BY <1>1, <1>2, NextRevisionTyped, BoundAssumption
<1>6. ASSUME NEW s \in committed.graphs[Graph(p)]
      PROVE  s \in Rows /\ NextRevision(p) > s.revision
  <2>1. seen[p] = {s} /\ s \in Rows
    BY <1>2, <1>3, <1>6 DEF OneOf
  <2>2. NextRevision(p) = 1 + s.revision
    BY <2>1, RevisionOfOne DEF NextRevision
  <2>3. QED BY <2>1, <2>2, BoundAssumption DEF Rows
<1>7. NextRevision(p)' = NextRevision(p)
  BY <1>1 DEF NextRevision, Revisions
<1>8. Made(p)' = {Row(NextRevision(p), p)}
  BY <1>1, <1>7 DEF Made, Row
<1>9. QED BY <1>4, <1>5, <1>6, <1>8

LEMMA StepKeepsSerial ==
  ASSUME IInv, SerialInv, NEW p \in Processes, Step(p) \/ Fails(p)
  PROVE  SerialInv'
<1>0. /\ \A q \in Processes : Graph(q)' = Graph(q) /\ Graph(q) \in Graphs
      /\ \A q \in Processes \ {p} : Made(q)' = Made(q)
  BY MadeStep, RequestFacts DEF IInv, TypeOK, Graph
<1>1. \A q \in Processes : answer'[q].kind = "saved" => pc'[q] = "ended"
  BY MadeStep, OthersAreLeftAlone DEF SerialInv
<1>2. CASE ~CommitSave(p)
  <2>1. committed'.graphs = committed.graphs
    BY <1>2, FileSteps DEF IInv, TypeOK, Contents
  <2>2. \A q \in Processes : Made(q)' \subseteq Made(q)
    BY <1>0, <1>2, MadeStep
  <2>3. QED BY <1>0, <1>1, <2>1, <2>2 DEF SerialInv
<1>3. CASE CommitSave(p)
  <2> DEFINE new == Row(NextRevision(p), p)
  <2>0. new.revision = NextRevision(p)
    BY DEF Row
  <2>1. /\ Made(p)' = {new} /\ committed'.graphs[Graph(p)] = {new}
        /\ NextRevision(p) \in Nat
    BY <1>3, SaveFollows
  <2>2. ASSUME NEW q \in Processes \ {p}, Graph(q) = Graph(p), NEW r \in Made(q)
        PROVE  new.revision > r.revision /\ r.revision \in Nat
    <3>1. PICK s \in committed.graphs[Graph(p)] : s = r \/ s.revision > r.revision
      BY <2>2 DEF SerialInv
    <3>2. s \in Rows /\ NextRevision(p) > s.revision
      BY <1>3, SaveFollows
    <3>3. s.revision \in Nat /\ r.revision \in Nat
      BY <2>2, <3>2, MadeTyped, BoundAssumption DEF Rows
    <3>4. QED BY <2>0, <2>1, <3>1, <3>2, <3>3
  <2>3. ASSUME NEW q \in Processes, NEW r \in Made(q)'
        PROVE  \E s \in committed'.graphs[Graph(q)] : s = r \/ s.revision > r.revision
    <3>1. CASE q = p
      BY <2>1, <2>3, <3>1
    <3>2. CASE q # p /\ Graph(q) = Graph(p)
      BY <1>0, <2>1, <2>2, <2>3, <3>2
    <3>3. CASE q # p /\ Graph(q) # Graph(p)
      <4>1. committed'.graphs[Graph(q)] = committed.graphs[Graph(q)]
        BY <1>0, <1>3, <3>3, SaveFollows
      <4>2. QED BY <1>0, <2>3, <3>3, <4>1 DEF SerialInv
    <3>4. QED BY <3>1, <3>2, <3>3
  <2>4. ASSUME NEW q \in Processes, NEW r \in Processes, q # r, Graph(q) = Graph(r),
               NEW a \in Made(q)', NEW b \in Made(r)'
        PROVE  a.revision # b.revision
    <3>1. CASE q = p
      <4>1. a = new /\ b \in Made(r)
        BY <1>0, <2>1, <2>4, <3>1
      <4>2. new.revision > b.revision /\ b.revision \in Nat
        BY <2>2, <2>4, <3>1, <4>1
      <4>3. QED BY <2>0, <2>1, <4>1, <4>2
    <3>2. CASE r = p
      <4>1. b = new /\ a \in Made(q)
        BY <1>0, <2>1, <2>4, <3>2
      <4>2. new.revision > a.revision /\ a.revision \in Nat
        BY <2>2, <2>4, <3>2, <4>1
      <4>3. QED BY <2>0, <2>1, <4>1, <4>2
    <3>3. CASE q # p /\ r # p
      BY <1>0, <2>4, <3>3 DEF SerialInv
    <3>4. QED BY <3>1, <3>2, <3>3
  <2>5. QED BY <1>0, <1>1, <2>3, <2>4 DEF SerialInv
<1>4. QED BY <1>2, <1>3

\* An acknowledged save is never lost, and two saves of a graph never get the
\* same revision (save_graph).
THEOREM Serial == Spec => []SavesAreSerial
<1>1. Init => SerialInv
  BY DEF Init, SerialInv, Made, NoAnswer
<1>2. IInv /\ SerialInv /\ [Next]_vars => SerialInv'
  <2> SUFFICES ASSUME IInv, SerialInv, [Next]_vars PROVE SerialInv'
    OBVIOUS
  <2>1. CASE UNCHANGED vars
    <3>1. \A q \in Processes : Made(q)' = Made(q)
      BY <2>1 DEF vars, local, Made, NextRevision
    <3>2. QED BY <2>1, <3>1 DEF vars, file, SerialInv, Graph
  <2>2. ASSUME NEW p \in Processes, Step(p) \/ Fails(p) PROVE SerialInv'
    BY <2>2, StepKeepsSerial
  <2>3. QED BY <2>1, <2>2 DEF Next, Done
<1>3. IInv /\ SerialInv => SavesAreSerial
  <2> SUFFICES ASSUME IInv, SerialInv, NEW p \in Processes, NEW a \in Saved(p),
                      NEW r \in a.row
               PROVE  /\ \E s \in committed.graphs[request[p].graph] :
                           s = r \/ s.revision > r.revision
                      /\ \A q \in Processes \ {p} : request[q].graph = request[p].graph =>
                           \A b \in Saved(q) : Revisions(b.row) # {r.revision}
    BY DEF SavesAreSerial
  <2>1. \A q \in Processes : \A b \in Saved(q) : Made(q) = b.row
    BY DEF Saved, SerialInv, Made
  <2>2. ASSUME NEW q \in Processes \ {p}, Graph(q) = Graph(p), NEW b \in Saved(q),
               Revisions(b.row) = {r.revision}
        PROVE  FALSE
    <3>1. PICK t \in b.row : t.revision = r.revision
      BY <2>2 DEF Revisions
    <3>2. r \in Made(p) /\ t \in Made(q) /\ p # q
      BY <2>1, <2>2, <3>1
    <3>3. QED BY <2>2, <3>1, <3>2 DEF SerialInv
  <2>3. QED BY <2>1, <2>2 DEF SerialInv, Graph
<1>4. QED BY <1>1, <1>2, <1>3, Inductive, PTL DEF Spec
==============================================================================

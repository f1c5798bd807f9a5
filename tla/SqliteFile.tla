------------------------------ MODULE SqliteFile ------------------------------
(***************************************************************************)
(* One SQLite database file and the processes that open it, as Connection  *)
(* and Transaction use it: a reader sees what was committed last, BEGIN    *)
(* IMMEDIATE admits one writer, and what a writer changes reaches the file *)
(* at its COMMIT or not at all.                                            *)
(***************************************************************************)

VARIABLES
  committed,       \* content of the file
  staged,          \* content as the writer sees it
  writer           \* processes in a transaction: empty or a singleton

file == <<committed, staged, writer>>

\* Broken variant: readers see what is not committed.
ViewUncommitted(p) == staged

\* What a SELECT of process p reads.
View(p) == IF p \in writer THEN staged ELSE committed

OpenFile(content) ==
  /\ committed = content
  /\ staged = content
  /\ writer = {}

\* Broken variant: no lock is taken.
BeginDeferred(p) ==
  /\ writer' = writer \cup {p}
  /\ UNCHANGED <<committed, staged>>

Begin(p) ==
  /\ writer = {}
  /\ writer' = {p}
  /\ UNCHANGED <<committed, staged>>

Write(p, content) ==
  /\ p \in writer
  /\ staged' = content
  /\ UNCHANGED <<committed, writer>>

Commit(p) ==
  /\ p \in writer
  /\ committed' = staged
  /\ writer' = {}
  /\ UNCHANGED staged

\* The destructor of Transaction, or the journal after the process has died.
\* Nothing happens when p has no transaction.
Rollback(p) ==
  /\ staged' = IF p \in writer THEN committed ELSE staged
  /\ writer' = writer \ {p}
  /\ UNCHANGED committed

\* A statement outside a transaction.
AutoCommit(content) ==
  /\ writer = {}
  /\ committed' = content
  /\ staged' = content
  /\ UNCHANGED writer
==============================================================================

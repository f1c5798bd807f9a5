--------------------------- MODULE RevisionRegister ---------------------------
(***************************************************************************)
(* What the graph store promises to the processes that use it: each graph  *)
(* id is a register with a revision, saved by compare-and-set and loaded   *)
(* atomically.  A call may fail before or after it took effect.            *)
(***************************************************************************)
EXTENDS Naturals

CONSTANTS Processes, Graphs

VARIABLES
  request,         \* what each process asks for
  register,        \* for each graph id, empty or the singleton of its row
  status,          \* "open", "stored" or "ended"
  answer           \* what each process was told

vars == <<request, register, status, answer>>

NoAnswer        == [kind |-> "none", row |-> {}]
Answer(kind, r) == [kind |-> kind, row |-> r]

Row(revision, source) == [revision |-> revision, source |-> source]
Revisions(rows)       == {r.revision : r \in rows}

\* The row a successful save makes: its revision follows the expected one.
NewRow(p) == {Row(n + 1, p) : n \in IF request[p].expected = {} THEN {0}
                                    ELSE request[p].expected}

Matches(p) == request[p].expected = Revisions(register[request[p].graph])

Init ==
  /\ register = [g \in Graphs |-> {}]
  /\ status = [p \in Processes |-> "open"]
  /\ answer = [p \in Processes |-> NoAnswer]

Tell(p, what) ==
  /\ status' = [status EXCEPT ![p] = "ended"]
  /\ answer' = [answer EXCEPT ![p] = what]

Store(p) ==
  /\ status[p] = "open" /\ request[p].kind = "save"
  /\ Matches(p)
  /\ register' = [register EXCEPT ![request[p].graph] = NewRow(p)]
  /\ status' = [status EXCEPT ![p] = "stored"]
  /\ UNCHANGED <<request, answer>>

Acknowledge(p) ==
  /\ status[p] = "stored"
  /\ Tell(p, Answer("saved", NewRow(p)))
  /\ UNCHANGED <<request, register>>

Refuse(p) ==
  /\ status[p] = "open" /\ request[p].kind = "save"
  /\ ~Matches(p)
  /\ Tell(p, Answer("conflict", {}))
  /\ UNCHANGED <<request, register>>

Load(p) ==
  /\ status[p] = "open" /\ request[p].kind = "load"
  /\ LET row == register[request[p].graph]
     IN  Tell(p, Answer(IF row = {} THEN "missing" ELSE "loaded", row))
  /\ UNCHANGED <<request, register>>

Migrate(p) ==
  /\ status[p] = "open" /\ request[p].kind = "migrate"
  /\ Tell(p, Answer("migrated", {}))
  /\ UNCHANGED <<request, register>>

Fail(p) ==
  /\ status[p] # "ended"
  /\ Tell(p, Answer("failed", {}))
  /\ UNCHANGED <<request, register>>

Next ==
  \E p \in Processes :
    Store(p) \/ Acknowledge(p) \/ Refuse(p) \/ Load(p) \/ Migrate(p) \/ Fail(p)

Spec == Init /\ [][Next]_vars
==============================================================================

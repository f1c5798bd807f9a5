----------------------------- MODULE LoadContract -----------------------------
(***************************************************************************)
(* What loading a graph document promises: a text is accepted exactly when *)
(* every line is well formed, the document is executable and its edges are *)
(* written differently, and the order it is given places nodes one by one, *)
(* each after its parents.                                                 *)
(***************************************************************************)
EXTENDS GraphOrder

VARIABLES
  nodes, edges,    \* the document read so far
  malformed,       \* a line of the text is neither a node nor an edge
  placed,          \* the order built so far
  verdict          \* "open", "accepted" or "rejected"

document == <<nodes, edges, malformed>>
vars     == <<document, placed, verdict>>

\* Edges are told apart by how they are written.  When ids contain "->", two
\* different edges of an executable document may be written alike.
Written(e)         == e.from \o <<"->">> \o e.to
WrittenDifferently == IsInjective([i \in DOMAIN edges |-> Written(edges[i])])

Init ==
  /\ nodes = <<>> /\ edges = <<>> /\ malformed = FALSE
  /\ placed = <<>>
  /\ verdict = "open"

\* Another line is read.
Read ==
  /\ verdict = "open" /\ placed = <<>>
  /\ \/ /\ \E n \in Range(nodes') : nodes' = Append(nodes, n)
        /\ UNCHANGED <<edges, malformed>>
     \/ /\ \E e \in Range(edges') : edges' = Append(edges, e)
        /\ UNCHANGED <<nodes, malformed>>
  /\ UNCHANGED <<placed, verdict>>

Place ==
  /\ verdict = "open"
  /\ \E n \in Range(nodes) \ Range(placed) :
       /\ Parents(edges, n) \subseteq Range(placed)
       /\ placed' = Append(placed, n)
  /\ UNCHANGED <<document, verdict>>

Accept ==
  /\ verdict = "open"
  /\ ~malformed /\ Executable(nodes, edges) /\ WrittenDifferently
  /\ Range(placed) = Range(nodes)
  /\ verdict' = "accepted"
  /\ UNCHANGED <<document, placed>>

Reject ==
  /\ verdict = "open"
  /\ UNCHANGED <<nodes, edges, placed>>
  /\ malformed' \/ ~Executable(nodes, edges) \/ ~WrittenDifferently
  /\ verdict' = "rejected"

Next == Read \/ Place \/ Accept \/ Reject

Spec == Init /\ [][Next]_vars
==============================================================================

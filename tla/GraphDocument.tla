---------------------------- MODULE GraphDocument ----------------------------
(***************************************************************************)
(* load_graph_document_from_string and topological_order: a graph text is  *)
(* read line by line, its nodes and edges are validated, and Kahn's        *)
(* algorithm orders the nodes or finds a cycle.                            *)
(*                                                                         *)
(* A node id is the sequence of the atoms it is written with, because the  *)
(* code recognises duplicate edges by the text from + "->" + to.           *)
(***************************************************************************)
EXTENDS GraphOrder, Integers, FiniteSets

CONSTANTS
  Names,           \* node ids that occur in texts
  MaxNodes,        \* bound: node lines of a text
  MaxEdges         \* bound: edge lines of a text

ASSUME NamesAssumption == Names \subseteq Seq(STRING)

ASSUME BoundsAssumption == MaxNodes \in Nat /\ MaxEdges \in Nat

VARIABLES
  pc,              \* control location
  nodes,           \* document.nodes, their ids
  edges,           \* document.edges
  malformed,       \* a line could not be parsed
  seen_edges,      \* keys of the edges validated so far
  checked,         \* number of edges validated so far
  ready,           \* queue of topological_order
  remaining,       \* remaining_incoming
  order            \* order built so far

document == <<nodes, edges, malformed>>
sorting  == <<ready, remaining, order>>
vars     == <<pc, document, seen_edges, checked, sorting>>

NodeIds     == Range(nodes)
Indegree(n) == Cardinality({i \in DOMAIN edges : edges[i].to = n})
Key(e)      == e.from \o <<"->">> \o e.to

Init ==
  /\ pc = "read"
  /\ nodes = <<>> /\ edges = <<>> /\ malformed = FALSE
  /\ seen_edges = {} /\ checked = 0
  /\ ready = <<>> /\ remaining = <<>> /\ order = <<>>

(***************************************************************************)
(* Reading the text.                                                       *)
(***************************************************************************)

ReadNode(n) ==
  /\ pc = "read" /\ Len(nodes) < MaxNodes
  /\ nodes' = Append(nodes, n)
  /\ UNCHANGED <<pc, edges, malformed, seen_edges, checked, sorting>>

ReadEdge(from, to) ==
  /\ pc = "read" /\ Len(edges) < MaxEdges
  /\ edges' = Append(edges, Edge(from, to))
  /\ UNCHANGED <<pc, nodes, malformed, seen_edges, checked, sorting>>

\* An unknown directive, a node without a command, a bad timeout, an edge that
\* does not have two ids.
ReadMalformed ==
  /\ pc = "read"
  /\ malformed' = TRUE
  /\ pc' = "rejected"
  /\ UNCHANGED <<nodes, edges, seen_edges, checked, sorting>>

\* The text is over: there must be nodes, and node_index rejects a duplicate.
RejectNodes ==
  /\ pc = "read"
  /\ nodes = <<>> \/ ~IsInjective(nodes)
  /\ pc' = "rejected"
  /\ UNCHANGED <<document, seen_edges, checked, sorting>>

AcceptNodes ==
  /\ pc = "read"
  /\ nodes # <<>> /\ IsInjective(nodes)
  /\ pc' = "edges"
  /\ UNCHANGED <<document, seen_edges, checked, sorting>>

(***************************************************************************)
(* Validating the edges.                                                   *)
(***************************************************************************)

\* Broken variant: a node may have several parents.
FaultyJoinAllowed(e) ==
  \/ e.from \notin NodeIds
  \/ e.to \notin NodeIds
  \/ Key(e) \in seen_edges

\* In the order of the code, whose incoming map already has every edge.
Faulty(e) ==
  \/ e.from \notin NodeIds
  \/ e.to \notin NodeIds
  \/ Key(e) \in seen_edges
  \/ Indegree(e.to) > 1

CheckEdge ==
  /\ pc = "edges" /\ checked < Len(edges)
  /\ ~Faulty(edges[checked + 1])
  /\ seen_edges' = seen_edges \cup {Key(edges[checked + 1])}
  /\ checked' = checked + 1
  /\ UNCHANGED <<pc, document, sorting>>

RejectEdge ==
  /\ pc = "edges" /\ checked < Len(edges)
  /\ Faulty(edges[checked + 1])
  /\ pc' = "rejected"
  /\ UNCHANGED <<document, seen_edges, checked, sorting>>

(***************************************************************************)
(* topological_order.  The maps it iterates over are unordered: the roots  *)
(* enter the queue in any order.                                           *)
(***************************************************************************)

StartOrder ==
  /\ pc = "edges" /\ checked = Len(edges)
  /\ remaining' = [n \in NodeIds |-> Indegree(n)]
  /\ pc' = "roots"
  /\ UNCHANGED <<document, seen_edges, checked, ready, order>>

PushRoot(n) ==
  /\ pc = "roots"
  /\ Indegree(n) = 0 /\ n \notin Range(ready)
  /\ ready' = Append(ready, n)
  /\ UNCHANGED <<pc, document, seen_edges, checked, remaining, order>>

RootsPushed ==
  /\ pc = "roots"
  /\ \A n \in NodeIds : Indegree(n) = 0 => n \in Range(ready)
  /\ pc' = "sort"
  /\ UNCHANGED <<document, seen_edges, checked, sorting>>

\* Positions of edges, in document order.
InOrder(positions) ==
  {at \in [1..Cardinality(positions) -> positions] :
     /\ Range(at) = positions
     /\ \A j, k \in DOMAIN at : j < k => at[j] < at[k]}

\* The destinations in S of the edges that leave n, in document order: a set of
\* one list.
Outgoing(n, S) ==
  {[k \in DOMAIN at |-> edges[at[k]].to] :
     at \in InOrder({i \in DOMAIN edges : edges[i].from = n /\ edges[i].to \in S})}

\* Broken variant: every node counts as a child of the popped one.
LeftCountingAll(n) == [c \in NodeIds |-> remaining[c] - 1]

\* remaining_incoming once n is popped.  Validation left no edge twice, so each
\* child loses one of its remaining edges.
Left(n) == [c \in NodeIds |-> IF c \in Children(edges, n) THEN remaining[c] - 1
                                                         ELSE remaining[c]]

\* One iteration of the loop.
PopReady ==
  /\ pc = "sort" /\ ready # <<>>
  /\ LET n    == Head(ready)
         left == Left(n)
     IN  /\ order' = Append(order, n)
         /\ remaining' = left
         /\ \E freed \in Outgoing(n, {c \in NodeIds : left[c] = 0}) :
              ready' = Tail(ready) \o freed
  /\ UNCHANGED <<pc, document, seen_edges, checked>>

FinishOrder ==
  /\ pc = "sort" /\ ready = <<>>
  /\ pc' = IF Len(order) = Cardinality(NodeIds) THEN "accepted" ELSE "rejected"
  /\ UNCHANGED <<document, seen_edges, checked, sorting>>

Load ==
  \/ \E n \in Names : ReadNode(n)
  \/ \E from, to \in Names : ReadEdge(from, to)
  \/ ReadMalformed \/ RejectNodes \/ AcceptNodes
  \/ CheckEdge \/ RejectEdge
  \/ StartOrder
  \/ \E n \in NodeIds : PushRoot(n)
  \/ RootsPushed \/ PopReady \/ FinishOrder

Decided == pc \in {"accepted", "rejected"}

\* A text that has been decided.
Done == Decided /\ UNCHANGED vars

Next == Load \/ Done

Spec == Init /\ [][Next]_vars

(***************************************************************************)
(* Properties.                                                             *)
(***************************************************************************)

Keys == {Key(Edge(from, to)) : from, to \in Names}

\* Every variable has its type; no node is counted down below zero.
TypeOK ==
  /\ pc \in {"read", "edges", "roots", "sort", "accepted", "rejected"}
  /\ nodes \in Seq(Names)
  /\ edges \in Seq([from : Names, to : Names])
  /\ malformed \in BOOLEAN
  /\ checked \in 0..Len(edges)
  /\ seen_edges \subseteq Keys
  /\ ready \in Seq(NodeIds)
  /\ pc \in {"roots", "sort", "accepted"} => remaining \in [NodeIds -> Nat]
  /\ order \in Seq(NodeIds)

(***************************************************************************)
(* Refinement.                                                             *)
(***************************************************************************)

Contract == INSTANCE LoadContract WITH
  placed  <- order,
  verdict <- IF Decided THEN pc ELSE "open"

\* A text is accepted exactly when it is well formed, its document is
\* executable, and no two of its edges are written alike; and whatever order the
\* unordered maps give the roots, a node is placed after its parents, once.
ImplementsLoad == Contract!Spec
==============================================================================

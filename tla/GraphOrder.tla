------------------------------ MODULE GraphOrder ------------------------------
(***************************************************************************)
(* What graph documents are and mean, independently of how they are        *)
(* checked and ordered: the reference that GraphDocument and GraphSnapshot *)
(* are compared with.  A document is a sequence of node ids and a sequence *)
(* of edges.                                                               *)
(***************************************************************************)
EXTENDS Naturals, Sequences, Functions

Edge(from, to) == [from |-> from, to |-> to]

Parents(edges, n)  == {e.from : e \in {f \in Range(edges) : f.to = n}}
Children(edges, n) == {e.to : e \in {f \in Range(edges) : f.from = n}}

\* Every set of nodes that is not empty has a first one.
Acyclic(nodes, edges) ==
  \A S \in SUBSET Range(nodes) : S # {} =>
    \E n \in S : Parents(edges, n) \cap S = {}

\* A document that can be executed: a forest over distinct nodes.  Each node
\* takes its stdin from at most one other.
Executable(nodes, edges) ==
  /\ nodes # <<>>
  /\ IsInjective(nodes)
  /\ IsInjective(edges)
  /\ \A e \in Range(edges) : e.from \in Range(nodes) /\ e.to \in Range(nodes)
  /\ \A e, f \in Range(edges) : e.to = f.to => e.from = f.from
  /\ Acyclic(nodes, edges)

\* Every node once, each after its parents.
Topological(order, nodes, edges) ==
  /\ Range(order) = Range(nodes)
  /\ IsInjective(order)
  /\ \A i \in DOMAIN order :
       Parents(edges, order[i]) \subseteq {order[j] : j \in 1..i-1}

TopologicalOrders(nodes, edges) ==
  {order \in [1..Len(nodes) -> Range(nodes)] : Topological(order, nodes, edges)}

\* A snapshot of n nodes, as those who run it see it: the parents of each node
\* id, one at most, and an order of the ids in which a parent is earlier.
IsSnapshot(n, incoming, order) ==
  /\ incoming \in [0..n-1 -> {<<>>} \cup {<<p>> : p \in 0..n-1}]
  /\ order \in [1..n -> 0..n-1]
  /\ IsInjective(order)
  /\ \A i \in 1..n : Range(incoming[order[i]]) \subseteq {order[j] : j \in 1..i-1}
==============================================================================

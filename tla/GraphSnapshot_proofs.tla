------------------------- MODULE GraphSnapshot_proofs -------------------------
(***************************************************************************)
(* Proofs about GraphDocument and GraphSnapshot, for texts of any length   *)
(* over any names, and for any argument lists.                             *)
(***************************************************************************)
EXTENDS GraphSnapshot, SequenceTheorems, FiniteSetTheorems, TLAPS

(***************************************************************************)
(* The inductive invariant: loading.                                       *)
(***************************************************************************)

\* What has been decided about the lines and the nodes.
TextInv ==
  /\ malformed => pc = "rejected"
  /\ pc \in {"edges", "roots", "sort", "accepted"} =>
       nodes # <<>> /\ IsInjective(nodes)
  /\ pc = "read" => checked = 0
  /\ pc \in {"read", "edges"} => ready = <<>> /\ order = <<>>

Into(n) == {i \in DOMAIN edges : edges[i].to = n}

\* The edges that were validated, and the keys they left behind.
EdgesInv ==
  /\ seen_edges = {Key(edges[i]) : i \in 1..checked}
  /\ \A i \in 1..checked :
       /\ edges[i].from \in NodeIds /\ edges[i].to \in NodeIds
       /\ \A j \in Into(edges[i].to) : i = j
  /\ \A i, j \in 1..checked : Key(edges[i]) = Key(edges[j]) => i = j
  /\ pc \in {"roots", "sort", "accepted"} => checked = Len(edges)

\* Everything that has been in the queue, in the order it entered.
queued == order \o ready

\* A node is in the queue, or was, once its parent is placed.
QueueInv ==
  /\ IsInjective(queued)
  /\ pc = "roots" => order = <<>> /\ \A i \in DOMAIN ready : Into(ready[i]) = {}
  /\ pc \in {"sort", "accepted"} =>
       Range(queued) = {n \in NodeIds : Parents(edges, n) \subseteq Range(order)}
  /\ pc \in {"roots", "sort"} => \A n \in NodeIds :
       remaining[n] = IF Parents(edges, n) \subseteq Range(order) THEN 0 ELSE 1
  /\ \A i \in DOMAIN order :
       Parents(edges, order[i]) \subseteq {order[j] : j \in 1..i-1}
  /\ \A S \in SUBSET Range(order) : S # {} => \E n \in S : Parents(edges, n) \cap S = {}
  /\ pc = "accepted" => Range(order) = NodeIds

LoadInv == TypeOK /\ TextInv /\ EdgesInv /\ QueueInv

(***************************************************************************)
(* The inductive invariant: building.                                      *)
(***************************************************************************)

Records == [name : Names, argv_offset : Nat, argv_count : Nat,
            incoming_offset : Nat, incoming_count : Nat,
            outgoing_offset : Nat, outgoing_count : Nat]

StageInv ==
  /\ stage \in {"none", "append", "link", "adjacency", "order", "built"}
  /\ cursor \in Nat
  /\ stage # "none" => pc = "accepted"
  /\ stage \in {"append", "adjacency"} => cursor <= Len(nodes)
  /\ stage = "link" => cursor <= Len(edges)
  /\ stage = "none" => cursor = 0 /\ storage = <<<<>>, <<>>, <<>>, <<>>>>
  /\ records \in Seq(Records)
  /\ argv_storage \in Seq(STRING)
  /\ incoming_storage \in Seq(Ids) /\ outgoing_storage \in Seq(Ids)
  /\ stage # "none" => incoming \in [Ids -> Seq(Ids)] /\ outgoing \in [Ids -> Seq(Ids)]

\* How far each loop has come.
Appended == CASE stage = "none" -> 0 [] stage = "append" -> cursor [] OTHER -> Len(nodes)
Linked   == CASE stage \in {"none", "append"} -> 0 [] stage = "link" -> cursor
              [] OTHER -> Len(edges)
Adjacent == CASE stage = "adjacency" -> cursor [] stage \in {"order", "built"} -> Len(nodes)
              [] OTHER -> 0

\* A vector holds a sequence from an offset on.
HoldsAt(vector, offset, s) ==
  /\ offset + Len(s) <= Len(vector)
  /\ \A j \in 1..Len(s) : vector[offset + j] = s[j]

RecordInv ==
  /\ Len(records) = Appended
  /\ \A k \in 1..Appended :
       /\ records[k].name = nodes[k]
       /\ records[k].argv_count = Len(Argv[nodes[k]])
       /\ HoldsAt(argv_storage, records[k].argv_offset, Argv[nodes[k]])

\* ids are the destinations of the edges at these positions, in this order.
Lists(ids, positions, ns, es) ==
  \E at \in [1..Len(ids) -> positions] :
    /\ \A i \in positions : \E k \in 1..Len(ids) : at[k] = i
    /\ \A j, k \in 1..Len(ids) : j < k => at[j] < at[k]
    /\ \A k \in 1..Len(ids) : ns[ids[k] + 1] = es[at[k]].to

\* The neighbours of n, as the first count edges give them.
Neighbours(out, in, n, count, ns, es) ==
  /\ Lists(out, {i \in 1..count : es[i].from = n}, ns, es)
  /\ Len(in) <= 1
  /\ {ns[in[k] + 1] : k \in 1..Len(in)} = {es[i].from : i \in {j \in 1..count : es[j].to = n}}

LinkInv ==
  stage # "none" => \A id \in Ids :
    Neighbours(outgoing[id], incoming[id], nodes[id + 1], Linked, nodes, edges)

AdjacencyInv ==
  \A k \in 1..Adjacent :
    /\ records[k].incoming_count = Len(incoming[k-1])
    /\ HoldsAt(incoming_storage, records[k].incoming_offset, incoming[k-1])
    /\ records[k].outgoing_count = Len(outgoing[k-1])
    /\ HoldsAt(outgoing_storage, records[k].outgoing_offset, outgoing[k-1])

OrderInv ==
  stage = "built" =>
    \E names \in TopologicalOrders(nodes, edges) : execution_order = Resolved(names)

BuildInv == StageInv /\ RecordInv /\ LinkInv /\ AdjacencyInv /\ OrderInv

IInv == LoadInv /\ BuildInv

(***************************************************************************)
(* Edges, parents and lists of destinations.                               *)
(***************************************************************************)

Edges == [from : Names, to : Names]

LEMMA IntoFacts ==
  ASSUME edges \in Seq(Edges), NEW n
  PROVE  /\ Indegree(n) = 0 <=> Into(n) = {}
         /\ Indegree(n) <= 1 <=> \A i, j \in Into(n) : i = j
         /\ Parents(edges, n) = {edges[i].from : i \in Into(n)}
<1>1. Len(edges) \in Nat /\ DOMAIN edges = 1..Len(edges)
  BY LenProperties
<1>2. IsFiniteSet(1..Len(edges))
  BY <1>1, FS_Interval
<1>3. IsFiniteSet(Into(n))
  BY <1>1, <1>2, FS_Subset DEF Into
<1>4. Indegree(n) = Cardinality(Into(n)) /\ Cardinality(Into(n)) \in Nat
  BY <1>3, FS_CardinalityType DEF Indegree, Into
<1>5. Cardinality(Into(n)) = 0 <=> Into(n) = {}
  BY <1>3, FS_EmptySet
<1>6. Cardinality(Into(n)) = 1 <=> \E x : Into(n) = {x}
  BY <1>3, FS_Singleton
<1>7. (\A i, j \in Into(n) : i = j) <=> Into(n) = {} \/ \E x : Into(n) = {x}
  OBVIOUS
<1>8. Cardinality(Into(n)) <= 1 <=> Cardinality(Into(n)) = 0 \/ Cardinality(Into(n)) = 1
  BY <1>4
<1>9. Parents(edges, n) = {edges[i].from : i \in Into(n)}
  BY DEF Parents, Range, Into
<1>10. QED BY <1>4, <1>5, <1>6, <1>7, <1>8, <1>9

LEMMA ChildFacts ==
  ASSUME NEW n, NEW c
  PROVE  /\ c \in Children(edges, n) <=> n \in Parents(edges, c)
         /\ c \in Children(edges, n) <=> \E i \in DOMAIN edges : edges[i].from = n /\ edges[i].to = c
BY DEF Children, Parents, Range

\* A list of destinations: one for each edge, and twice the same only for edges
\* to the same node.
LEMMA OutgoingFacts ==
  ASSUME edges \in Seq(Edges), NEW n, NEW S, NEW out \in Outgoing(n, S)
  PROVE  LET I == {i \in DOMAIN edges : edges[i].from = n /\ edges[i].to \in S}
         IN  /\ out \in Seq(S)
             /\ Range(out) = {edges[i].to : i \in I}
             /\ (\A i, j \in I : edges[i].to = edges[j].to => i = j) => IsInjective(out)
<1> DEFINE I == {i \in DOMAIN edges : edges[i].from = n /\ edges[i].to \in S}
<1>1. PICK at \in InOrder(I) : out = [k \in DOMAIN at |-> edges[at[k]].to]
  BY DEF Outgoing
<1>2. Len(edges) \in Nat /\ DOMAIN edges = 1..Len(edges)
  BY LenProperties
<1>3. IsFiniteSet(I)
  <2>1. IsFiniteSet(1..Len(edges))
    BY <1>2, FS_Interval
  <2>2. QED BY <1>2, <2>1, FS_Subset
<1>4. Cardinality(I) \in Nat
  BY <1>3, FS_CardinalityType
<1> DEFINE N == Cardinality(I)
<1>5. /\ at \in [1..N -> I] /\ Range(at) = I
      /\ \A j, k \in 1..N : j < k => at[j] < at[k]
  BY <1>1 DEF InOrder
<1>6. \A i \in I : i \in Nat /\ edges[i].to \in S
  BY <1>2
<1> HIDE DEF I, N
<1>7. N \in Nat /\ out = [k \in 1..N |-> edges[at[k]].to]
  BY <1>1, <1>4, <1>5 DEF N
<1>8. out \in [1..N -> S]
  BY <1>5, <1>6, <1>7
<1>9. out \in Seq(S)
  BY <1>7, <1>8, SeqDef
<1>10. Range(out) = {edges[i].to : i \in I}
  <2>1. \A i \in I : \E k \in 1..N : at[k] = i
    BY <1>5 DEF Range
  <2>2. Range(out) = {edges[at[k]].to : k \in 1..N}
    BY <1>7 DEF Range
  <2>3. QED BY <1>5, <2>1, <2>2
<1>11. ASSUME \A i, j \in I : edges[i].to = edges[j].to => i = j
       PROVE  IsInjective(out)
  <2>1. ASSUME NEW j \in 1..N, NEW k \in 1..N, out[j] = out[k]
        PROVE  j = k
    <3>1. at[j] \in I /\ at[k] \in I /\ at[j] \in Nat /\ at[k] \in Nat
      BY <1>5, <1>6
    <3>2. at[j] = at[k]
      BY <1>7, <1>11, <2>1, <3>1
    <3>3. ~(j < k) /\ ~(k < j)
      BY <1>5, <3>1, <3>2
    <3>4. QED BY <1>7, <3>3
  <2>2. QED BY <1>7, <2>1 DEF IsInjective
<1>12. QED BY <1>9, <1>10, <1>11 DEF I

(***************************************************************************)
(* Loading keeps the invariant.                                            *)
(***************************************************************************)

LEMMA KeyFacts ==
  ASSUME NEW e \in Edges
  PROVE  Key(e) \in Keys
<1>1. e.from \in Names /\ e.to \in Names /\ e = Edge(e.from, e.to)
  BY DEF Edges, Edge
<1>2. QED BY <1>1 DEF Keys

LEMMA TypeFacts ==
  ASSUME TypeOK
  PROVE  /\ nodes \in Seq(Names) /\ Len(nodes) \in Nat /\ DOMAIN nodes = 1..Len(nodes)
         /\ edges \in Seq(Edges) /\ Len(edges) \in Nat /\ DOMAIN edges = 1..Len(edges)
         /\ \A i \in 1..Len(nodes) : nodes[i] \in Names /\ nodes[i] \in NodeIds
         /\ \A i \in 1..Len(edges) : edges[i] \in Edges
         /\ NodeIds \subseteq Names
         /\ checked \in Nat /\ checked <= Len(edges)
         /\ order \in Seq(NodeIds) /\ Len(order) \in Nat /\ DOMAIN order = 1..Len(order)
         /\ ready \in Seq(NodeIds) /\ Len(ready) \in Nat /\ DOMAIN ready = 1..Len(ready)
<1>1. nodes \in Seq(Names) /\ edges \in Seq(Edges) /\ checked \in 0..Len(edges)
      /\ order \in Seq(NodeIds) /\ ready \in Seq(NodeIds)
  BY DEF TypeOK, Edges
<1>2. /\ Len(nodes) \in Nat /\ DOMAIN nodes = 1..Len(nodes)
      /\ Len(edges) \in Nat /\ DOMAIN edges = 1..Len(edges)
      /\ Len(order) \in Nat /\ DOMAIN order = 1..Len(order)
      /\ Len(ready) \in Nat /\ DOMAIN ready = 1..Len(ready)
  BY <1>1, LenProperties
<1>3. \A i \in 1..Len(nodes) : nodes[i] \in Names
  BY <1>1, ElementOfSeq
<1>4. \A i \in 1..Len(edges) : edges[i] \in Edges
  BY <1>1, ElementOfSeq
<1>5. \A i \in 1..Len(nodes) : nodes[i] \in NodeIds
  BY <1>2 DEF NodeIds, Range
<1>6. NodeIds \subseteq Names
  BY <1>2, <1>3 DEF NodeIds, Range
<1>7. QED BY <1>1, <1>2, <1>3, <1>4, <1>5, <1>6

\* The queue that never forgets: what was placed, then what waits.
LEMMA QueuedFacts ==
  ASSUME TypeOK
  PROVE  /\ queued \in Seq(NodeIds) /\ Len(queued) = Len(order) + Len(ready)
         /\ DOMAIN queued = 1..Len(queued)
         /\ \A i \in 1..Len(order) : queued[i] = order[i]
         /\ \A i \in 1..Len(ready) : queued[Len(order) + i] = ready[i]
         /\ Range(queued) = Range(order) \cup Range(ready)
<1>1. order \in Seq(NodeIds) /\ ready \in Seq(NodeIds) /\ Len(order) \in Nat /\ Len(ready) \in Nat
  BY TypeFacts
<1>2. /\ queued \in Seq(NodeIds) /\ Len(queued) = Len(order) + Len(ready)
      /\ \A i \in 1..Len(order) + Len(ready) :
           queued[i] = IF i <= Len(order) THEN order[i] ELSE ready[i - Len(order)]
  BY <1>1, ConcatProperties DEF queued
<1>3. Range(queued) = Range(order) \cup Range(ready)
  BY <1>1, RangeConcatenation DEF queued
<1>4. DOMAIN queued = 1..Len(queued)
  BY <1>2, LenProperties
<1>5. ASSUME NEW i \in 1..Len(ready)
      PROVE  queued[Len(order) + i] = ready[i]
  <2>1. /\ Len(order) + i \in 1..Len(order) + Len(ready) /\ (Len(order) + i) - Len(order) = i
        /\ ~(Len(order) + i <= Len(order))
    BY <1>1
  <2>2. QED BY <1>2, <2>1
<1>6. QED BY <1>1, <1>2, <1>3, <1>4, <1>5

LEMMA ReadKeepsInv ==
  ASSUME LoadInv, \/ \E n \in Names : ReadNode(n)
                  \/ \E from, to \in Names : ReadEdge(from, to)
  PROVE  LoadInv'
<1>1. /\ pc = "read" /\ pc' = "read" /\ malformed' = malformed /\ seen_edges' = seen_edges
      /\ checked' = checked /\ ready' = ready /\ order' = order
  BY DEF ReadNode, ReadEdge, sorting
<1>2. ready = <<>> /\ order = <<>> /\ checked = 0
  BY <1>1 DEF LoadInv, TextInv
<1>3. nodes' \in Seq(Names) /\ edges' \in Seq(Edges)
  <2>1. CASE \E n \in Names : ReadNode(n)
    <3>1. PICK n \in Names : nodes' = Append(nodes, n) /\ edges' = edges
      BY <2>1 DEF ReadNode
    <3>2. QED BY <3>1, TypeFacts, AppendProperties DEF LoadInv
  <2>2. CASE \E from, to \in Names : ReadEdge(from, to)
    <3>1. PICK e \in Edges : edges' = Append(edges, e) /\ nodes' = nodes
      BY <2>2 DEF ReadEdge, Edge, Edges
    <3>2. QED BY <3>1, TypeFacts, AppendProperties DEF LoadInv
  <2>3. QED BY <2>1, <2>2
<1>4. Len(edges') \in Nat
  BY <1>3, LenProperties
<1>5. TypeOK'
  BY <1>1, <1>2, <1>3, <1>4, EmptySeq DEF LoadInv, TypeOK, Edges
<1>6. TextInv'
  BY <1>1, <1>2 DEF LoadInv, TextInv
<1>7. EdgesInv'
  BY <1>1, <1>2 DEF LoadInv, EdgesInv
<1>8. QueueInv'
  <2>1. queued' = queued
    BY <1>1 DEF queued
  <2>2. DOMAIN order' = {}
    <3>1. order' \in Seq(Names) /\ Len(order') = 0
      BY <1>1, <1>2, EmptySeq
    <3>2. DOMAIN order' = 1..0
      BY <3>1, LenProperties
    <3>3. QED BY <3>2
  <2>3. Range(order') = {}
    BY <2>2 DEF Range
  <2>4. QED BY <1>1, <2>1, <2>2, <2>3 DEF LoadInv, QueueInv
<1>9. QED BY <1>5, <1>6, <1>7, <1>8 DEF LoadInv

\* A verdict, or the next stage: nothing else changes.
LEMMA VerdictKeepsInv ==
  ASSUME LoadInv, UNCHANGED <<nodes, edges, seen_edges, checked, sorting>>,
         \/ pc' = "rejected" /\ malformed' \in BOOLEAN
         \/ malformed' = malformed /\ AcceptNodes
  PROVE  LoadInv'
<1>1. /\ nodes' = nodes /\ edges' = edges /\ seen_edges' = seen_edges /\ checked' = checked
      /\ ready' = ready /\ order' = order /\ remaining' = remaining
      /\ NodeIds' = NodeIds /\ queued' = queued
  BY DEF sorting, NodeIds, queued
<1>2. \A n : Into(n)' = Into(n)
  BY <1>1 DEF Into
<1>3. TypeOK' /\ TextInv'
  BY <1>1 DEF LoadInv, TypeOK, TextInv, AcceptNodes
<1>4. EdgesInv' /\ QueueInv'
  <2>1. pc' \in {"rejected", "edges"}
    BY DEF AcceptNodes
  <2>2. \A e : Key(e)' = Key(e)
    BY DEF Key
  <2>3. EdgesInv'
    BY <1>1, <1>2, <2>1 DEF LoadInv, EdgesInv, Key
  <2>4. QueueInv'
    BY <1>1, <1>2, <2>1 DEF LoadInv, QueueInv
  <2>5. QED BY <2>3, <2>4
<1>5. QED BY <1>3, <1>4 DEF LoadInv

LEMMA CheckEdgeKeepsInv ==
  ASSUME LoadInv, CheckEdge
  PROVE  LoadInv'
<1> DEFINE e == edges[checked + 1]
<1>1. /\ pc = "edges" /\ pc' = pc /\ checked < Len(edges) /\ checked' = checked + 1
      /\ seen_edges' = seen_edges \cup {Key(e)} /\ ~Faulty(e)
      /\ nodes' = nodes /\ edges' = edges /\ malformed' = malformed
      /\ ready' = ready /\ order' = order /\ remaining' = remaining
  BY DEF CheckEdge, document, sorting
<1>2. /\ checked \in Nat /\ checked + 1 \in 1..Len(edges) /\ e \in Edges /\ Len(edges) \in Nat
      /\ DOMAIN edges = 1..Len(edges) /\ edges \in Seq(Edges)
  BY <1>1, TypeFacts DEF LoadInv
<1>3. NodeIds' = NodeIds /\ queued' = queued /\ \A n : Into(n)' = Into(n)
  BY <1>1 DEF NodeIds, queued, Into
<1>4. TypeOK' /\ TextInv'
  BY <1>1, <1>2, <1>3, KeyFacts DEF LoadInv, TypeOK, TextInv
<1>5. \A i \in 1..checked+1 : i \in 1..checked \/ i = checked + 1
  BY <1>2
<1>6. EdgesInv'
  <2>1. seen_edges' = {Key(edges[i]) : i \in 1..checked+1}
    <3>1. seen_edges = {Key(edges[i]) : i \in 1..checked}
      BY DEF LoadInv, EdgesInv
    <3>2. \A i \in 1..checked : i \in 1..checked+1
      BY <1>2
    <3>3. checked + 1 \in 1..checked+1
      BY <1>2
    <3>4. QED BY <1>1, <1>5, <3>1, <3>2, <3>3
  <2>2. ASSUME NEW i \in 1..checked+1
        PROVE  /\ edges[i].from \in NodeIds /\ edges[i].to \in NodeIds
               /\ \A j \in Into(edges[i].to) : i = j
    <3>1. CASE i \in 1..checked
      BY <3>1 DEF LoadInv, EdgesInv
    <3>2. CASE i = checked + 1
      <4>1. /\ e.from \in NodeIds /\ e.to \in NodeIds /\ ~(Indegree(e.to) > 1)
        BY <1>1 DEF Faulty
      <4>2. Indegree(e.to) <= 1
        <5>1. Indegree(e.to) \in Nat
          <6>1. IsFiniteSet(1..Len(edges))
            BY <1>2, FS_Interval
          <6>2. {j \in DOMAIN edges : edges[j].to = e.to} \in SUBSET (1..Len(edges))
            BY <1>2
          <6>3. IsFiniteSet({j \in DOMAIN edges : edges[j].to = e.to})
            BY <6>1, <6>2, FS_Subset
          <6>4. QED BY <6>3, FS_CardinalityType DEF Indegree
        <5>2. QED BY <4>1, <5>1
      <4>3. \A j \in Into(e.to) : j = checked + 1
        <5>1. checked + 1 \in Into(e.to)
          BY <1>2 DEF Into
        <5>2. QED BY <1>2, <4>2, <5>1, IntoFacts
      <4>4. QED BY <3>2, <4>1, <4>3
    <3>3. QED BY <1>5, <3>1, <3>2
  <2>3. ASSUME NEW i \in 1..checked+1, NEW j \in 1..checked+1, Key(edges[i]) = Key(edges[j])
        PROVE  i = j
    <3>1. \A k \in 1..checked : Key(edges[k]) # Key(e)
      BY <1>1 DEF LoadInv, EdgesInv, Faulty
    <3>2. CASE i \in 1..checked /\ j \in 1..checked
      BY <2>3, <3>2 DEF LoadInv, EdgesInv
    <3>3. QED BY <1>5, <2>3, <3>1, <3>2
  <2>4. QED BY <1>1, <1>3, <2>1, <2>2, <2>3 DEF EdgesInv, Key
<1>7. QueueInv'
  BY <1>1, <1>3 DEF LoadInv, QueueInv
<1>8. QED BY <1>4, <1>6, <1>7 DEF LoadInv

LEMMA StartOrderKeepsInv ==
  ASSUME LoadInv, StartOrder
  PROVE  LoadInv'
<1>1. /\ pc = "edges" /\ pc' = "roots" /\ checked = Len(edges) /\ ready = <<>> /\ order = <<>>
      /\ remaining' = [n \in NodeIds |-> Indegree(n)]
      /\ nodes' = nodes /\ edges' = edges /\ malformed' = malformed
      /\ seen_edges' = seen_edges /\ checked' = checked /\ ready' = ready /\ order' = order
  BY DEF StartOrder, document, LoadInv, TextInv
<1>2. NodeIds' = NodeIds /\ queued' = queued /\ \A n : Into(n)' = Into(n)
  BY <1>1 DEF NodeIds, queued, Into
<1>3. /\ edges \in Seq(Edges) /\ Len(edges) \in Nat /\ DOMAIN edges = 1..Len(edges)
      /\ \A i, j \in 1..Len(edges) : edges[i].to = edges[j].to => i = j
  <2>1. edges \in Seq(Edges) /\ Len(edges) \in Nat /\ DOMAIN edges = 1..Len(edges)
    BY TypeFacts DEF LoadInv
  <2>2. QED BY <1>1, <2>1 DEF LoadInv, EdgesInv, Into
<1>4. \A n \in NodeIds : Indegree(n) = IF Into(n) = {} THEN 0 ELSE 1
  <2> TAKE n \in NodeIds
  <2>1. \A i, j \in Into(n) : i = j
    BY <1>3 DEF Into
  <2>2. (Indegree(n) = 0 <=> Into(n) = {}) /\ Indegree(n) <= 1 /\ Indegree(n) \in Nat
    <3>1. IsFiniteSet(1..Len(edges))
      BY <1>3, FS_Interval
    <3>2. {j \in DOMAIN edges : edges[j].to = n} \in SUBSET (1..Len(edges))
      BY <1>3
    <3>3. Indegree(n) \in Nat
      BY <3>1, <3>2, FS_Subset, FS_CardinalityType DEF Indegree
    <3>4. QED BY <1>3, <2>1, <3>3, IntoFacts
  <2>3. QED BY <2>2
<1>5. Range(order) = {} /\ DOMAIN order = {} /\ DOMAIN ready = {}
  <2>1. order \in Seq(Names) /\ Len(order) = 0
    BY <1>1, EmptySeq
  <2>2. DOMAIN order = 1..0
    BY <2>1, LenProperties
  <2>3. QED BY <1>1, <2>2 DEF Range
<1>6. TypeOK' /\ TextInv'
  <2>1. remaining' \in [NodeIds -> Nat]
    BY <1>1, <1>4
  <2>2. TypeOK'
    BY <1>1, <1>2, <2>1 DEF LoadInv, TypeOK
  <2>3. TextInv'
    BY <1>1 DEF LoadInv, TextInv
  <2>4. QED BY <2>2, <2>3
<1>7. EdgesInv'
  BY <1>1, <1>2 DEF LoadInv, EdgesInv, Key
<1>8. QueueInv'
  <2>1. \A n \in NodeIds : Parents(edges, n) \subseteq Range(order) <=> Into(n) = {}
    <3> TAKE n \in NodeIds
    <3>1. Parents(edges, n) = {edges[i].from : i \in Into(n)}
      BY <1>3, IntoFacts
    <3>2. QED BY <1>5, <3>1
  <2>2. \A n \in NodeIds : remaining'[n] = IF Parents(edges, n) \subseteq Range(order) THEN 0 ELSE 1
    BY <1>1, <1>4, <2>1
  <2>3. QED BY <1>1, <1>2, <1>5, <2>2 DEF LoadInv, QueueInv
<1>9. QED BY <1>6, <1>7, <1>8 DEF LoadInv

\* The queue grows at its end.
LEMMA QueueGrows ==
  ASSUME TypeOK, TypeOK', NEW more \in Seq(NodeIds), queued' = queued \o more,
         IsInjective(queued), IsInjective(more), Range(queued) \cap Range(more) = {}
  PROVE  IsInjective(queued') /\ Range(queued') = Range(queued) \cup Range(more)
<1>1. queued \in Seq(NodeIds) /\ Len(queued) \in Nat /\ DOMAIN queued = 1..Len(queued)
      /\ Len(more) \in Nat /\ DOMAIN more = 1..Len(more)
  BY QueuedFacts, LenProperties
<1>2. /\ queued \o more \in Seq(NodeIds) /\ Len(queued \o more) = Len(queued) + Len(more)
      /\ \A i \in 1..Len(queued) + Len(more) :
           (queued \o more)[i] = IF i <= Len(queued) THEN queued[i] ELSE more[i - Len(queued)]
  BY <1>1, ConcatProperties
<1> DEFINE new == queued \o more
<1>3. DOMAIN new = 1..Len(queued) + Len(more)
  BY <1>2, LenProperties
<1>4. Range(new) = Range(queued) \cup Range(more)
  BY <1>1, RangeConcatenation
<1> HIDE DEF new
<1>5. \A i \in DOMAIN new :
        \/ i \in 1..Len(queued) /\ new[i] = queued[i] /\ new[i] \in Range(queued)
        \/ /\ i \notin 1..Len(queued) /\ i \in Int /\ i - Len(queued) \in 1..Len(more)
           /\ new[i] = more[i - Len(queued)] /\ new[i] \in Range(more)
  <2> TAKE i \in DOMAIN new
  <2>1. CASE i <= Len(queued)
    <3>1. i \in 1..Len(queued) /\ new[i] = queued[i]
      BY <1>1, <1>2, <1>3, <2>1 DEF new
    <3>2. QED BY <1>1, <3>1 DEF Range
  <2>2. CASE ~(i <= Len(queued))
    <3>1. i \notin 1..Len(queued) /\ i \in Int /\ i - Len(queued) \in 1..Len(more)
      BY <1>1, <1>3, <2>2
    <3>2. new[i] = more[i - Len(queued)]
      BY <1>2, <1>3, <2>2 DEF new
    <3>3. QED BY <1>1, <3>1, <3>2 DEF Range
  <2>3. QED BY <2>1, <2>2
<1>6. ASSUME NEW i \in DOMAIN new, NEW j \in DOMAIN new, new[i] = new[j]
      PROVE  i = j
  <2>1. CASE i \in 1..Len(queued)
    <3>1. j \in 1..Len(queued) /\ new[j] = queued[j] /\ new[i] = queued[i]
      BY <1>5, <1>6, <2>1
    <3>2. QED BY <1>1, <1>6, <2>1, <3>1 DEF IsInjective
  <2>2. CASE i \notin 1..Len(queued)
    <3>1. /\ j \notin 1..Len(queued) /\ i \in Int /\ j \in Int
          /\ i - Len(queued) \in 1..Len(more) /\ j - Len(queued) \in 1..Len(more)
          /\ more[i - Len(queued)] = more[j - Len(queued)]
      BY <1>5, <1>6, <2>2
    <3>2. i - Len(queued) = j - Len(queued)
      BY <1>1, <3>1 DEF IsInjective
    <3>3. QED BY <1>1, <3>1, <3>2
  <2>3. QED BY <2>1, <2>2
<1>7. IsInjective(new)
  BY <1>6 DEF IsInjective
<1>8. QED BY <1>4, <1>7 DEF new

LEMMA PushRootKeepsInv ==
  ASSUME LoadInv, NEW n \in NodeIds, PushRoot(n)
  PROVE  LoadInv'
<1>1. /\ pc = "roots" /\ pc' = "roots" /\ Indegree(n) = 0 /\ n \notin Range(ready)
      /\ ready' = Append(ready, n) /\ order' = order /\ order = <<>>
      /\ nodes' = nodes /\ edges' = edges /\ malformed' = malformed
      /\ seen_edges' = seen_edges /\ checked' = checked /\ remaining' = remaining
  BY DEF PushRoot, document, LoadInv, QueueInv
<1>2. NodeIds' = NodeIds /\ \A m : Into(m)' = Into(m)
  BY <1>1 DEF NodeIds, Into
<1>3. /\ ready \in Seq(NodeIds) /\ Len(ready) \in Nat /\ DOMAIN ready = 1..Len(ready)
      /\ edges \in Seq(Edges)
  BY TypeFacts DEF LoadInv
<1>4. /\ ready' \in Seq(NodeIds) /\ Len(ready') = Len(ready) + 1 /\ ready' = ready \o <<n>>
      /\ \A i \in 1..Len(ready) : ready'[i] = ready[i]
      /\ ready'[Len(ready) + 1] = n
  BY <1>1, <1>3, AppendProperties, AppendIsConcat
<1>5. TypeOK'
  BY <1>1, <1>2, <1>4 DEF LoadInv, TypeOK
<1>6. TextInv' /\ EdgesInv'
  BY <1>1, <1>2 DEF LoadInv, TextInv, EdgesInv, Key
<1>7. IsInjective(queued')
  <2>1. queued = ready /\ queued' = ready'
    BY <1>1, <1>3, <1>4, ConcatEmptySeq DEF queued
  <2>2. <<n>> \in Seq(NodeIds) /\ IsInjective(<<n>>) /\ Range(<<n>>) = {n}
    BY DEF IsInjective, Range
  <2>3. IsInjective(queued)
    BY DEF LoadInv, QueueInv
  <2>4. Range(queued) \cap Range(<<n>>) = {} /\ queued' = queued \o <<n>>
    BY <1>1, <1>4, <2>1, <2>2
  <2>5. QED BY <1>5, <2>2, <2>3, <2>4, QueueGrows DEF LoadInv
<1>8. \A i \in DOMAIN ready' : Into(ready'[i]) = {}
  <2>1. DOMAIN ready' = 1..Len(ready)+1
    BY <1>4, LenProperties
  <2>2. Into(n) = {}
    BY <1>1, <1>3, IntoFacts
  <2>3. \A i \in 1..Len(ready) : Into(ready[i]) = {}
    BY <1>1, <1>3 DEF LoadInv, QueueInv
  <2>4. \A i \in 1..Len(ready)+1 : i \in 1..Len(ready) \/ i = Len(ready) + 1
    BY <1>3
  <2>5. QED BY <1>4, <2>1, <2>2, <2>3, <2>4
<1>9. QueueInv'
  <2>1. \A i \in DOMAIN order' : FALSE
    <3>1. order' \in Seq(Names) /\ Len(order') = 0
      BY <1>1, EmptySeq
    <3>2. DOMAIN order' = 1..0
      BY <3>1, LenProperties
    <3>3. QED BY <3>2
  <2>2. QED BY <1>1, <1>2, <1>7, <1>8, <2>1 DEF LoadInv, QueueInv
<1>10. QED BY <1>5, <1>6, <1>9 DEF LoadInv

LEMMA RootsPushedKeepsInv ==
  ASSUME LoadInv, RootsPushed
  PROVE  LoadInv'
<1>1. /\ pc = "roots" /\ pc' = "sort" /\ order = <<>>
      /\ \A n \in NodeIds : Indegree(n) = 0 => n \in Range(ready)
      /\ nodes' = nodes /\ edges' = edges /\ malformed' = malformed
      /\ seen_edges' = seen_edges /\ checked' = checked
      /\ remaining' = remaining /\ ready' = ready /\ order' = order
  BY DEF RootsPushed, document, sorting, LoadInv, QueueInv
<1>2. NodeIds' = NodeIds /\ queued' = queued /\ \A m : Into(m)' = Into(m)
  BY <1>1 DEF NodeIds, Into, queued
<1>3. ready \in Seq(NodeIds) /\ DOMAIN ready = 1..Len(ready) /\ edges \in Seq(Edges)
  BY TypeFacts DEF LoadInv
<1>4. TypeOK' /\ TextInv' /\ EdgesInv'
  <2>1. TypeOK'
    BY <1>1, <1>2 DEF LoadInv, TypeOK
  <2>2. QED BY <1>1, <1>2, <2>1 DEF LoadInv, TextInv, EdgesInv, Key
<1>5. Range(queued) = {n \in NodeIds : Parents(edges, n) \subseteq Range(order)}
  <2>1. queued = ready
    BY <1>1, <1>3, ConcatEmptySeq DEF queued
  <2>2. Range(order) = {}
    <3>1. order \in Seq(Names) /\ Len(order) = 0
      BY <1>1, EmptySeq
    <3>2. DOMAIN order = 1..0
      BY <3>1, LenProperties
    <3>3. QED BY <3>2 DEF Range
  <2>3. \A n \in NodeIds : (Parents(edges, n) \subseteq Range(order) <=> Into(n) = {})
                           /\ (Indegree(n) = 0 <=> Into(n) = {})
    <3> TAKE n \in NodeIds
    <3>1. Parents(edges, n) = {edges[i].from : i \in Into(n)}
          /\ (Indegree(n) = 0 <=> Into(n) = {})
      BY <1>3, IntoFacts
    <3>2. QED BY <2>2, <3>1
  <2>4. \A n \in Range(ready) : n \in NodeIds /\ Into(n) = {}
    <3>1. \A i \in DOMAIN ready : Into(ready[i]) = {} /\ ready[i] \in NodeIds
      BY <1>1, <1>3, ElementOfSeq DEF LoadInv, QueueInv
    <3>2. QED BY <3>1 DEF Range
  <2>5. QED BY <1>1, <2>1, <2>3, <2>4
<1>6. QueueInv'
  BY <1>1, <1>2, <1>5 DEF LoadInv, QueueInv
<1>7. QED BY <1>4, <1>6 DEF LoadInv

\* Once all edges are validated, a node has one parent at most.
LEMMA OneParent ==
  ASSUME LoadInv, pc \in {"roots", "sort", "accepted"}
  PROVE  /\ \A i \in DOMAIN edges : edges[i].from \in NodeIds /\ edges[i].to \in NodeIds
         /\ \A i, j \in DOMAIN edges : edges[i].to = edges[j].to => i = j
         /\ \A c, p : p \in Parents(edges, c) => c \in NodeIds /\ p \in NodeIds
                                               /\ Parents(edges, c) = {p}
<1>1. DOMAIN edges = 1..checked /\ edges \in Seq(Edges)
  BY TypeFacts DEF LoadInv, EdgesInv
<1>2. /\ \A i \in DOMAIN edges : edges[i].from \in NodeIds /\ edges[i].to \in NodeIds
      /\ \A i, j \in DOMAIN edges : edges[i].to = edges[j].to => i = j
  BY <1>1 DEF LoadInv, EdgesInv, Into
<1>3. ASSUME NEW c, NEW p \in Parents(edges, c)
      PROVE  c \in NodeIds /\ p \in NodeIds /\ Parents(edges, c) = {p}
  <2>1. Parents(edges, c) = {edges[i].from : i \in Into(c)}
    BY <1>1, IntoFacts
  <2>2. PICK i \in Into(c) : p = edges[i].from
    BY <2>1, <1>3
  <2>3. i \in DOMAIN edges /\ edges[i].to = c /\ \A j \in Into(c) : j = i
    BY <1>2 DEF Into
  <2>4. QED BY <1>2, <2>1, <2>2, <2>3
<1>4. QED BY <1>2, <1>3

\* The node at the head of the queue has not been placed; its parent has.
LEMMA PopsNew ==
  ASSUME LoadInv, pc = "sort", ready # <<>>
  PROVE  LET n == Head(ready)
         IN  n \in NodeIds /\ n \in Range(queued) /\ n \notin Range(order)
             /\ Parents(edges, n) \subseteq Range(order)
<1> DEFINE n == Head(ready)
<1>1. /\ ready \in Seq(NodeIds) /\ Len(ready) \in Nat /\ Len(order) \in Nat
      /\ DOMAIN order = 1..Len(order)
  BY TypeFacts DEF LoadInv
<1>2. n \in NodeIds /\ n = ready[1] /\ Len(ready) > 0
  <2>1. n \in NodeIds
    BY <1>1, HeadTailProperties
  <2>2. Len(ready) > 0
    BY <1>1, EmptySeq
  <2>3. QED BY <1>1, <2>1, <2>2
<1> HIDE DEF n
<1>3. /\ DOMAIN queued = 1..Len(queued) /\ Len(queued) = Len(order) + Len(ready)
      /\ \A i \in 1..Len(order) : queued[i] = order[i]
      /\ \A i \in 1..Len(ready) : queued[Len(order) + i] = ready[i]
  BY QueuedFacts DEF LoadInv
<1>4. Len(order) + 1 \in DOMAIN queued /\ queued[Len(order) + 1] = n
  BY <1>1, <1>2, <1>3, SMTT(30)
<1>5. \A i \in 1..Len(order) : i \in DOMAIN queued /\ i # Len(order) + 1
  BY <1>1, <1>3
<1>6. \A i \in DOMAIN order : order[i] # n
  BY <1>1, <1>3, <1>4, <1>5 DEF LoadInv, QueueInv, IsInjective
<1>7. n \notin Range(order) /\ n \in Range(queued)
  BY <1>4, <1>6 DEF Range
<1>8. Parents(edges, n) \subseteq Range(order)
  BY <1>7 DEF LoadInv, QueueInv
<1>9. QED BY <1>2, <1>7, <1>8 DEF n

LEMMA PopReadyKeepsInv ==
  ASSUME LoadInv, PopReady
  PROVE  LoadInv'
<1> DEFINE n     == Head(ready)
           kids  == Children(edges, n)
           free  == {c \in NodeIds : Left(n)[c] = 0}
<1>1. /\ pc = "sort" /\ pc' = "sort" /\ ready # <<>> /\ order' = Append(order, n)
      /\ remaining' = Left(n) /\ \E freed \in Outgoing(n, free) : ready' = Tail(ready) \o freed
      /\ nodes' = nodes /\ edges' = edges /\ malformed' = malformed
      /\ seen_edges' = seen_edges /\ checked' = checked
  BY DEF PopReady, document
<1>2. NodeIds' = NodeIds /\ \A m : Into(m)' = Into(m)
  BY <1>1 DEF NodeIds, Into
<1>3. PICK freed \in Outgoing(n, free) : ready' = Tail(ready) \o freed
  BY <1>1
<1>4. /\ ready \in Seq(NodeIds) /\ Len(ready) \in Nat /\ order \in Seq(NodeIds) /\ Len(order) \in Nat
      /\ DOMAIN order = 1..Len(order) /\ edges \in Seq(Edges)
  BY TypeFacts DEF LoadInv
<1>5. /\ n \in NodeIds /\ Tail(ready) \in Seq(NodeIds) /\ ready = <<n>> \o Tail(ready)
      /\ n = ready[1] /\ Len(ready) > 0
  <2>1. /\ Head(ready) \in NodeIds /\ Tail(ready) \in Seq(NodeIds) /\ Len(Tail(ready)) = Len(ready) - 1
        /\ \A i \in 1..Len(Tail(ready)) : Tail(ready)[i] = ready[i+1]
    BY <1>1, <1>4, HeadTailProperties
  <2>2. Len(ready) > 0
    BY <1>1, <1>4, EmptySeq
  <2>3. Head(ready) = ready[1]
    BY <1>4, <2>2
  <2>4. ready = <<n>> \o Tail(ready)
    <3> DEFINE whole == <<n>> \o Tail(ready)
    <3>1. <<n>> \in Seq(NodeIds) /\ Len(<<n>>) = 1 /\ <<n>>[1] = n
      BY <2>1
    <3>2. /\ whole \in Seq(NodeIds) /\ Len(whole) = 1 + Len(Tail(ready))
          /\ \A i \in 1..1 + Len(Tail(ready)) :
               whole[i] = IF i <= 1 THEN <<n>>[i] ELSE Tail(ready)[i - 1]
      BY <2>1, <3>1, ConcatProperties
    <3> HIDE DEF whole
    <3>3. Len(whole) = Len(ready)
      BY <1>4, <2>1, <3>2
    <3>4. ASSUME NEW i \in 1..Len(ready)
          PROVE  ready[i] = whole[i]
      <4>1. CASE i = 1
        BY <1>4, <2>1, <2>3, <3>1, <3>2, <3>3, <4>1
      <4>2. CASE i # 1
        <5>1. i - 1 \in 1..Len(Tail(ready)) /\ (i - 1) + 1 = i /\ ~(i <= 1)
              /\ i \in 1..1 + Len(Tail(ready))
          BY <1>4, <2>1, <4>2
        <5>2. ready[i] = Tail(ready)[i - 1]
          BY <2>1, <5>1
        <5>3. QED BY <3>2, <5>1, <5>2
      <4>3. QED BY <4>1, <4>2
    <3>5. QED BY <1>4, <3>2, <3>3, <3>4, SeqEqual DEF whole
  <2>5. QED BY <2>1, <2>2, <2>3, <2>4
<1>6. /\ Range(queued) = {m \in NodeIds : Parents(edges, m) \subseteq Range(order)}
      /\ IsInjective(queued)
      /\ \A m \in NodeIds : remaining[m] = IF Parents(edges, m) \subseteq Range(order) THEN 0 ELSE 1
  BY <1>1 DEF LoadInv, QueueInv
<1>7. n \in Range(queued) /\ n \notin Range(order) /\ Parents(edges, n) \subseteq Range(order)
  BY <1>1, PopsNew
<1>8. /\ order' \in Seq(NodeIds) /\ Len(order') = Len(order) + 1
      /\ \A i \in 1..Len(order) : order'[i] = order[i]
      /\ order'[Len(order) + 1] = n /\ order' = order \o <<n>>
  BY <1>1, <1>4, <1>5, AppendProperties, AppendIsConcat
<1>9. Range(order') = Range(order) \cup {n}
  <2>1. DOMAIN order' = 1..Len(order)+1
    BY <1>8, LenProperties
  <2>2. \A i \in 1..Len(order)+1 : i \in 1..Len(order) \/ i = Len(order) + 1
    BY <1>4
  <2>3. \A i \in 1..Len(order) : i \in 1..Len(order)+1
    BY <1>4
  <2>4. Len(order) + 1 \in 1..Len(order)+1
    BY <1>4
  <2>5. QED BY <1>4, <1>8, <2>1, <2>2, <2>3, <2>4 DEF Range
<1> HIDE DEF n
<1>10. ASSUME NEW c
       PROVE  c \in kids => /\ c \in NodeIds /\ Parents(edges, c) = {n}
  BY <1>1, ChildFacts, OneParent
<1>11. ASSUME NEW c \in NodeIds
       PROVE  /\ c \in kids => ~(Parents(edges, c) \subseteq Range(order))
                               /\ Parents(edges, c) \subseteq Range(order')
              /\ c \notin kids => (Parents(edges, c) \subseteq Range(order')
                                     <=> Parents(edges, c) \subseteq Range(order))
  <2>1. c \notin kids => n \notin Parents(edges, c)
    BY ChildFacts
  <2>2. QED BY <1>7, <1>9, <1>10, <2>1
<1>12. Left(n) \in [NodeIds -> Nat]
       /\ \A c \in NodeIds : Left(n)[c] = IF Parents(edges, c) \subseteq Range(order') THEN 0 ELSE 1
  <2>1. \A c \in NodeIds : Left(n)[c] = IF c \in kids THEN remaining[c] - 1 ELSE remaining[c]
    BY DEF Left
  <2>2. \A c \in NodeIds : Left(n)[c] = IF Parents(edges, c) \subseteq Range(order') THEN 0 ELSE 1
    <3> TAKE c \in NodeIds
    <3>1. CASE c \in kids
      BY <1>6, <1>11, <2>1, <3>1
    <3>2. CASE c \notin kids
      BY <1>6, <1>11, <2>1, <3>2
    <3>3. QED BY <3>1, <3>2
  <2>3. DOMAIN Left(n) = NodeIds /\ Left(n) = [c \in NodeIds |-> Left(n)[c]]
    BY DEF Left
  <2>4. \A c \in NodeIds : Left(n)[c] \in Nat
    BY <2>2
  <2>5. QED BY <2>2, <2>3, <2>4
<1>13. freed \in Seq(NodeIds) /\ Range(freed) = kids /\ IsInjective(freed)
  <2> DEFINE I == {i \in DOMAIN edges : edges[i].from = n /\ edges[i].to \in free}
  <2>1. /\ freed \in Seq(free) /\ Range(freed) = {edges[i].to : i \in I}
        /\ (\A i, j \in I : edges[i].to = edges[j].to => i = j) => IsInjective(freed)
    BY <1>3, <1>4, OutgoingFacts
  <2>2. \A i, j \in I : edges[i].to = edges[j].to => i = j
    BY <1>1, OneParent
  <2>3. \A c \in kids : c \in free
    BY <1>10, <1>11, <1>12
  <2>4. {edges[i].to : i \in I} = kids
    BY <2>3, ChildFacts
  <2>5. free \subseteq NodeIds
    OBVIOUS
  <2>6. freed \in Seq(NodeIds)
    BY <2>1, <2>5, SeqMonotonic
  <2>7. QED BY <2>1, <2>2, <2>4, <2>6
<1>14. queued' = queued \o freed
  <2>1. <<n>> \in Seq(NodeIds)
    BY <1>5
  <2>2. queued' = (order \o <<n>>) \o (Tail(ready) \o freed)
    BY <1>3, <1>8 DEF queued
  <2>3. Tail(ready) \o freed \in Seq(NodeIds) /\ order \o <<n>> \in Seq(NodeIds)
    BY <1>4, <1>5, <1>13, <2>1, ConcatProperties
  <2>4. queued' = ((order \o <<n>>) \o Tail(ready)) \o freed
    <3>1. PICK placed \in Seq(NodeIds) : placed = order \o <<n>>
      BY <2>3
    <3>2. PICK rest \in Seq(NodeIds) : rest = Tail(ready)
      BY <1>5
    <3>3. (placed \o rest) \o freed = placed \o (rest \o freed)
      BY <1>13, ConcatAssociative
    <3>4. QED BY <2>2, <3>1, <3>2, <3>3
  <2>5. (order \o <<n>>) \o Tail(ready) = order \o (<<n>> \o Tail(ready))
    BY <1>4, <1>5, <2>1, ConcatAssociative
  <2>6. QED BY <1>5, <2>4, <2>5 DEF queued
<1>15. TypeOK'
  <2>1. ready' \in Seq(NodeIds)
    BY <1>3, <1>5, <1>13, ConcatProperties
  <2>2. QED BY <1>1, <1>2, <1>8, <1>12, <2>1 DEF LoadInv, TypeOK
<1>16. TextInv' /\ EdgesInv'
  BY <1>1, <1>2 DEF LoadInv, TextInv, EdgesInv, Key
<1>17. IsInjective(queued') /\ Range(queued') = Range(queued) \cup kids
  <2>1. Range(queued) \cap Range(freed) = {}
    BY <1>6, <1>10, <1>11, <1>13
  <2>2. QED BY <1>6, <1>13, <1>14, <1>15, <2>1, QueueGrows DEF LoadInv
<1>18. Range(queued') = {m \in NodeIds : Parents(edges, m) \subseteq Range(order')}
  BY <1>6, <1>10, <1>11, <1>17
<1>19. \A i \in DOMAIN order' : Parents(edges, order'[i]) \subseteq {order'[j] : j \in 1..i-1}
  <2>1. DOMAIN order' = 1..Len(order)+1
    BY <1>8, LenProperties
  <2>2. ASSUME NEW i \in 1..Len(order)
        PROVE  Parents(edges, order'[i]) \subseteq {order'[j] : j \in 1..i-1}
    <3>1. Parents(edges, order[i]) \subseteq {order[j] : j \in 1..i-1}
      BY <1>4 DEF LoadInv, QueueInv
    <3>2. \A j \in 1..i-1 : j \in 1..Len(order)
      BY <1>4
    <3>3. QED BY <1>8, <3>1, <3>2
  <2>3. Parents(edges, n) \subseteq {order'[j] : j \in 1..(Len(order)+1)-1}
    <3>1. \A j \in 1..Len(order) : j \in 1..(Len(order)+1)-1
      BY <1>4
    <3>2. \A p \in Range(order) : \E j \in 1..Len(order) : p = order[j]
      BY <1>4 DEF Range
    <3>3. QED BY <1>7, <1>8, <3>1, <3>2
  <2>4. \A i \in 1..Len(order)+1 : i \in 1..Len(order) \/ i = Len(order) + 1
    BY <1>4
  <2>5. QED BY <1>8, <2>1, <2>2, <2>3, <2>4
<1>20. ASSUME NEW S \in SUBSET Range(order'), S # {}
       PROVE  \E m \in S : Parents(edges, m) \cap S = {}
  <2>1. CASE S \ {n} = {}
    BY <1>7, <1>20, <2>1
  <2>2. CASE S \ {n} # {}
    <3>1. S \ {n} \in SUBSET Range(order)
      BY <1>9
    <3>2. PICK m \in S \ {n} : Parents(edges, m) \cap (S \ {n}) = {}
      BY <2>2, <3>1 DEF LoadInv, QueueInv
    <3>3. m \in Range(queued)
      <4>1. Range(queued) = Range(order) \cup Range(ready)
        BY QueuedFacts DEF LoadInv
      <4>2. QED BY <3>1, <4>1
    <3>4. Parents(edges, m) \subseteq Range(order)
      BY <1>6, <3>3
    <3>5. QED BY <1>7, <3>2, <3>4
  <2>3. QED BY <2>1, <2>2
<1>21. QueueInv'
  BY <1>1, <1>2, <1>12, <1>17, <1>18, <1>19, <1>20 DEF QueueInv
<1>22. QED BY <1>15, <1>16, <1>21 DEF LoadInv

\* A sequence without repetitions has as many members as it is long.
LEMMA LenOfInjective ==
  ASSUME NEW S, NEW s \in Seq(S), IsInjective(s)
  PROVE  IsFiniteSet(Range(s)) /\ Cardinality(Range(s)) = Len(s)
<1>1. Len(s) \in Nat /\ DOMAIN s = 1..Len(s) /\ s \in [1..Len(s) -> S]
  BY LenProperties
<1>2. s \in Bijection(1..Len(s), Range(s))
  <2>1. s \in [1..Len(s) -> Range(s)]
    BY <1>1 DEF Range
  <2>2. s \in Injection(1..Len(s), Range(s))
    BY <1>1, <2>1 DEF Injection, IsInjective
  <2>3. s \in Surjection(1..Len(s), Range(s))
    BY <1>1, <2>1 DEF Surjection, Range
  <2>4. QED BY <2>2, <2>3 DEF Bijection
<1>3. ExistsBijection(1..Len(s), Range(s))
  BY <1>2 DEF ExistsBijection
<1>4. IsFiniteSet(1..Len(s))
  BY <1>1, FS_Interval
<1>5. QED BY <1>1, <1>3, <1>4, FS_Bijection, FS_CountingElements

\* The order is complete exactly when it has as many members as there are nodes.
LEMMA OrderComplete ==
  ASSUME LoadInv, pc = "sort", ready = <<>>
  PROVE  Len(order) = Cardinality(NodeIds) <=> Range(order) = NodeIds
<1>1. /\ nodes \in Seq(Names) /\ IsInjective(nodes)
      /\ order \in Seq(NodeIds) /\ DOMAIN order = 1..Len(order)
  BY TypeFacts DEF LoadInv, TextInv
<1>2. queued = order
  BY <1>1, ConcatEmptySeq DEF queued
<1>3. IsInjective(order)
  BY <1>2 DEF LoadInv, QueueInv
<1>4. IsFiniteSet(NodeIds)
  BY <1>1, LenOfInjective DEF NodeIds
<1>5. Cardinality(Range(order)) = Len(order) /\ Range(order) \in SUBSET NodeIds
  BY <1>1, <1>3, LenOfInjective, RangeOfSeq
<1>6. QED BY <1>4, <1>5, FS_Subset

LEMMA FinishOrderKeepsInv ==
  ASSUME LoadInv, FinishOrder
  PROVE  LoadInv'
<1>1. /\ pc = "sort" /\ ready = <<>>
      /\ pc' = IF Len(order) = Cardinality(NodeIds) THEN "accepted" ELSE "rejected"
      /\ nodes' = nodes /\ edges' = edges /\ malformed' = malformed
      /\ seen_edges' = seen_edges /\ checked' = checked
      /\ remaining' = remaining /\ ready' = ready /\ order' = order
  BY DEF FinishOrder, document, sorting
<1>2. NodeIds' = NodeIds /\ queued' = queued /\ \A m : Into(m)' = Into(m)
  BY <1>1 DEF NodeIds, Into, queued
<1>3. TypeOK' /\ TextInv' /\ EdgesInv'
  <2>1. TypeOK'
    BY <1>1, <1>2 DEF LoadInv, TypeOK
  <2>2. QED BY <1>1, <1>2, <2>1 DEF LoadInv, TextInv, EdgesInv, Key
<1>4. QueueInv'
  <2>1. pc' = "accepted" => Range(order) = NodeIds
    BY <1>1, OrderComplete
  <2>2. QED BY <1>1, <1>2, <2>1 DEF LoadInv, QueueInv
<1>5. QED BY <1>3, <1>4 DEF LoadInv

LEMMA LoadKeepsInv ==
  ASSUME LoadInv, Load
  PROVE  LoadInv'
<1>1. CASE \/ \E n \in Names : ReadNode(n)
           \/ \E from, to \in Names : ReadEdge(from, to)
  BY <1>1, ReadKeepsInv
<1>2. CASE ReadMalformed \/ RejectNodes \/ AcceptNodes \/ RejectEdge
  <2>1. UNCHANGED <<nodes, edges, seen_edges, checked, sorting>>
    BY <1>2 DEF ReadMalformed, RejectNodes, AcceptNodes, RejectEdge, document
  <2>2. malformed \in BOOLEAN
    BY DEF LoadInv, TypeOK
  <2>3. \/ pc' = "rejected" /\ malformed' \in BOOLEAN
        \/ malformed' = malformed /\ AcceptNodes
    BY <1>2, <2>2 DEF ReadMalformed, RejectNodes, AcceptNodes, RejectEdge, document
  <2>4. QED BY <2>1, <2>3, VerdictKeepsInv
<1>3. CASE CheckEdge
  BY <1>3, CheckEdgeKeepsInv
<1>4. CASE StartOrder
  BY <1>4, StartOrderKeepsInv
<1>5. CASE \E n \in NodeIds : PushRoot(n)
  BY <1>5, PushRootKeepsInv
<1>6. CASE RootsPushed
  BY <1>6, RootsPushedKeepsInv
<1>7. CASE PopReady
  BY <1>7, PopReadyKeepsInv
<1>8. CASE FinishOrder
  BY <1>8, FinishOrderKeepsInv
<1>9. QED BY <1>1, <1>2, <1>3, <1>4, <1>5, <1>6, <1>7, <1>8 DEF Load

LEMMA LoadStutters ==
  ASSUME LoadInv, UNCHANGED vars
  PROVE  LoadInv'
<1>1. /\ pc' = pc /\ nodes' = nodes /\ edges' = edges /\ malformed' = malformed
      /\ seen_edges' = seen_edges /\ checked' = checked
      /\ remaining' = remaining /\ ready' = ready /\ order' = order
  BY DEF vars, document, sorting
<1>2. NodeIds' = NodeIds /\ queued' = queued /\ \A m : Into(m)' = Into(m)
  BY <1>1 DEF NodeIds, Into, queued
<1>3. TypeOK'
  BY <1>1, <1>2 DEF LoadInv, TypeOK
<1>4. TextInv' /\ EdgesInv'
  BY <1>1, <1>2 DEF LoadInv, TextInv, EdgesInv, Key
<1>5. QueueInv'
  BY <1>1, <1>2 DEF LoadInv, QueueInv
<1>6. QED BY <1>3, <1>4, <1>5 DEF LoadInv

LEMMA LoadStarts == Init => LoadInv
<1> SUFFICES ASSUME Init PROVE LoadInv
  OBVIOUS
<1>1. /\ pc = "read" /\ nodes = <<>> /\ edges = <<>> /\ malformed = FALSE
      /\ seen_edges = {} /\ checked = 0 /\ ready = <<>> /\ order = <<>>
  BY DEF Init
<1>2. /\ \A S : nodes \in Seq(S) /\ edges \in Seq(S) /\ ready \in Seq(S) /\ order \in Seq(S)
      /\ Len(edges) = 0 /\ Len(order) = 0
  BY <1>1, EmptySeq
<1>3. TypeOK
  <2>1. checked \in 0..Len(edges)
    BY <1>1, <1>2
  <2>2. /\ nodes \in Seq(Names) /\ edges \in Seq([from : Names, to : Names])
        /\ ready \in Seq(NodeIds) /\ order \in Seq(NodeIds)
    BY <1>2
  <2>3. QED BY <1>1, <2>1, <2>2 DEF TypeOK
<1>4. TextInv /\ EdgesInv
  BY <1>1 DEF TextInv, EdgesInv
<1>5. DOMAIN queued = {} /\ DOMAIN order = {}
  <2>1. queued = <<>>
    BY <1>1, <1>2, ConcatEmptySeq DEF queued
  <2>2. DOMAIN order = 1..0
    BY <1>2, LenProperties
  <2>3. QED BY <1>1, <2>1, <2>2
<1>6. QueueInv
  BY <1>1, <1>5 DEF QueueInv, IsInjective, Range
<1>7. QED BY <1>3, <1>4, <1>6 DEF LoadInv

(***************************************************************************)
(* What is accepted, and that loading implements its contract.             *)
(***************************************************************************)

\* The contract's notions are those of GraphOrder.
LEMMA SameNotions ==
  /\ \A f : Contract!Range(f) = Range(f) /\ (Contract!IsInjective(f) <=> IsInjective(f))
  /\ \A es, n : Contract!Parents(es, n) = Parents(es, n)
  /\ Contract!Executable(nodes, edges) <=> Executable(nodes, edges)
<1>1. \A f : Contract!Range(f) = Range(f) /\ (Contract!IsInjective(f) <=> IsInjective(f))
  BY DEF Contract!Range, Range, Contract!IsInjective, IsInjective
<1>2. \A es, n : Contract!Parents(es, n) = Parents(es, n)
  BY <1>1 DEF Contract!Parents, Parents
<1>3. Contract!Acyclic(nodes, edges) <=> Acyclic(nodes, edges)
  BY <1>1, <1>2 DEF Contract!Acyclic, Acyclic
<1>4. Contract!Executable(nodes, edges) <=> Executable(nodes, edges)
  BY <1>1, <1>3 DEF Contract!Executable, Executable
<1>5. QED BY <1>1, <1>2, <1>4

\* After validation only a cycle can keep a document from being executable.
LEMMA Forest ==
  ASSUME LoadInv, pc \in {"roots", "sort", "accepted"}
  PROVE  Contract!WrittenDifferently /\ (Executable(nodes, edges) <=> Acyclic(nodes, edges))
<1>1. DOMAIN edges = 1..checked
  BY TypeFacts DEF LoadInv, EdgesInv
<1>2. \A i, j \in DOMAIN edges : Key(edges[i]) = Key(edges[j]) => i = j
  BY <1>1 DEF LoadInv, EdgesInv
<1>3. Contract!WrittenDifferently
  BY <1>2, SameNotions DEF Contract!WrittenDifferently, Contract!Written, IsInjective, Key
<1>4. IsInjective(edges)
  BY <1>2 DEF IsInjective
<1>5. \A e \in Range(edges) : e.from \in Range(nodes) /\ e.to \in Range(nodes)
  BY OneParent DEF Range, NodeIds
<1>6. \A e, f \in Range(edges) : e.to = f.to => e.from = f.from
  BY OneParent DEF Range
<1>7. nodes # <<>> /\ IsInjective(nodes)
  BY DEF LoadInv, TextInv
<1>8. QED BY <1>3, <1>4, <1>5, <1>6, <1>7 DEF Executable

LEMMA PlacedIsAcyclic ==
  ASSUME LoadInv, Range(order) = NodeIds
  PROVE  Acyclic(nodes, edges)
BY DEF Acyclic, NodeIds, LoadInv, QueueInv

\* Of the nodes that never entered the queue none is first.
LEMMA LeftOverIsCyclic ==
  ASSUME LoadInv, pc = "sort", ready = <<>>, Range(order) # NodeIds
  PROVE  ~Acyclic(nodes, edges)
<1> DEFINE S == NodeIds \ Range(order)
<1>1. Range(order) \subseteq NodeIds /\ order \in Seq(NodeIds)
  BY TypeFacts, RangeOfSeq DEF LoadInv
<1>2. S # {} /\ S \in SUBSET Range(nodes)
  BY <1>1 DEF NodeIds
<1>3. Range(order) = {n \in NodeIds : Parents(edges, n) \subseteq Range(order)}
  <2>1. queued = order
    BY <1>1, ConcatEmptySeq DEF queued
  <2>2. QED BY <2>1 DEF LoadInv, QueueInv
<1>4. ASSUME NEW n \in S
      PROVE  Parents(edges, n) \cap S # {}
  <2>1. PICK p \in Parents(edges, n) : p \notin Range(order)
    BY <1>3, <1>4
  <2>2. p \in NodeIds
    BY <2>1, OneParent
  <2>3. QED BY <2>1, <2>2
<1>5. QED BY <1>2, <1>4 DEF Acyclic

\* Every step of loading is one of the contract, or invisible to it.
LEMMA LoadImplements ==
  ASSUME LoadInv, LoadInv', Load
  PROVE  Contract!Next \/ UNCHANGED Contract!vars
<1> USE SameNotions DEF Decided
<1>1. ASSUME NEW n \in Names, ReadNode(n)
      PROVE  Contract!Next
  <2>1. /\ pc = "read" /\ pc' = "read" /\ nodes' = Append(nodes, n) /\ order = <<>> /\ order' = order
        /\ edges' = edges /\ malformed' = malformed
    BY <1>1 DEF ReadNode, LoadInv, TextInv, sorting
  <2>2. n \in Range(nodes')
    <3>1. /\ nodes \in Seq(Names) /\ Len(nodes) \in Nat
      BY TypeFacts DEF LoadInv
    <3>2. /\ nodes' \in Seq(Names) /\ Len(nodes') = Len(nodes) + 1 /\ nodes'[Len(nodes) + 1] = n
      BY <2>1, <3>1, AppendProperties
    <3>3. DOMAIN nodes' = 1..Len(nodes)+1 /\ Len(nodes) + 1 \in 1..Len(nodes)+1
      BY <3>1, <3>2, LenProperties
    <3>4. QED BY <3>2, <3>3 DEF Range
  <2>3. QED BY <2>1, <2>2 DEF Contract!Next, Contract!Read
<1>2. ASSUME NEW from \in Names, NEW to \in Names, ReadEdge(from, to)
      PROVE  Contract!Next
  <2> DEFINE e == Edge(from, to)
  <2>1. /\ pc = "read" /\ pc' = "read" /\ edges' = Append(edges, e) /\ order = <<>> /\ order' = order
        /\ nodes' = nodes /\ malformed' = malformed
    BY <1>2 DEF ReadEdge, LoadInv, TextInv, sorting
  <2>2. e \in Range(edges')
    <3>1. /\ edges \in Seq(Edges) /\ Len(edges) \in Nat /\ e \in Edges
      BY TypeFacts DEF LoadInv, Edges, Edge
    <3>2. /\ edges' \in Seq(Edges) /\ Len(edges') = Len(edges) + 1 /\ edges'[Len(edges) + 1] = e
      BY <2>1, <3>1, AppendProperties
    <3>3. DOMAIN edges' = 1..Len(edges)+1 /\ Len(edges) + 1 \in 1..Len(edges)+1
      BY <3>1, <3>2, LenProperties
    <3>4. QED BY <3>2, <3>3 DEF Range
  <2>3. QED BY <2>1, <2>2 DEF Contract!Next, Contract!Read
<1>3. ASSUME ReadMalformed
      PROVE  Contract!Next
  BY <1>3 DEF ReadMalformed, sorting, Contract!Next, Contract!Reject
<1>4. ASSUME RejectNodes
      PROVE  Contract!Next
  <2>1. ~Executable(nodes, edges)
    BY <1>4 DEF RejectNodes, Executable
  <2>2. QED BY <1>4, <2>1 DEF RejectNodes, document, sorting, Contract!Next, Contract!Reject
<1>5. ASSUME RejectEdge
      PROVE  Contract!Next
  <2> DEFINE e == edges[checked + 1]
  <2>1. /\ DOMAIN edges = 1..Len(edges) /\ checked + 1 \in DOMAIN edges /\ e \in Range(edges)
        /\ checked \in Nat /\ edges \in Seq(Edges) /\ Len(edges) \in Nat
        /\ \A i \in 1..checked : i \in DOMAIN edges /\ i # checked + 1
    <3>1. /\ DOMAIN edges = 1..Len(edges) /\ checked < Len(edges) /\ checked \in Nat
          /\ edges \in Seq(Edges) /\ Len(edges) \in Nat
      BY <1>5, TypeFacts DEF RejectEdge, LoadInv
    <3>2. QED BY <3>1 DEF Range
  <2>2. e.from \notin NodeIds \/ e.to \notin NodeIds => ~Executable(nodes, edges)
    BY <2>1 DEF Executable, NodeIds
  <2>3. CASE Key(e) \in seen_edges
    <3>1. PICK i \in 1..checked : Key(edges[i]) = Key(e)
      BY <2>3 DEF LoadInv, EdgesInv
    <3>2. ~Contract!WrittenDifferently
      <4>1. i \in DOMAIN edges /\ checked + 1 \in DOMAIN edges /\ i # checked + 1
        BY <2>1, <3>1
      <4>2. Contract!Written(edges[i]) = Contract!Written(edges[checked + 1])
        BY <3>1 DEF Contract!Written, Key
      <4>3. QED BY <4>1, <4>2 DEF Contract!WrittenDifferently, IsInjective
    <3>3. QED BY <1>5, <3>2 DEF RejectEdge, document, sorting, Contract!Next, Contract!Reject
  <2>4. CASE Indegree(e.to) > 1
    <3>1. PICK i, j \in Into(e.to) : i # j
      <4>1. Indegree(e.to) \in Nat
        <5>1. IsFiniteSet(1..Len(edges))
          BY <2>1, FS_Interval
        <5>2. {k \in DOMAIN edges : edges[k].to = e.to} \in SUBSET (1..Len(edges))
          BY <2>1
        <5>3. QED BY <5>1, <5>2, FS_Subset, FS_CardinalityType DEF Indegree
      <4>2. ~(Indegree(e.to) <= 1)
        BY <2>4, <4>1
      <4>3. QED BY <2>1, <4>2, IntoFacts
    <3>2. i \in DOMAIN edges /\ j \in DOMAIN edges /\ edges[i].to = edges[j].to
      BY DEF Into
    <3>3. edges[i].from = edges[j].from => edges[i] = edges[j]
      <4>1. edges[i] \in Edges /\ edges[j] \in Edges
        BY <2>1, <3>2, ElementOfSeq
      <4>2. QED BY <3>2, <4>1 DEF Edges
    <3>4. ~Executable(nodes, edges)
      BY <3>1, <3>2, <3>3 DEF Executable, IsInjective, Range
    <3>5. QED BY <1>5, <3>4 DEF RejectEdge, document, sorting, Contract!Next, Contract!Reject
  <2>5. Faulty(e)
    BY <1>5 DEF RejectEdge
  <2>6. CASE ~Executable(nodes, edges)
    BY <1>5, <2>6 DEF RejectEdge, document, sorting, Contract!Next, Contract!Reject
  <2>7. QED BY <2>2, <2>3, <2>4, <2>5, <2>6 DEF Faulty
<1>6. ASSUME AcceptNodes \/ CheckEdge \/ StartOrder \/ RootsPushed \/ \E n \in NodeIds : PushRoot(n)
      PROVE  UNCHANGED Contract!vars
  BY <1>6 DEF AcceptNodes, CheckEdge, StartOrder, RootsPushed, PushRoot, document, sorting,
              Contract!vars, Contract!document
<1>7. ASSUME PopReady
      PROVE  Contract!Next
  <2> DEFINE n == Head(ready)
  <2>1. /\ pc = "sort" /\ pc' = "sort" /\ order' = Append(order, n)
        /\ nodes' = nodes /\ edges' = edges /\ malformed' = malformed
    BY <1>7 DEF PopReady, document
  <2>2. /\ n \in Range(nodes) \ Range(order) /\ Parents(edges, n) \subseteq Range(order)
    BY <1>7, PopsNew DEF PopReady, NodeIds
  <2> HIDE DEF n
  <2>3. QED BY <2>1, <2>2 DEF Contract!Next, Contract!Place, Contract!document
<1>8. ASSUME FinishOrder
      PROVE  Contract!Next
  <2>1. /\ pc = "sort" /\ ready = <<>>
        /\ pc' = IF Len(order) = Cardinality(NodeIds) THEN "accepted" ELSE "rejected"
        /\ nodes' = nodes /\ edges' = edges /\ malformed' = malformed /\ order' = order
    BY <1>8 DEF FinishOrder, document, sorting
  <2>2. CASE Range(order) = NodeIds
    <3>1. pc' = "accepted" /\ ~malformed
      BY <2>1, <2>2, OrderComplete DEF LoadInv, TextInv
    <3>2. Executable(nodes, edges) /\ Contract!WrittenDifferently
      BY <2>1, <2>2, Forest, PlacedIsAcyclic
    <3>3. QED BY <2>1, <2>2, <3>1, <3>2 DEF Contract!Next, Contract!Accept, Contract!document, NodeIds
  <2>3. CASE Range(order) # NodeIds
    <3>1. pc' = "rejected"
      BY <2>1, <2>3, OrderComplete
    <3>2. ~Executable(nodes, edges)
      BY <2>1, <2>3, LeftOverIsCyclic DEF Executable
    <3>3. QED BY <2>1, <3>1, <3>2 DEF Contract!Next, Contract!Reject
  <2>4. QED BY <2>2, <2>3
<1>9. QED BY <1>1, <1>2, <1>3, <1>4, <1>5, <1>6, <1>7, <1>8 DEF Load

(***************************************************************************)
(* Ids and slices.                                                         *)
(***************************************************************************)

LEMMA IdFacts ==
  ASSUME LoadInv, pc = "accepted"
  PROVE  /\ \A n \in NodeIds : Id(n) \in Ids /\ nodes[Id(n) + 1] = n
         /\ \A id \in Ids : /\ id \in Nat /\ id + 1 \in 1..Len(nodes) /\ (id + 1) - 1 = id
                            /\ nodes[id + 1] \in NodeIds /\ Id(nodes[id + 1]) = id
         /\ \A k \in 1..Len(nodes) : k - 1 \in Ids /\ (k - 1) + 1 = k /\ k \in Nat
         /\ \A id, other \in Ids : nodes[id + 1] = nodes[other + 1] => id = other
<1>1. Len(nodes) \in Nat /\ DOMAIN nodes = 1..Len(nodes) /\ IsInjective(nodes)
  BY TypeFacts DEF LoadInv, TextInv
<1>2. /\ \A id \in Ids : id \in Nat /\ id + 1 \in 1..Len(nodes) /\ (id + 1) - 1 = id
      /\ \A k \in 1..Len(nodes) : k - 1 \in Ids /\ (k - 1) + 1 = k /\ k \in Nat
  BY <1>1 DEF Ids
<1>3. ASSUME NEW id \in Ids, NEW other \in Ids, nodes[id + 1] = nodes[other + 1]
      PROVE  id = other
  <2>1. id + 1 = other + 1
    BY <1>1, <1>2, <1>3 DEF IsInjective
  <2>2. QED BY <1>2, <2>1
<1>4. ASSUME NEW n \in NodeIds
      PROVE  Id(n) \in Ids /\ nodes[Id(n) + 1] = n
  <2>1. \E k \in 1..Len(nodes) : nodes[k] = n
    BY <1>1 DEF NodeIds, Range
  <2>2. \E id \in Ids : nodes[id + 1] = n
    BY <1>2, <2>1
  <2>3. QED BY <2>2 DEF Id
<1>5. ASSUME NEW id \in Ids
      PROVE  nodes[id + 1] \in NodeIds /\ Id(nodes[id + 1]) = id
  <2>1. nodes[id + 1] \in NodeIds
    BY <1>1, <1>2 DEF NodeIds, Range
  <2>2. QED BY <1>3, <1>4, <2>1
<1>6. QED BY <1>2, <1>3, <1>4, <1>5

LEMMA HoldsLonger ==
  ASSUME NEW S, NEW vector \in Seq(S), NEW more \in Seq(S), NEW s \in Seq(S), NEW offset \in Nat,
         HoldsAt(vector, offset, s)
  PROVE  HoldsAt(vector \o more, offset, s)
<1>1. Len(vector) \in Nat /\ Len(more) \in Nat /\ Len(s) \in Nat
  BY LenProperties
<1>2. /\ Len(vector \o more) = Len(vector) + Len(more)
      /\ \A i \in 1..Len(vector) + Len(more) :
           (vector \o more)[i] = IF i <= Len(vector) THEN vector[i] ELSE more[i - Len(vector)]
  BY ConcatProperties
<1>3. offset + Len(s) <= Len(vector) /\ \A j \in 1..Len(s) : vector[offset + j] = s[j]
  BY DEF HoldsAt
<1>4. \A j \in 1..Len(s) : offset + j \in 1..Len(vector) + Len(more) /\ offset + j <= Len(vector)
  BY <1>1, <1>3
<1>5. offset + Len(s) <= Len(vector \o more)
  BY <1>1, <1>2, <1>3
<1>6. QED BY <1>2, <1>3, <1>4, <1>5 DEF HoldsAt

LEMMA HoldsNew ==
  ASSUME NEW S, NEW vector \in Seq(S), NEW s \in Seq(S)
  PROVE  HoldsAt(vector \o s, Len(vector), s)
<1>1. Len(vector) \in Nat /\ Len(s) \in Nat
  BY LenProperties
<1>2. /\ Len(vector \o s) = Len(vector) + Len(s)
      /\ \A i \in 1..Len(vector) + Len(s) :
           (vector \o s)[i] = IF i <= Len(vector) THEN vector[i] ELSE s[i - Len(vector)]
  BY ConcatProperties
<1>3. \A j \in 1..Len(s) : /\ Len(vector) + j \in 1..Len(vector) + Len(s)
                           /\ ~(Len(vector) + j <= Len(vector))
                           /\ (Len(vector) + j) - Len(vector) = j
  BY <1>1
<1>4. QED BY <1>1, <1>2, <1>3 DEF HoldsAt

LEMMA SliceOfHeld ==
  ASSUME NEW S, NEW vector \in Seq(S), NEW s \in Seq(S), NEW offset \in Nat,
         HoldsAt(vector, offset, s)
  PROVE  Slice(vector, offset, Len(s)) = s
<1>1. Len(vector) \in Nat /\ Len(s) \in Nat /\ \A i \in 1..Len(s) : s[i] \in S
  BY LenProperties, ElementOfSeq
<1>2. offset + Len(s) <= Len(vector) /\ \A j \in 1..Len(s) : vector[offset + j] = s[j]
  BY DEF HoldsAt
<1> DEFINE m == offset + 1
           n == offset + Len(s)
           cut == SubSeq(vector, m, n)
<1>3. m \in Int /\ n \in Int /\ n - m + 1 = Len(s) /\ (IF m <= n THEN n-m+1 ELSE 0) = Len(s)
  BY <1>1
<1>4. \A i \in m..n : vector[i] \in S
  <2> TAKE i \in m..n
  <2>1. i - offset \in 1..Len(s) /\ offset + (i - offset) = i
    BY <1>1
  <2>2. QED BY <1>1, <1>2, <2>1
<1>5. /\ cut \in Seq(S) /\ Len(cut) = Len(s)
      /\ \A i \in 1..Len(s) : cut[i] = vector[m + i - 1]
  <2> HIDE DEF m, n
  <2>1. /\ SubSeq(vector, m, n) \in Seq(S)
        /\ Len(SubSeq(vector, m, n)) = IF m <= n THEN n-m+1 ELSE 0
        /\ \A i \in 1..n-m+1 : SubSeq(vector, m, n)[i] = vector[m+i-1]
    BY <1>3, <1>4, SubSeqProperties
  <2>2. QED BY <1>3, <2>1
<1>6. \A i \in 1..Len(s) : m + i - 1 = offset + i
  BY <1>1
<1>7. \A i \in 1..Len(s) : cut[i] = s[i]
  BY <1>2, <1>5, <1>6
<1> HIDE DEF cut
<1>8. cut = s
  BY <1>5, <1>7, SeqEqual
<1>9. QED BY <1>8 DEF Slice, cut

(***************************************************************************)
(* Building keeps the invariant.                                           *)
(***************************************************************************)

\* What a step of build_snapshot can rely on.
LEMMA BuildFacts ==
  ASSUME IInv, Build
  PROVE  /\ LoadInv /\ BuildInv /\ pc = "accepted" /\ UNCHANGED vars
         /\ nodes' = nodes /\ edges' = edges /\ pc' = pc /\ Ids' = Ids
         /\ Len(nodes) \in Nat /\ Len(edges) \in Nat /\ cursor \in Nat
<1>1. LoadInv /\ BuildInv
  BY DEF IInv
<1>2. pc = "accepted" /\ UNCHANGED vars
  BY <1>1 DEF Build, StartBuild, AppendNode, LinkEdge, SetAdjacency, NextStage,
              SetExecutionOrder, BuildInv, StageInv
<1>3. nodes' = nodes /\ edges' = edges /\ pc' = pc
  BY <1>2 DEF vars, document
<1>4. Ids' = Ids
  BY <1>3 DEF Ids
<1>5. QED BY <1>1, <1>2, <1>3, <1>4, TypeFacts DEF LoadInv, BuildInv, StageInv

LEMMA StartBuildKeepsInv ==
  ASSUME IInv, StartBuild
  PROVE  BuildInv'
<1>1. /\ LoadInv /\ BuildInv /\ pc = "accepted" /\ nodes' = nodes /\ edges' = edges /\ pc' = pc
      /\ Ids' = Ids /\ Len(nodes) \in Nat /\ Len(edges) \in Nat
  BY BuildFacts DEF Build
<1>2. /\ stage = "none" /\ stage' = "append" /\ cursor = 0 /\ cursor' = 0
      /\ incoming' = [id \in Ids |-> <<>>] /\ outgoing' = [id \in Ids |-> <<>>]
      /\ records' = <<>> /\ argv_storage' = <<>>
      /\ incoming_storage' = <<>> /\ outgoing_storage' = <<>>
  BY <1>1 DEF StartBuild, BuildInv, StageInv, storage
<1>3. Appended' = 0 /\ Linked' = 0 /\ Adjacent' = 0
  BY <1>2 DEF Appended, Linked, Adjacent
<1>4. \A S : <<>> \in Seq(S) /\ Len(<<>>) = 0
  BY EmptySeq
<1>5. StageInv'
  <2>1. \A id \in Ids : <<>> \in Seq(Ids)
    BY <1>4
  <2>2. incoming' \in [Ids -> Seq(Ids)] /\ outgoing' \in [Ids -> Seq(Ids)]
    BY <1>2, <2>1
  <2>3. QED BY <1>1, <1>2, <1>4, <2>2 DEF StageInv
<1>6. RecordInv' /\ AdjacencyInv' /\ OrderInv'
  BY <1>2, <1>3, <1>4 DEF RecordInv, AdjacencyInv, OrderInv
<1>7. LinkInv'
  <2>1. ASSUME NEW id \in Ids
        PROVE  Neighbours(<<>>, <<>>, nodes[id + 1], 0, nodes, edges)
    <3>1. /\ {i \in 1..0 : edges[i].from = nodes[id + 1]} = {}
          /\ {j \in 1..0 : edges[j].to = nodes[id + 1]} = {}
      OBVIOUS
    <3>2. Lists(<<>>, {}, nodes, edges)
      <4>1. 1..Len(<<>>) = {}
        BY <1>4
      <4>2. <<>> \in [1..Len(<<>>) -> {}]
        BY <4>1
      <4>3. QED BY <4>1, <4>2 DEF Lists
    <3>3. {nodes[<<>>[k] + 1] : k \in 1..Len(<<>>)} = {} /\ {edges[i].from : i \in {}} = {}
      BY <1>4
    <3>4. QED BY <1>4, <3>1, <3>2, <3>3 DEF Neighbours
  <2>2. \A id \in Ids : outgoing'[id] = <<>> /\ incoming'[id] = <<>>
    BY <1>2
  <2>3. QED BY <1>1, <1>3, <2>1, <2>2 DEF LinkInv
<1>8. QED BY <1>5, <1>6, <1>7 DEF BuildInv

LEMMA AppendNodeKeepsInv ==
  ASSUME IInv, AppendNode
  PROVE  BuildInv'
<1> DEFINE n == nodes[cursor + 1]
           r == [name |-> n, argv_offset |-> ArgvOffset, argv_count |-> Len(Argv[n]),
                 incoming_offset |-> 0, incoming_count |-> 0,
                 outgoing_offset |-> 0, outgoing_count |-> 0]
<1>1. /\ LoadInv /\ BuildInv /\ pc = "accepted" /\ nodes' = nodes /\ edges' = edges /\ pc' = pc
      /\ Ids' = Ids /\ Len(nodes) \in Nat /\ Len(edges) \in Nat /\ cursor \in Nat
  BY BuildFacts DEF Build
<1>2. /\ stage = "append" /\ stage' = stage /\ cursor < Len(nodes) /\ cursor' = cursor + 1
      /\ argv_storage' = argv_storage \o Argv[n] /\ records' = Append(records, r)
      /\ incoming_storage' = incoming_storage /\ outgoing_storage' = outgoing_storage
      /\ incoming' = incoming /\ outgoing' = outgoing /\ execution_order' = execution_order
  BY DEF AppendNode, lists
<1>3. /\ records \in Seq(Records) /\ argv_storage \in Seq(STRING)
      /\ incoming \in [Ids -> Seq(Ids)] /\ outgoing \in [Ids -> Seq(Ids)]
      /\ incoming_storage \in Seq(Ids) /\ outgoing_storage \in Seq(Ids)
  BY <1>1, <1>2 DEF BuildInv, StageInv
<1>4. n \in Names /\ Argv[n] \in Seq(STRING) /\ Len(Argv[n]) \in Nat /\ cursor + 1 \in 1..Len(nodes)
  <2>1. cursor + 1 \in 1..Len(nodes)
    BY <1>1, <1>2
  <2>2. n \in Names
    BY <1>1, <2>1, TypeFacts DEF LoadInv
  <2>3. QED BY <2>1, <2>2, ArgvAssumption, LenProperties
<1>5. r \in Records /\ r.name = n /\ r.argv_offset = Len(argv_storage) /\ r.argv_count = Len(Argv[n])
  <2>1. Len(argv_storage) \in Nat
    BY <1>3, LenProperties
  <2>2. QED BY <1>4, <2>1 DEF Records, ArgvOffset
<1> HIDE DEF r
<1>6. /\ Appended = cursor /\ Appended' = cursor + 1 /\ Linked = 0 /\ Linked' = 0
      /\ Adjacent = 0 /\ Adjacent' = 0
  BY <1>2 DEF Appended, Linked, Adjacent
<1>7. /\ Len(records) = cursor /\ records' \in Seq(Records) /\ Len(records') = cursor + 1
      /\ \A k \in 1..cursor : records'[k] = records[k]
      /\ records'[cursor + 1] = r
  <2>1. Len(records) = cursor
    BY <1>1, <1>6 DEF BuildInv, RecordInv
  <2>2. QED BY <1>2, <1>3, <1>5, <2>1, AppendProperties
<1>8. argv_storage' \in Seq(STRING)
  BY <1>2, <1>3, <1>4, ConcatProperties
<1>9. StageInv'
  <2>1. cursor + 1 \in Nat /\ cursor + 1 <= Len(nodes)
    BY <1>1, <1>2
  <2>2. QED BY <1>1, <1>2, <1>3, <1>7, <1>8, <2>1 DEF StageInv
<1>10. RecordInv'
  <2>1. ASSUME NEW k \in 1..cursor
        PROVE  /\ records'[k].name = nodes[k]
               /\ records'[k].argv_count = Len(Argv[nodes[k]])
               /\ HoldsAt(argv_storage', records'[k].argv_offset, Argv[nodes[k]])
    <3>1. /\ records'[k] = records[k] /\ records[k].name = nodes[k]
          /\ records[k].argv_count = Len(Argv[nodes[k]])
          /\ HoldsAt(argv_storage, records[k].argv_offset, Argv[nodes[k]])
      BY <1>1, <1>6, <1>7 DEF BuildInv, RecordInv
    <3>2. records[k].argv_offset \in Nat
      <4>1. records[k] \in Records
        BY <1>3, <1>7, ElementOfSeq
      <4>2. QED BY <4>1 DEF Records
    <3>3. Argv[nodes[k]] \in Seq(STRING)
      <4>1. k \in 1..Len(nodes)
        BY <1>1, <1>2
      <4>2. nodes[k] \in Names
        BY <1>1, <4>1, TypeFacts DEF LoadInv
      <4>3. QED BY <4>2, ArgvAssumption
    <3>4. HoldsAt(argv_storage', records[k].argv_offset, Argv[nodes[k]])
      BY <1>2, <1>3, <1>4, <3>1, <3>2, <3>3, HoldsLonger
    <3>5. QED BY <3>1, <3>4
  <2>2. HoldsAt(argv_storage', Len(argv_storage), Argv[n])
    BY <1>2, <1>3, <1>4, HoldsNew
  <2>3. \A k \in 1..cursor+1 : k \in 1..cursor \/ k = cursor + 1
    BY <1>1
  <2>4. ASSUME NEW k \in 1..cursor+1
        PROVE  /\ records'[k].name = nodes[k]
               /\ records'[k].argv_count = Len(Argv[nodes[k]])
               /\ HoldsAt(argv_storage', records'[k].argv_offset, Argv[nodes[k]])
    BY <1>5, <1>7, <2>1, <2>2, <2>3
  <2>5. QED BY <1>1, <1>6, <1>7, <2>4 DEF RecordInv, HoldsAt
<1>11. LinkInv'
  BY <1>1, <1>2, <1>6 DEF BuildInv, LinkInv
<1>12. AdjacencyInv' /\ OrderInv'
  BY <1>2, <1>6 DEF AdjacencyInv, OrderInv
<1>13. QED BY <1>9, <1>10, <1>11, <1>12 DEF BuildInv

\* One more edge that leaves the node, and the id of its destination.
LEMMA ListsGrow ==
  ASSUME NEW S, NEW ids \in Seq(S), NEW I, NEW ns, NEW es, NEW c \in Nat, NEW t \in S,
         Lists(ids, I, ns, es), I \subseteq 1..c, ns[t + 1] = es[c + 1].to
  PROVE  Lists(Append(ids, t), I \cup {c + 1}, ns, es)
<1>1. Len(ids) \in Nat
  BY LenProperties
<1> DEFINE n == Len(ids)
<1>2. PICK at \in [1..n -> I] :
        /\ \A i \in I : \E k \in 1..n : at[k] = i
        /\ \A j, k \in 1..n : j < k => at[j] < at[k]
        /\ \A k \in 1..n : ns[ids[k] + 1] = es[at[k]].to
  BY DEF Lists
<1> DEFINE longer == Append(ids, t)
           at2 == [k \in 1..n+1 |-> IF k = n + 1 THEN c + 1 ELSE at[k]]
<1>3. /\ Len(longer) = n + 1 /\ longer[n + 1] = t
      /\ \A k \in 1..n : longer[k] = ids[k]
  BY AppendProperties
<1>4. /\ \A k \in 1..n+1 : k \in 1..n \/ k = n + 1
      /\ \A k \in 1..n : k \in 1..n+1 /\ k # n + 1
      /\ n + 1 \in 1..n+1
  BY <1>1
<1> HIDE DEF longer, n
<1>5. \A k \in 1..n : at2[k] = at[k] /\ at[k] \in I /\ at[k] \in 1..c
  BY <1>2, <1>4
<1>6. at2[n + 1] = c + 1 /\ at2 \in [1..n+1 -> I \cup {c + 1}]
  BY <1>2, <1>4
<1> HIDE DEF at2
<1>7. \A i \in I \cup {c + 1} : \E k \in 1..n+1 : at2[k] = i
  BY <1>2, <1>4, <1>5, <1>6
<1>8. ASSUME NEW j \in 1..n+1, NEW k \in 1..n+1, j < k
      PROVE  at2[j] < at2[k]
  <2>1. j \in 1..n
    BY <1>1, <1>8 DEF n
  <2>2. CASE k \in 1..n
    BY <1>2, <1>5, <1>8, <2>1, <2>2
  <2>3. CASE k = n + 1
    <3>1. at2[j] \in 1..c
      BY <1>5, <2>1
    <3>2. QED BY <1>6, <2>3, <3>1
  <2>4. QED BY <1>4, <2>2, <2>3
<1>9. \A k \in 1..n+1 : ns[longer[k] + 1] = es[at2[k]].to
  BY <1>2, <1>3, <1>4, <1>5, <1>6
<1>10. Lists(longer, I \cup {c + 1}, ns, es)
  <2>1. 1..Len(longer) = 1..n+1
    BY <1>3
  <2>2. /\ at2 \in [1..Len(longer) -> I \cup {c + 1}]
        /\ \A i \in I \cup {c + 1} : \E k \in 1..Len(longer) : at2[k] = i
        /\ \A j, k \in 1..Len(longer) : j < k => at2[j] < at2[k]
        /\ \A k \in 1..Len(longer) : ns[longer[k] + 1] = es[at2[k]].to
    BY <1>6, <1>7, <1>8, <1>9, <2>1
  <2>3. QED BY <2>2 DEF Lists
<1>11. QED BY <1>10 DEF longer

LEMMA LinkEdgeKeepsInv ==
  ASSUME IInv, LinkEdge
  PROVE  BuildInv'
<1> DEFINE e == edges[cursor + 1]
           c == cursor
<1>1. /\ LoadInv /\ BuildInv /\ pc = "accepted" /\ nodes' = nodes /\ edges' = edges /\ pc' = pc
      /\ Ids' = Ids /\ Len(nodes) \in Nat /\ Len(edges) \in Nat /\ c \in Nat
  BY BuildFacts DEF Build
<1> DEFINE from == Id(e.from)
           to == Id(e.to)
<1>2. /\ stage = "link" /\ stage' = stage /\ c < Len(edges) /\ cursor' = c + 1
      /\ outgoing' = [outgoing EXCEPT ![from] = Append(@, to)]
      /\ incoming' = [incoming EXCEPT ![to] = Append(@, from)]
      /\ records' = records /\ argv_storage' = argv_storage
      /\ incoming_storage' = incoming_storage /\ outgoing_storage' = outgoing_storage
      /\ execution_order' = execution_order
  BY DEF LinkEdge, storage
<1>3. /\ records \in Seq(Records) /\ argv_storage \in Seq(STRING)
      /\ incoming \in [Ids -> Seq(Ids)] /\ outgoing \in [Ids -> Seq(Ids)]
      /\ incoming_storage \in Seq(Ids) /\ outgoing_storage \in Seq(Ids)
  BY <1>1, <1>2 DEF BuildInv, StageInv
<1>4. /\ DOMAIN edges = 1..Len(edges) /\ c + 1 \in DOMAIN edges
      /\ \A i \in 1..c : i \in DOMAIN edges /\ i # c + 1
      /\ \A i : i \in 1..c+1 <=> i \in 1..c \/ i = c + 1
  <2>1. DOMAIN edges = 1..Len(edges)
    BY <1>1, TypeFacts DEF LoadInv
  <2>2. QED BY <1>1, <1>2, <2>1
<1>5. /\ e.from \in NodeIds /\ e.to \in NodeIds
      /\ \A i, j \in DOMAIN edges : edges[i].to = edges[j].to => i = j
  BY <1>1, <1>4, OneParent
<1>6. /\ from \in Ids /\ nodes[from + 1] = e.from /\ to \in Ids /\ nodes[to + 1] = e.to
      /\ \A id \in Ids : nodes[id + 1] = e.from => id = from
      /\ \A id \in Ids : nodes[id + 1] = e.to => id = to
  BY <1>1, <1>5, IdFacts
<1> HIDE DEF from, to
<1>7. /\ Linked = c /\ Linked' = c + 1 /\ Appended' = Appended /\ Adjacent' = Adjacent
      /\ Adjacent = 0
  BY <1>1, <1>2 DEF Linked, Appended, Adjacent
<1>8. \A id \in Ids : Neighbours(outgoing[id], incoming[id], nodes[id + 1], c, nodes, edges)
  BY <1>1, <1>2, <1>7 DEF BuildInv, LinkInv
<1>9. \A id \in Ids : /\ outgoing[id] \in Seq(Ids) /\ incoming[id] \in Seq(Ids)
                      /\ outgoing'[id] = IF id = from THEN Append(outgoing[id], to) ELSE outgoing[id]
                      /\ incoming'[id] = IF id = to THEN Append(incoming[id], from) ELSE incoming[id]
  BY <1>2, <1>3, <1>6
<1>10. StageInv'
  <2>1. incoming' \in [Ids -> Seq(Ids)] /\ outgoing' \in [Ids -> Seq(Ids)]
    <3>1. \A id \in Ids : Append(outgoing[id], to) \in Seq(Ids) /\ Append(incoming[id], from) \in Seq(Ids)
      BY <1>6, <1>9, AppendProperties
    <3>2. QED BY <1>2, <1>3, <1>6, <3>1
  <2>2. c + 1 \in Nat /\ c + 1 <= Len(edges)
    BY <1>1, <1>2
  <2>3. QED BY <1>1, <1>2, <1>3, <2>1, <2>2 DEF StageInv
<1>11. RecordInv' /\ AdjacencyInv' /\ OrderInv'
  <2>1. RecordInv'
    BY <1>1, <1>2, <1>7 DEF BuildInv, RecordInv
  <2>2. QED BY <1>2, <1>7, <2>1 DEF AdjacencyInv, OrderInv
<1>12. ASSUME NEW id \in Ids
       PROVE  Neighbours(outgoing'[id], incoming'[id], nodes[id + 1], c + 1, nodes, edges)
  <2> DEFINE n == nodes[id + 1]
             I == {i \in 1..c : edges[i].from = n}
             J == {j \in 1..c : edges[j].to = n}
  <2>1. PICK out, in : out = outgoing[id] /\ in = incoming[id]
    OBVIOUS
  <2>2. /\ out \in Seq(Ids) /\ in \in Seq(Ids) /\ Lists(out, I, nodes, edges) /\ Len(in) <= 1
        /\ {nodes[in[k] + 1] : k \in 1..Len(in)} = {edges[i].from : i \in J}
    BY <1>8, <1>9, <2>1 DEF Neighbours
  <2>3. Lists(outgoing'[id], {i \in 1..c+1 : edges[i].from = n}, nodes, edges)
    <3>1. CASE id = from
      <4>1. n = e.from /\ {i \in 1..c+1 : edges[i].from = n} = I \cup {c + 1}
        BY <1>4, <1>6, <3>1
      <4>2. outgoing'[id] = Append(out, to)
        BY <1>9, <2>1, <3>1
      <4>3. I \subseteq 1..c
        OBVIOUS
      <4> HIDE DEF I
      <4>4. Lists(Append(out, to), I \cup {c + 1}, nodes, edges)
        BY <1>1, <1>6, <2>2, <4>3, ListsGrow
      <4>5. QED BY <4>1, <4>2, <4>4
    <3>2. CASE id # from
      <4>1. {i \in 1..c+1 : edges[i].from = n} = I
        BY <1>4, <1>6, <3>2
      <4>2. QED BY <1>9, <2>1, <2>2, <3>2, <4>1
    <3>3. QED BY <3>1, <3>2
  <2>4. /\ Len(incoming'[id]) <= 1
        /\ {nodes[incoming'[id][k] + 1] : k \in 1..Len(incoming'[id])}
             = {edges[i].from : i \in {j \in 1..c+1 : edges[j].to = n}}
    <3>1. CASE id = to
      <4>1. J = {} /\ {j \in 1..c+1 : edges[j].to = n} = {c + 1}
        BY <1>4, <1>5, <1>6, <3>1
      <4>2. Len(in) = 0
        <5>1. {edges[i].from : i \in J} = {}
          BY <4>1
        <5>2. \A k \in 1..Len(in) : FALSE
          BY <2>2, <5>1
        <5>3. Len(in) \in Nat
          BY <2>2, LenProperties
        <5>4. QED BY <5>2, <5>3
      <4>3. incoming'[id] = Append(in, from)
        BY <1>9, <2>1, <3>1
      <4>4. Len(Append(in, from)) = 1 /\ Append(in, from)[1] = from
        BY <1>6, <2>2, <4>2, AppendProperties
      <4>5. Len(incoming'[id]) = 1 /\ incoming'[id][1] = from
        BY <4>3, <4>4
      <4>6. {nodes[incoming'[id][k] + 1] : k \in 1..Len(incoming'[id])} = {e.from}
        BY <1>6, <4>5
      <4>7. {edges[i].from : i \in {j \in 1..c+1 : edges[j].to = n}} = {e.from}
        BY <4>1
      <4>8. QED BY <4>5, <4>6, <4>7
    <3>2. CASE id # to
      <4>1. {j \in 1..c+1 : edges[j].to = n} = J
        BY <1>4, <1>6, <3>2
      <4>2. incoming'[id] = in
        BY <1>9, <2>1, <3>2
      <4> HIDE DEF J
      <4>3. QED BY <2>2, <4>1, <4>2
    <3>3. QED BY <3>1, <3>2
  <2>5. QED BY <2>3, <2>4 DEF Neighbours
<1>13. LinkInv'
  BY <1>1, <1>7, <1>12 DEF LinkInv
<1>14. QED BY <1>10, <1>11, <1>13 DEF BuildInv

WithAdjacency(recs, k, a, b, x, y) ==
  [recs EXCEPT ![k].incoming_offset = a, ![k].incoming_count = b,
               ![k].outgoing_offset = x, ![k].outgoing_count = y]

\* A record keeps its argv when its adjacency is set.
LEMMA RecordSet ==
  ASSUME NEW recs \in Seq(Records), NEW c \in 1..Len(recs),
         NEW a \in Nat, NEW b \in Nat, NEW x \in Nat, NEW y \in Nat, NEW recs2,
         recs2 = WithAdjacency(recs, c, a, b, x, y)
  PROVE  /\ recs2 \in Seq(Records) /\ Len(recs2) = Len(recs)
         /\ \A k \in 1..Len(recs) : k # c => recs2[k] = recs[k]
         /\ recs2[c] = [name |-> recs[c].name, argv_offset |-> recs[c].argv_offset,
                        argv_count |-> recs[c].argv_count,
                        incoming_offset |-> a, incoming_count |-> b,
                        outgoing_offset |-> x, outgoing_count |-> y]
<1> DEFINE n == Len(recs)
           r == recs[c]
           q == [name |-> r.name, argv_offset |-> r.argv_offset, argv_count |-> r.argv_count,
                 incoming_offset |-> a, incoming_count |-> b,
                 outgoing_offset |-> x, outgoing_count |-> y]
<1>1. n \in Nat /\ DOMAIN recs = 1..n /\ r \in Records
  BY LenProperties, ElementOfSeq
<1>2. q \in Records
  BY <1>1 DEF Records
<1>3. [r EXCEPT !.incoming_offset = a, !.incoming_count = b,
                !.outgoing_offset = x, !.outgoing_count = y] = q
  <2>1. PICK z : z = [r EXCEPT !.incoming_offset = a, !.incoming_count = b,
                               !.outgoing_offset = x, !.outgoing_count = y]
    OBVIOUS
  <2>2. PICK w \in Records : w = r
    BY <1>1
  <2>3. /\ z \in Records /\ z.name = w.name /\ z.argv_offset = w.argv_offset
        /\ z.argv_count = w.argv_count /\ z.incoming_offset = a /\ z.incoming_count = b
        /\ z.outgoing_offset = x /\ z.outgoing_count = y
    BY <2>1, <2>2 DEF Records
  <2>4. z = [name |-> w.name, argv_offset |-> w.argv_offset, argv_count |-> w.argv_count,
             incoming_offset |-> a, incoming_count |-> b,
             outgoing_offset |-> x, outgoing_count |-> y]
    BY <2>3 DEF Records
  <2>5. QED BY <2>1, <2>2, <2>4
<1>4. recs2 = [recs EXCEPT ![c] = q]
  BY <1>1, <1>3 DEF WithAdjacency
<1> HIDE DEF q
<1>5. recs2 \in Seq(Records) /\ Len(recs2) = n /\ recs2[c] = q
      /\ \A k \in 1..n : k # c => recs2[k] = recs[k]
  <2>1. /\ [recs EXCEPT ![c] = q] \in Seq(Records) /\ Len([recs EXCEPT ![c] = q]) = n
        /\ \A k \in 1..n : [recs EXCEPT ![c] = q][k] = IF k = c THEN q ELSE recs[k]
    BY <1>2, ExceptSeq
  <2>2. QED BY <1>1, <1>4, <2>1
<1>6. QED BY <1>5 DEF q

LEMMA SetAdjacencyKeepsInv ==
  ASSUME IInv, SetAdjacency
  PROVE  BuildInv'
<1> DEFINE c == cursor
<1>1. /\ LoadInv /\ BuildInv /\ pc = "accepted" /\ nodes' = nodes /\ edges' = edges /\ pc' = pc
      /\ Ids' = Ids /\ Len(nodes) \in Nat /\ Len(edges) \in Nat /\ c \in Nat
  BY BuildFacts DEF Build
<1>2. /\ stage = "adjacency" /\ stage' = stage /\ c < Len(nodes) /\ cursor' = c + 1
      /\ records' = [records EXCEPT
           ![c + 1].incoming_offset = Len(incoming_storage),
           ![c + 1].incoming_count  = Len(incoming[c]),
           ![c + 1].outgoing_offset = Len(outgoing_storage),
           ![c + 1].outgoing_count  = Len(outgoing[c])]
      /\ incoming_storage' = incoming_storage \o incoming[c]
      /\ outgoing_storage' = outgoing_storage \o outgoing[c]
      /\ argv_storage' = argv_storage /\ incoming' = incoming /\ outgoing' = outgoing
      /\ execution_order' = execution_order
  BY DEF SetAdjacency, lists
<1>3. /\ records \in Seq(Records) /\ argv_storage \in Seq(STRING)
      /\ incoming \in [Ids -> Seq(Ids)] /\ outgoing \in [Ids -> Seq(Ids)]
      /\ incoming_storage \in Seq(Ids) /\ outgoing_storage \in Seq(Ids)
  BY <1>1, <1>2 DEF BuildInv, StageInv
<1>4. /\ c + 1 \in 1..Len(nodes) /\ c \in Ids /\ (c + 1) - 1 = c /\ c + 1 \in Nat
      /\ \A k \in 1..c+1 : k \in 1..c \/ k = c + 1
      /\ \A k \in 1..c : k \in 1..Len(nodes) /\ k # c + 1 /\ k - 1 \in Ids
  BY <1>1, <1>2 DEF Ids
<1>5. /\ incoming[c] \in Seq(Ids) /\ outgoing[c] \in Seq(Ids)
      /\ Len(incoming[c]) \in Nat /\ Len(outgoing[c]) \in Nat
      /\ Len(incoming_storage) \in Nat /\ Len(outgoing_storage) \in Nat
  BY <1>3, <1>4, LenProperties
<1>6. /\ Appended = Len(nodes) /\ Appended' = Len(nodes) /\ Linked' = Linked
      /\ Adjacent = c /\ Adjacent' = c + 1
  BY <1>1, <1>2 DEF Appended, Linked, Adjacent
<1>7. /\ Len(records) = Len(nodes)
      /\ \A k \in 1..Len(nodes) :
           /\ records[k].name = nodes[k]
           /\ records[k].argv_count = Len(Argv[nodes[k]])
           /\ HoldsAt(argv_storage, records[k].argv_offset, Argv[nodes[k]])
  BY <1>1, <1>6 DEF BuildInv, RecordInv
<1> DEFINE q == [name |-> records[c + 1].name, argv_offset |-> records[c + 1].argv_offset,
                 argv_count |-> records[c + 1].argv_count,
                 incoming_offset |-> Len(incoming_storage), incoming_count |-> Len(incoming[c]),
                 outgoing_offset |-> Len(outgoing_storage), outgoing_count |-> Len(outgoing[c])]
<1>8. /\ records' \in Seq(Records) /\ Len(records') = Len(nodes)
      /\ \A k \in 1..Len(nodes) : k # c + 1 => records'[k] = records[k]
      /\ records'[c + 1] = q
  <2>1. PICK a, b, x, y : /\ a = Len(incoming_storage) /\ b = Len(incoming[c])
                          /\ x = Len(outgoing_storage) /\ y = Len(outgoing[c])
    OBVIOUS
  <2>2. PICK recs, recs2, d : recs = records /\ recs2 = records' /\ d = c + 1
    OBVIOUS
  <2>3. recs2 = WithAdjacency(recs, d, a, b, x, y)
    BY <1>2, <2>1, <2>2 DEF WithAdjacency
  <2>4. /\ a \in Nat /\ b \in Nat /\ x \in Nat /\ y \in Nat /\ d \in 1..Len(recs)
        /\ recs \in Seq(Records)
    BY <1>3, <1>4, <1>5, <1>7, <2>1, <2>2
  <2>5. /\ recs2 \in Seq(Records) /\ Len(recs2) = Len(recs)
        /\ \A k \in 1..Len(recs) : k # d => recs2[k] = recs[k]
        /\ recs2[d] = [name |-> recs[d].name, argv_offset |-> recs[d].argv_offset,
                       argv_count |-> recs[d].argv_count,
                       incoming_offset |-> a, incoming_count |-> b,
                       outgoing_offset |-> x, outgoing_count |-> y]
    BY <2>3, <2>4, RecordSet, SMTT(30)
  <2>6. QED BY <1>7, <2>1, <2>2, <2>5
<1>9. /\ q.name = records[c + 1].name /\ q.argv_offset = records[c + 1].argv_offset
      /\ q.argv_count = records[c + 1].argv_count
      /\ q.incoming_offset = Len(incoming_storage) /\ q.incoming_count = Len(incoming[c])
      /\ q.outgoing_offset = Len(outgoing_storage) /\ q.outgoing_count = Len(outgoing[c])
  OBVIOUS
<1> HIDE DEF q
<1>10. incoming_storage' \in Seq(Ids) /\ outgoing_storage' \in Seq(Ids)
  BY <1>2, <1>3, <1>5, ConcatProperties
<1>11. StageInv'
  <2>1. c + 1 \in Nat /\ c + 1 <= Len(nodes)
    BY <1>1, <1>2
  <2>2. QED BY <1>1, <1>2, <1>3, <1>8, <1>10, <2>1 DEF StageInv
<1>12. RecordInv'
  <2>1. ASSUME NEW k \in 1..Len(nodes)
        PROVE  /\ records'[k].name = nodes[k]
               /\ records'[k].argv_count = Len(Argv[nodes[k]])
               /\ HoldsAt(argv_storage, records'[k].argv_offset, Argv[nodes[k]])
    <3>1. CASE k = c + 1
      BY <1>7, <1>8, <1>9, <3>1
    <3>2. CASE k # c + 1
      BY <1>7, <1>8, <3>2
    <3>3. QED BY <3>1, <3>2
  <2>2. QED BY <1>1, <1>2, <1>6, <1>8, <2>1 DEF RecordInv
<1>13. LinkInv'
  BY <1>1, <1>2, <1>6 DEF BuildInv, LinkInv
<1>14. AdjacencyInv'
  <2>1. ASSUME NEW k \in 1..c
        PROVE  /\ records'[k].incoming_count = Len(incoming[k-1])
               /\ HoldsAt(incoming_storage', records'[k].incoming_offset, incoming[k-1])
               /\ records'[k].outgoing_count = Len(outgoing[k-1])
               /\ HoldsAt(outgoing_storage', records'[k].outgoing_offset, outgoing[k-1])
    <3>1. /\ records'[k] = records[k] /\ records[k] \in Records
          /\ incoming[k-1] \in Seq(Ids) /\ outgoing[k-1] \in Seq(Ids)
      BY <1>3, <1>4, <1>7, <1>8, ElementOfSeq
    <3>2. records[k].incoming_offset \in Nat /\ records[k].outgoing_offset \in Nat
      BY <3>1 DEF Records
    <3>3. /\ records[k].incoming_count = Len(incoming[k-1])
          /\ HoldsAt(incoming_storage, records[k].incoming_offset, incoming[k-1])
          /\ records[k].outgoing_count = Len(outgoing[k-1])
          /\ HoldsAt(outgoing_storage, records[k].outgoing_offset, outgoing[k-1])
      BY <1>1, <1>6 DEF BuildInv, AdjacencyInv
    <3>4. HoldsAt(incoming_storage', records[k].incoming_offset, incoming[k-1])
      BY <1>2, <1>3, <1>5, <3>1, <3>2, <3>3, HoldsLonger
    <3>5. HoldsAt(outgoing_storage', records[k].outgoing_offset, outgoing[k-1])
      BY <1>2, <1>3, <1>5, <3>1, <3>2, <3>3, HoldsLonger
    <3>6. QED BY <3>1, <3>3, <3>4, <3>5
  <2>2. /\ HoldsAt(incoming_storage', Len(incoming_storage), incoming[c])
        /\ HoldsAt(outgoing_storage', Len(outgoing_storage), outgoing[c])
    BY <1>2, <1>3, <1>5, HoldsNew
  <2>3. ASSUME NEW k \in 1..c+1
        PROVE  /\ records'[k].incoming_count = Len(incoming[k-1])
               /\ HoldsAt(incoming_storage', records'[k].incoming_offset, incoming[k-1])
               /\ records'[k].outgoing_count = Len(outgoing[k-1])
               /\ HoldsAt(outgoing_storage', records'[k].outgoing_offset, outgoing[k-1])
    BY <1>4, <1>8, <1>9, <2>1, <2>2
  <2>4. QED BY <1>2, <1>6, <2>3 DEF AdjacencyInv
<1>15. OrderInv'
  BY <1>2 DEF OrderInv
<1>16. QED BY <1>11, <1>12, <1>13, <1>14, <1>15 DEF BuildInv

LEMMA NextStageKeepsInv ==
  ASSUME IInv, NextStage
  PROVE  BuildInv'
<1>1. /\ LoadInv /\ BuildInv /\ pc = "accepted" /\ nodes' = nodes /\ edges' = edges /\ pc' = pc
      /\ Ids' = Ids /\ Len(nodes) \in Nat /\ Len(edges) \in Nat /\ cursor \in Nat
  BY BuildFacts DEF Build
<1>2. /\ records' = records /\ argv_storage' = argv_storage
      /\ incoming_storage' = incoming_storage /\ outgoing_storage' = outgoing_storage
      /\ incoming' = incoming /\ outgoing' = outgoing /\ cursor' = 0
  BY DEF NextStage, storage, lists, StartIndex
<1>3. stage # "none" /\ stage' \in {"link", "adjacency", "order"}
  BY DEF NextStage
<1>4. Appended' = Appended /\ Linked' = Linked /\ Adjacent' = Adjacent
  <2>1. CASE stage = "append"
    BY <1>1, <1>2, <2>1 DEF NextStage, Appended, Linked, Adjacent
  <2>2. CASE stage = "link"
    BY <1>1, <1>2, <2>2 DEF NextStage, Appended, Linked, Adjacent
  <2>3. CASE stage = "adjacency"
    BY <1>1, <1>2, <2>3 DEF NextStage, Appended, Linked, Adjacent
  <2>4. QED BY <2>1, <2>2, <2>3 DEF NextStage
<1>5. StageInv'
  BY <1>1, <1>2, <1>3 DEF BuildInv, StageInv
<1>6. RecordInv'
  BY <1>1, <1>2, <1>4 DEF BuildInv, RecordInv
<1>7. LinkInv'
  BY <1>1, <1>2, <1>3, <1>4 DEF BuildInv, LinkInv
<1>8. AdjacencyInv'
  BY <1>1, <1>2, <1>4 DEF BuildInv, AdjacencyInv
<1>9. OrderInv'
  BY <1>3 DEF OrderInv
<1>10. QED BY <1>5, <1>6, <1>7, <1>8, <1>9 DEF BuildInv

LEMMA SetExecutionOrderKeepsInv ==
  ASSUME IInv, SetExecutionOrder
  PROVE  BuildInv'
<1>1. /\ LoadInv /\ BuildInv /\ pc = "accepted" /\ nodes' = nodes /\ edges' = edges /\ pc' = pc
      /\ Ids' = Ids /\ Len(nodes) \in Nat /\ Len(edges) \in Nat /\ cursor \in Nat
  BY BuildFacts DEF Build
<1>2. /\ records' = records /\ argv_storage' = argv_storage
      /\ incoming_storage' = incoming_storage /\ outgoing_storage' = outgoing_storage
      /\ incoming' = incoming /\ outgoing' = outgoing /\ cursor' = cursor
      /\ stage = "order" /\ stage' = "built"
  BY DEF SetExecutionOrder, storage, lists
<1>3. Appended' = Appended /\ Linked' = Linked /\ Adjacent' = Adjacent
  BY <1>1, <1>2 DEF Appended, Linked, Adjacent
<1>4. StageInv'
  BY <1>1, <1>2 DEF BuildInv, StageInv
<1>5. RecordInv' /\ AdjacencyInv'
  BY <1>1, <1>2, <1>3 DEF BuildInv, RecordInv, AdjacencyInv
<1>6. LinkInv'
  BY <1>1, <1>2, <1>3 DEF BuildInv, LinkInv
<1>7. OrderInv'
  <2>1. PICK names \in TopologicalOrders(nodes, edges) : execution_order' = Resolved(names)
    BY DEF SetExecutionOrder
  <2>2. TopologicalOrders(nodes, edges)' = TopologicalOrders(nodes, edges)
    BY <1>1
  <2>3. Resolved(names)' = Resolved(names)
    BY <1>1 DEF Resolved, Id
  <2>4. QED BY <2>1, <2>2, <2>3 DEF OrderInv
<1>8. QED BY <1>4, <1>5, <1>6, <1>7 DEF BuildInv

\* Nothing is built before the document is accepted.
LEMMA LoadingKeepsInv ==
  ASSUME IInv, Load, UNCHANGED building
  PROVE  BuildInv'
<1>1. LoadInv /\ BuildInv /\ LoadInv'
  BY LoadKeepsInv DEF IInv
<1>2. pc # "accepted"
  BY DEF Load, ReadNode, ReadEdge, ReadMalformed, RejectNodes, AcceptNodes, CheckEdge, RejectEdge,
         StartOrder, PushRoot, RootsPushed, PopReady, FinishOrder
<1>3. /\ stage = "none" /\ stage' = "none" /\ cursor' = 0 /\ records' = <<>> /\ argv_storage' = <<>>
      /\ incoming_storage' = <<>> /\ outgoing_storage' = <<>>
  BY <1>1, <1>2 DEF BuildInv, StageInv, building, storage
<1>4. Appended' = 0 /\ Linked' = 0 /\ Adjacent' = 0
  BY <1>3 DEF Appended, Linked, Adjacent
<1>5. \A S : <<>> \in Seq(S) /\ Len(<<>>) = 0
  BY EmptySeq
<1>6. StageInv'
  BY <1>3, <1>5 DEF StageInv, storage
<1>7. RecordInv' /\ LinkInv' /\ AdjacencyInv' /\ OrderInv'
  BY <1>3, <1>4, <1>5 DEF RecordInv, LinkInv, AdjacencyInv, OrderInv
<1>8. QED BY <1>6, <1>7 DEF BuildInv

LEMMA BuildingStutters ==
  ASSUME IInv, UNCHANGED <<vars, building>>
  PROVE  BuildInv'
<1>1. /\ nodes' = nodes /\ edges' = edges /\ pc' = pc /\ stage' = stage /\ cursor' = cursor
      /\ records' = records /\ argv_storage' = argv_storage
      /\ incoming_storage' = incoming_storage /\ outgoing_storage' = outgoing_storage
      /\ incoming' = incoming /\ outgoing' = outgoing /\ execution_order' = execution_order
  BY DEF vars, document, building, storage, lists
<1>2. Ids' = Ids /\ BuildInv
  BY <1>1 DEF Ids, IInv
<1>3. Appended' = Appended /\ Linked' = Linked /\ Adjacent' = Adjacent
  BY <1>1 DEF Appended, Linked, Adjacent
<1>4. StageInv'
  BY <1>1, <1>2 DEF BuildInv, StageInv, storage
<1>5. RecordInv' /\ AdjacencyInv'
  BY <1>1, <1>2, <1>3 DEF BuildInv, RecordInv, AdjacencyInv
<1>6. LinkInv'
  BY <1>1, <1>2, <1>3 DEF BuildInv, LinkInv
<1>7. OrderInv'
  <2>1. \A names : Resolved(names)' = Resolved(names)
    BY <1>1, <1>2 DEF Resolved, Id
  <2>2. TopologicalOrders(nodes, edges)' = TopologicalOrders(nodes, edges)
    BY <1>1
  <2>3. QED BY <1>1, <1>2, <2>1, <2>2 DEF BuildInv, OrderInv
<1>8. QED BY <1>4, <1>5, <1>6, <1>7 DEF BuildInv

LEMMA StartsEmpty == SnapshotInit => IInv
<1> SUFFICES ASSUME SnapshotInit PROVE IInv
  OBVIOUS
<1>1. /\ LoadInv /\ pc = "read" /\ stage = "none" /\ cursor = 0 /\ records = <<>> /\ argv_storage = <<>>
      /\ incoming_storage = <<>> /\ outgoing_storage = <<>>
  BY LoadStarts DEF SnapshotInit, Init
<1>2. Appended = 0 /\ Linked = 0 /\ Adjacent = 0
  BY <1>1 DEF Appended, Linked, Adjacent
<1>3. \A S : <<>> \in Seq(S) /\ Len(<<>>) = 0
  BY EmptySeq
<1>4. StageInv
  BY <1>1, <1>3 DEF StageInv, storage
<1>5. RecordInv /\ LinkInv /\ AdjacencyInv /\ OrderInv
  BY <1>1, <1>2, <1>3 DEF RecordInv, LinkInv, AdjacencyInv, OrderInv
<1>6. QED BY <1>1, <1>4, <1>5 DEF IInv, BuildInv

\* The loading of a text and the building of its snapshot keep the invariant.
THEOREM Inductive == SnapshotSpec => []IInv
<1>1. ASSUME IInv, [SnapshotNext]_<<vars, building>>
      PROVE  IInv'
  <2>1. CASE Load /\ UNCHANGED building
    BY <1>1, <2>1, LoadKeepsInv, LoadingKeepsInv DEF IInv
  <2>2. CASE Build
    <3>1. BuildInv'
      BY <1>1, <2>2, StartBuildKeepsInv, AppendNodeKeepsInv, LinkEdgeKeepsInv,
         SetAdjacencyKeepsInv, NextStageKeepsInv, SetExecutionOrderKeepsInv DEF Build
    <3>2. LoadInv'
      BY <1>1, <2>2, BuildFacts, LoadStutters
    <3>3. QED BY <3>1, <3>2 DEF IInv
  <2>3. CASE UNCHANGED <<vars, building>>
    BY <1>1, <2>3, LoadStutters, BuildingStutters DEF IInv
  <2>4. QED BY <1>1, <2>1, <2>2, <2>3 DEF SnapshotNext, Built
<1>2. QED BY <1>1, StartsEmpty, PTL DEF SnapshotSpec

(***************************************************************************)
(* Theorems.                                                               *)
(***************************************************************************)

\* Every variable of the loader has its type, and no count of remaining edges
\* falls below zero.
THEOREM TypeCorrect == SnapshotSpec => []TypeOK
<1>1. IInv => TypeOK
  BY DEF IInv, LoadInv
<1>2. QED BY <1>1, Inductive, PTL

\* load_graph_document_from_string, validation and Kahn's algorithm together
\* implement the contract: a text is accepted exactly when it is well formed,
\* its document is executable and no two of its edges are written alike.
THEOREM Refinement == SnapshotSpec => ImplementsLoad
<1>1. SnapshotInit => Contract!Init
  BY DEF SnapshotInit, Init, Contract!Init, Decided
<1>2. IInv /\ IInv' /\ [SnapshotNext]_<<vars, building>> => [Contract!Next]_(Contract!vars)
  <2> SUFFICES ASSUME IInv, IInv', [SnapshotNext]_<<vars, building>>
               PROVE  [Contract!Next]_(Contract!vars)
    OBVIOUS
  <2>1. CASE Load
    BY <2>1, LoadImplements DEF IInv
  <2>2. CASE UNCHANGED vars
    BY <2>2 DEF vars, document, sorting, Contract!vars, Contract!document, Decided
  <2>3. QED BY <2>1, <2>2, BuildFacts DEF SnapshotNext, Built
<1>3. QED BY <1>1, <1>2, Inductive, PTL DEF SnapshotSpec, ImplementsLoad, Contract!Spec

\* What the accessors of a finished snapshot return.
LEMMA BuiltFacts ==
  ASSUME IInv, stage = "built", NEW id \in Ids
  PROVE  LET n == nodes[id + 1]
         IN  /\ records[id + 1].name = n
             /\ argv_copy(id) = Argv[n]
             /\ outgoing_of(id) = outgoing[id] /\ incoming_of(id) = incoming[id]
             /\ records[id + 1].outgoing_count = Len(outgoing[id])
             /\ outgoing[id] \in Seq(Ids) /\ incoming[id] \in Seq(Ids)
             /\ Neighbours(outgoing[id], incoming[id], n, Len(edges), nodes, edges)
<1> DEFINE n == nodes[id + 1]
           r == records[id + 1]
<1>1. /\ LoadInv /\ BuildInv /\ pc = "accepted"
      /\ Appended = Len(nodes) /\ Adjacent = Len(nodes) /\ Linked = Len(edges)
  BY DEF IInv, BuildInv, StageInv, Appended, Adjacent, Linked
<1>2. id + 1 \in 1..Len(nodes) /\ (id + 1) - 1 = id /\ n \in NodeIds
  BY <1>1, IdFacts
<1>3. n \in Names /\ Argv[n] \in Seq(STRING)
  BY <1>1, <1>2, TypeFacts, ArgvAssumption DEF LoadInv
<1>4. /\ records \in Seq(Records) /\ argv_storage \in Seq(STRING)
      /\ incoming_storage \in Seq(Ids) /\ outgoing_storage \in Seq(Ids)
      /\ incoming[id] \in Seq(Ids) /\ outgoing[id] \in Seq(Ids)
  BY <1>1 DEF BuildInv, StageInv
<1>5. /\ r.name = n /\ r.argv_count = Len(Argv[n]) /\ HoldsAt(argv_storage, r.argv_offset, Argv[n])
      /\ Len(records) = Len(nodes)
  BY <1>1, <1>2 DEF BuildInv, RecordInv
<1>6. /\ r.incoming_count = Len(incoming[id]) /\ r.outgoing_count = Len(outgoing[id])
      /\ HoldsAt(incoming_storage, r.incoming_offset, incoming[id])
      /\ HoldsAt(outgoing_storage, r.outgoing_offset, outgoing[id])
  BY <1>1, <1>2 DEF BuildInv, AdjacencyInv
<1>7. r.argv_offset \in Nat /\ r.incoming_offset \in Nat /\ r.outgoing_offset \in Nat
  <2>1. r \in Records
    BY <1>2, <1>4, <1>5, ElementOfSeq
  <2>2. QED BY <2>1 DEF Records
<1>8. Neighbours(outgoing[id], incoming[id], n, Len(edges), nodes, edges)
  BY <1>1 DEF BuildInv, LinkInv
<1> HIDE DEF n, r
<1>9. argv_copy(id) = Argv[n]
  BY <1>3, <1>4, <1>5, <1>7, SliceOfHeld DEF argv_copy, r
<1>10. incoming_of(id) = incoming[id]
  BY <1>4, <1>6, <1>7, SliceOfHeld DEF incoming_of, r
<1>11. outgoing_of(id) = outgoing[id]
  BY <1>4, <1>6, <1>7, SliceOfHeld DEF outgoing_of, r
<1>12. QED BY <1>4, <1>5, <1>6, <1>8, <1>9, <1>10, <1>11 DEF n, r

\* Names listed at increasing positions are the list of Outgoing.
LEMMA ListsIsOutgoing ==
  ASSUME edges \in Seq(Edges), NEW n, NEW ids \in Seq(Ids),
         \A i \in DOMAIN edges : edges[i].to \in NodeIds,
         Lists(ids, {i \in 1..Len(edges) : edges[i].from = n}, nodes, edges)
  PROVE  [k \in DOMAIN ids |-> nodes[ids[k] + 1]] \in Outgoing(n, NodeIds)
<1> DEFINE I == {i \in 1..Len(edges) : edges[i].from = n}
           m == Len(ids)
<1>1. /\ m \in Nat /\ DOMAIN ids = 1..m /\ Len(edges) \in Nat /\ DOMAIN edges = 1..Len(edges)
  BY LenProperties
<1>2. I = {i \in DOMAIN edges : edges[i].from = n /\ edges[i].to \in NodeIds}
  BY <1>1
<1>3. \A i \in I : i \in Nat
  BY <1>1
<1> HIDE DEF I
<1>4. PICK at \in [1..m -> I] :
        /\ \A i \in I : \E k \in 1..m : at[k] = i
        /\ \A j, k \in 1..m : j < k => at[j] < at[k]
        /\ \A k \in 1..m : nodes[ids[k] + 1] = edges[at[k]].to
  BY DEF Lists, I
<1> HIDE DEF m
<1>5. at \in Seq(I) /\ Len(at) = m /\ DOMAIN at = 1..m
  <2>1. at \in Seq(I)
    BY <1>1, <1>4, SeqDef
  <2>2. QED BY <1>1, <1>4, <2>1, LenProperties
<1>6. IsInjective(at)
  <2>1. ASSUME NEW j \in 1..m, NEW k \in 1..m, at[j] = at[k]
        PROVE  j = k
    <3>1. at[j] \in Nat /\ at[k] \in Nat /\ j \in Nat /\ k \in Nat
      BY <1>1, <1>3, <1>4
    <3>2. ~(j < k) /\ ~(k < j)
      BY <1>4, <2>1, <3>1
    <3>3. QED BY <3>1, <3>2
  <2>2. QED BY <1>5, <2>1 DEF IsInjective
<1>7. Range(at) = I
  BY <1>4, <1>5 DEF Range
<1>8. Cardinality(I) = m
  BY <1>5, <1>6, <1>7, LenOfInjective
<1>9. at \in InOrder(I)
  BY <1>4, <1>5, <1>7, <1>8 DEF InOrder
<1>10. [k \in DOMAIN ids |-> nodes[ids[k] + 1]] = [k \in DOMAIN at |-> edges[at[k]].to]
  BY <1>1, <1>4, <1>5
<1>11. QED BY <1>2, <1>9, <1>10 DEF Outgoing

LEMMA SlicesMatch == IInv => SlicesMatchDocument
<1> SUFFICES ASSUME IInv, stage = "built", NEW id \in Ids
             PROVE  LET n == nodes[id + 1]
                    IN  /\ records[id + 1].name = n
                        /\ argv_copy(id) = Argv[n]
                        /\ NamesOf(outgoing_of(id)) \in Outgoing(n, NodeIds)
                        /\ Range(NamesOf(incoming_of(id))) = Parents(edges, n)
                        /\ Len(incoming_of(id)) <= 1
  BY DEF SlicesMatchDocument
<1> DEFINE n == nodes[id + 1]
<1>1. LoadInv /\ pc = "accepted"
  BY DEF IInv, BuildInv, StageInv
<1>2. /\ edges \in Seq(Edges) /\ DOMAIN edges = 1..Len(edges)
      /\ \A i \in DOMAIN edges : edges[i].to \in NodeIds
  BY <1>1, OneParent, TypeFacts DEF LoadInv
<1>3. PICK out, in : out = outgoing[id] /\ in = incoming[id]
  OBVIOUS
<1>4. /\ records[id + 1].name = n /\ argv_copy(id) = Argv[n]
      /\ outgoing_of(id) = out /\ incoming_of(id) = in
      /\ out \in Seq(Ids) /\ in \in Seq(Ids)
      /\ Neighbours(out, in, n, Len(edges), nodes, edges)
  BY <1>3, BuiltFacts
<1>5. \A other \in Ids : records[other + 1].name = nodes[other + 1]
  BY BuiltFacts
<1>6. /\ Lists(out, {i \in 1..Len(edges) : edges[i].from = n}, nodes, edges)
      /\ Len(in) <= 1
      /\ {nodes[in[k] + 1] : k \in 1..Len(in)}
           = {edges[i].from : i \in {j \in 1..Len(edges) : edges[j].to = n}}
  BY <1>4 DEF Neighbours
<1> HIDE DEF n
<1>7. ASSUME NEW ids \in Seq(Ids)
      PROVE  /\ NamesOf(ids) = [k \in DOMAIN ids |-> nodes[ids[k] + 1]]
             /\ DOMAIN ids = 1..Len(ids)
  <2>1. DOMAIN ids = 1..Len(ids) /\ \A k \in 1..Len(ids) : ids[k] \in Ids
    BY LenProperties, ElementOfSeq
  <2>2. QED BY <1>5, <2>1 DEF NamesOf
<1>8. NamesOf(out) \in Outgoing(n, NodeIds)
  BY <1>2, <1>4, <1>6, <1>7, ListsIsOutgoing
<1>9. Range(NamesOf(in)) = Parents(edges, n)
  <2>1. Range(NamesOf(in)) = {nodes[in[k] + 1] : k \in 1..Len(in)}
    <3>1. \A k \in 1..Len(in) : NamesOf(in)[k] = nodes[in[k] + 1]
      BY <1>4, <1>7
    <3>2. DOMAIN NamesOf(in) = 1..Len(in)
      BY <1>4, <1>7
    <3>3. QED BY <3>1, <3>2 DEF Range
  <2>2. Parents(edges, n) = {edges[i].from : i \in {j \in 1..Len(edges) : edges[j].to = n}}
    BY <1>2, IntoFacts DEF Into
  <2>3. QED BY <1>6, <2>1, <2>2
<1>10. QED BY <1>4, <1>6, <1>8, <1>9 DEF n

\* When build_snapshot is done, the slices that a node's record cuts out of the
\* shared vectors are its own argv, its children in the order of the document,
\* and its parent.
THEOREM SlicesAreRight == SnapshotSpec => []SlicesMatchDocument
BY SlicesMatch, Inductive, PTL

\* A list of one parent at most.
LEMMA ShortList ==
  ASSUME NEW S, NEW s \in Seq(S), Len(s) <= 1
  PROVE  s \in {<<>>} \cup {<<p>> : p \in S}
<1>1. Len(s) \in Nat /\ \A i \in 1..Len(s) : s[i] \in S
  BY LenProperties, ElementOfSeq
<1>2. CASE Len(s) = 0
  BY <1>2, EmptySeq
<1>3. CASE Len(s) = 1
  <2>1. PICK p \in S : p = s[1]
    BY <1>1, <1>3
  <2>2. PICK t : t = <<p>>
    OBVIOUS
  <2>3. t \in Seq(S) /\ Len(t) = 1 /\ t[1] = p
    BY <2>1, <2>2
  <2>4. \A i \in 1..Len(s) : s[i] = t[i]
    BY <1>3, <2>1, <2>3
  <2>5. s = t
    BY <1>3, <2>3, <2>4, SeqEqual
  <2>6. QED BY <2>2, <2>5
<1>4. Len(s) = 0 \/ Len(s) = 1
  <2>1. PICK n \in Nat : n = Len(s)
    BY <1>1
  <2>2. n <= 1
    BY <2>1
  <2>3. n = 0 \/ n = 1
    BY <2>2
  <2>4. QED BY <2>1, <2>3
<1>5. QED BY <1>2, <1>3, <1>4, Zenon

LEMMA ScheduleSafe == IInv => ScheduleIsSafe
<1> SUFFICES ASSUME IInv, stage = "built"
             PROVE  /\ IsSnapshot(Len(nodes), [id \in Ids |-> incoming_of(id)], execution_order)
                    /\ Range(execution_order) = Ids
                    /\ sink_nodes = {id \in Ids : \A m \in Ids : id \notin Range(incoming_of(m))}
                    /\ sink_nodes # {}
  BY DEF ScheduleIsSafe
<1>1. LoadInv /\ pc = "accepted"
  BY DEF IInv, BuildInv, StageInv
<1>2. /\ edges \in Seq(Edges) /\ DOMAIN edges = 1..Len(edges) /\ Len(edges) \in Nat
      /\ \A i \in DOMAIN edges : edges[i].to \in NodeIds
      /\ Len(nodes) \in Nat /\ DOMAIN nodes = 1..Len(nodes)
  BY <1>1, OneParent, TypeFacts DEF LoadInv
<1>3. /\ \A n \in NodeIds : Id(n) \in Ids /\ nodes[Id(n) + 1] = n
      /\ \A id \in Ids : nodes[id + 1] \in NodeIds /\ Id(nodes[id + 1]) = id
  BY <1>1, IdFacts
<1>4. PICK names \in TopologicalOrders(nodes, edges) : execution_order = Resolved(names)
  BY DEF IInv, BuildInv, OrderInv
<1>5. /\ names \in [1..Len(nodes) -> NodeIds] /\ Range(names) = NodeIds /\ IsInjective(names)
      /\ \A i \in 1..Len(nodes) : Parents(edges, names[i]) \subseteq {names[j] : j \in 1..i-1}
  BY DEF TopologicalOrders, Topological, NodeIds
<1>6. /\ DOMAIN names = 1..Len(nodes) /\ DOMAIN execution_order = 1..Len(nodes)
      /\ \A i \in 1..Len(nodes) : /\ execution_order[i] = Id(names[i])
                                  /\ execution_order[i] \in Ids
                                  /\ nodes[execution_order[i] + 1] = names[i]
  BY <1>3, <1>4, <1>5 DEF Resolved
<1>7. \A n \in NodeIds : \E i \in 1..Len(nodes) : names[i] = n
  BY <1>5, <1>6 DEF Range
<1>8. Range(execution_order) = Ids
  <2>1. \A id \in Ids : \E i \in 1..Len(nodes) : execution_order[i] = id
    BY <1>3, <1>6, <1>7
  <2>2. QED BY <1>6, <2>1 DEF Range
<1>9. IsInjective(execution_order)
  <2>1. ASSUME NEW i \in 1..Len(nodes), NEW j \in 1..Len(nodes),
               execution_order[i] = execution_order[j]
        PROVE  i = j
    <3>1. names[i] = names[j]
      BY <1>6, <2>1
    <3>2. QED BY <1>5, <1>6, <3>1 DEF IsInjective
  <2>2. QED BY <1>6, <2>1 DEF IsInjective
<1>10. \A id \in Ids : /\ outgoing_of(id) = outgoing[id] /\ incoming_of(id) = incoming[id]
                       /\ records[id + 1].outgoing_count = Len(outgoing[id])
                       /\ outgoing[id] \in Seq(Ids) /\ incoming[id] \in Seq(Ids)
                       /\ Neighbours(outgoing[id], incoming[id], nodes[id + 1], Len(edges),
                                     nodes, edges)
  BY BuiltFacts
<1>11. ASSUME NEW i \in DOMAIN execution_order
       PROVE  Range(incoming_of(execution_order[i])) \subseteq {execution_order[j] : j \in 1..i-1}
  <2>1. PICK id, in : id = execution_order[i] /\ in = incoming[id] /\ id \in Ids /\ i \in 1..Len(nodes)
    BY <1>6
  <2>2. /\ incoming_of(execution_order[i]) = in /\ in \in Seq(Ids) /\ nodes[id + 1] = names[i]
        /\ Neighbours(outgoing[id], in, names[i], Len(edges), nodes, edges)
    BY <1>6, <1>10, <2>1
  <2>3. {nodes[in[k] + 1] : k \in 1..Len(in)} = Parents(edges, names[i])
    <3>1. Parents(edges, names[i])
            = {edges[e].from : e \in {j \in 1..Len(edges) : edges[j].to = names[i]}}
      BY <1>2, IntoFacts DEF Into
    <3>2. QED BY <2>2, <3>1 DEF Neighbours
  <2>4. ASSUME NEW p \in Range(in)
        PROVE  p \in {execution_order[j] : j \in 1..i-1}
    <3>1. PICK k \in 1..Len(in) : in[k] = p
      BY <2>2, LenProperties DEF Range
    <3>2. p \in Ids
      BY <2>2, <3>1, ElementOfSeq
    <3>3. nodes[p + 1] \in Parents(edges, names[i])
      BY <2>3, <3>1
    <3>4. PICK j \in 1..i-1 : names[j] = nodes[p + 1]
      BY <1>5, <2>1, <3>3
    <3>5. j \in 1..Len(nodes)
      BY <1>2, <2>1
    <3>6. execution_order[j] = p
      BY <1>3, <1>6, <3>2, <3>4, <3>5
    <3>7. QED BY <3>6
  <2>5. QED BY <2>2, <2>4
<1>12. sink_nodes # {}
  <2> DEFINE last == Len(nodes)
             id == execution_order[last]
  <2>1. last \in 1..Len(nodes)
    <3>1. nodes # <<>> /\ nodes \in Seq(Names)
      BY <1>1, TypeFacts DEF LoadInv, TextInv
    <3>2. Len(nodes) # 0
      BY <3>1, EmptySeq
    <3>3. QED BY <1>2, <3>2
  <2>2. id \in Ids /\ nodes[id + 1] = names[last]
    BY <1>6, <2>1
  <2>3. ASSUME NEW e \in 1..Len(edges), edges[e].from = names[last]
        PROVE  FALSE
    <3>1. edges[e].to \in NodeIds /\ names[last] \in Parents(edges, edges[e].to)
      BY <1>2, <2>3 DEF Parents, Range
    <3>2. PICK j \in 1..Len(nodes) : names[j] = edges[e].to
      BY <1>7, <3>1
    <3>3. PICK m \in 1..j-1 : names[m] = names[last]
      BY <1>5, <3>1, <3>2
    <3>4. m \in 1..Len(nodes) /\ m # last
      <4>1. PICK size \in Nat : size = Len(nodes)
        BY <1>2
      <4>2. j \in 1..size /\ m \in 1..j-1
        BY <3>2, <3>3, <4>1
      <4>3. m \in 1..size /\ m # size
        BY <4>2
      <4>4. QED BY <4>1, <4>3
    <3>5. QED BY <1>5, <1>6, <2>1, <3>3, <3>4 DEF IsInjective
  <2>4. PICK out : out = outgoing[id]
    OBVIOUS
  <2>5. out \in Seq(Ids) /\ records[id + 1].outgoing_count = Len(out)
        /\ Lists(out, {i \in 1..Len(edges) : edges[i].from = names[last]}, nodes, edges)
    BY <1>10, <2>2, <2>4 DEF Neighbours
  <2>6. Len(out) = 0
    <3>1. {i \in 1..Len(edges) : edges[i].from = names[last]} = {}
      BY <2>3
    <3>2. PICK at : at \in [1..Len(out) -> {}]
      BY <2>5, <3>1 DEF Lists
    <3>3. \A k \in 1..Len(out) : FALSE
      BY <3>2
    <3>4. Len(out) \in Nat
      BY <2>5, LenProperties
    <3>5. QED BY <3>3, <3>4
  <2>7. QED BY <2>2, <2>5, <2>6 DEF sink_nodes
<1>13. IsSnapshot(Len(nodes), [id \in Ids |-> incoming_of(id)], execution_order)
  <2> DEFINE view == [id \in Ids |-> incoming_of(id)]
  <2>1. PICK n \in Nat : n = Len(nodes)
    BY <1>2
  <2>2. Ids = 0..n-1
    BY <2>1 DEF Ids
  <2>3. ASSUME NEW id \in Ids
        PROVE  view[id] \in {<<>>} \cup {<<p>> : p \in Ids}
    <3>1. incoming_of(id) \in Seq(Ids) /\ Len(incoming_of(id)) <= 1
      BY <1>10 DEF Neighbours
    <3>2. QED BY <3>1, ShortList
  <2>4. view \in [Ids -> {<<>>} \cup {<<p>> : p \in Ids}]
    BY <2>3
  <2>5. execution_order \in [1..n -> Ids]
    BY <1>4, <1>6, <2>1 DEF Resolved
  <2>6. \A i \in 1..n : Range(view[execution_order[i]]) \subseteq {execution_order[j] : j \in 1..i-1}
    BY <1>6, <1>11, <2>1
  <2> HIDE DEF view
  <2>7. IsSnapshot(n, view, execution_order)
    BY <1>9, <2>2, <2>4, <2>5, <2>6 DEF IsSnapshot
  <2>8. QED BY <2>1, <2>7 DEF view
<1>14. ASSUME NEW id \in Ids
       PROVE  records[id + 1].outgoing_count = 0
                <=> \A m \in Ids : id \notin Range(incoming_of(m))
  <2>1. PICK out : out = outgoing[id]
    OBVIOUS
  <2>2. /\ out \in Seq(Ids) /\ records[id + 1].outgoing_count = Len(out) /\ Len(out) \in Nat
        /\ Lists(out, {i \in 1..Len(edges) : edges[i].from = nodes[id + 1]}, nodes, edges)
    BY <1>10, <2>1, LenProperties DEF Neighbours
  <2>3. PICK at \in [1..Len(out) -> {i \in 1..Len(edges) : edges[i].from = nodes[id + 1]}] :
          \A i \in {e \in 1..Len(edges) : edges[e].from = nodes[id + 1]} :
            \E k \in 1..Len(out) : at[k] = i
    BY <2>2 DEF Lists
  <2>4. Len(out) = 0 <=> \A i \in 1..Len(edges) : edges[i].from # nodes[id + 1]
    <3>1. Len(out) = 0 => \A k \in 1..Len(out) : FALSE
      OBVIOUS
    <3>2. Len(out) # 0 => 1 \in 1..Len(out)
      BY <2>2
    <3>3. QED BY <2>3, <3>1, <3>2
  <2>5. ASSUME NEW m \in Ids
        PROVE  id \in Range(incoming_of(m))
                 <=> \E i \in 1..Len(edges) : edges[i].from = nodes[id + 1] /\ edges[i].to = nodes[m + 1]
    <3>1. PICK in : in = incoming_of(m)
      OBVIOUS
    <3>2. /\ in \in Seq(Ids)
          /\ {nodes[in[k] + 1] : k \in 1..Len(in)}
               = {edges[i].from : i \in {j \in 1..Len(edges) : edges[j].to = nodes[m + 1]}}
      <4>1. in = incoming[m] /\ in \in Seq(Ids)
        BY <1>10, <3>1
      <4>2. Neighbours(outgoing[m], in, nodes[m + 1], Len(edges), nodes, edges)
        BY <1>10, <4>1
      <4>3. QED BY <4>1, <4>2 DEF Neighbours
    <3>3. /\ DOMAIN in = 1..Len(in)
          /\ \A k \in 1..Len(in) : in[k] \in Ids /\ (in[k] = id <=> nodes[in[k] + 1] = nodes[id + 1])
      BY <1>3, <3>2, LenProperties, ElementOfSeq
    <3>4. id \in Range(in) <=> nodes[id + 1] \in {nodes[in[k] + 1] : k \in 1..Len(in)}
      BY <3>3 DEF Range
    <3>5. QED BY <3>1, <3>2, <3>4
  <2>6. (\E i \in 1..Len(edges) : edges[i].from = nodes[id + 1])
          <=> \E m \in Ids : \E i \in 1..Len(edges) :
                edges[i].from = nodes[id + 1] /\ edges[i].to = nodes[m + 1]
    <3>1. \A i \in 1..Len(edges) : Id(edges[i].to) \in Ids /\ nodes[Id(edges[i].to) + 1] = edges[i].to
      BY <1>2, <1>3
    <3>2. QED BY <3>1
  <2>7. QED BY <2>2, <2>4, <2>5, <2>6
<1>15. sink_nodes = {id \in Ids : \A m \in Ids : id \notin Range(incoming_of(m))}
  BY <1>14 DEF sink_nodes
<1>16. QED BY <1>8, <1>12, <1>13, <1>15

\* What the accessors of a finished snapshot return is a snapshot as GraphRun
\* takes it: every node once, after the node its record calls its parent; and
\* the sinks are the nodes without children, of which there are some.
THEOREM ScheduleHolds == SnapshotSpec => []ScheduleIsSafe
BY ScheduleSafe, Inductive, PTL
==============================================================================

---------------------------- MODULE GraphSnapshot ----------------------------
(***************************************************************************)
(* build_snapshot: an accepted document is turned into dense storage.      *)
(* Node ids become indices, and the argv and the neighbours of all nodes   *)
(* lie in three shared vectors in which every node record owns a slice,    *)
(* given by an offset and a count.                                         *)
(***************************************************************************)
EXTENDS GraphDocument

CONSTANT Argv          \* the argv of each node, a function of its name

ASSUME ArgvAssumption == Argv \in [Names -> Seq(STRING)]

VARIABLES
  stage,               \* control location of build_snapshot
  cursor,              \* loop index of the stage
  records,             \* nodes_
  argv_storage,
  incoming_storage,
  outgoing_storage,
  incoming, outgoing,  \* local adjacency lists, indexed by node id
  execution_order

storage  == <<records, argv_storage, incoming_storage, outgoing_storage>>
lists    == <<incoming, outgoing>>
building == <<stage, cursor, storage, lists, execution_order>>

\* NodeId: a 0-based index into the nodes of the document.
Ids   == 0 .. Len(nodes) - 1
Id(n) == CHOOSE id \in Ids : nodes[id + 1] = n

SnapshotInit ==
  /\ Init
  /\ stage = "none"
  /\ cursor = 0
  /\ records = <<>>
  /\ argv_storage = <<>> /\ incoming_storage = <<>> /\ outgoing_storage = <<>>
  /\ incoming = <<>> /\ outgoing = <<>>
  /\ execution_order = <<>>

StartBuild ==
  /\ pc = "accepted" /\ stage = "none"
  /\ stage' = "append"
  /\ incoming' = [id \in Ids |-> <<>>]
  /\ outgoing' = [id \in Ids |-> <<>>]
  /\ UNCHANGED <<vars, cursor, storage, execution_order>>

\* Broken variant: the offset counts nodes, not arguments.
ArgvOffsetByIndex == cursor

ArgvOffset == Len(argv_storage)

AppendNode ==
  /\ stage = "append" /\ cursor < Len(nodes)
  /\ LET n == nodes[cursor + 1]
     IN  /\ argv_storage' = argv_storage \o Argv[n]
         /\ records' = Append(records,
              [name |-> n,
               argv_offset |-> ArgvOffset, argv_count |-> Len(Argv[n]),
               incoming_offset |-> 0, incoming_count |-> 0,
               outgoing_offset |-> 0, outgoing_count |-> 0])
  /\ cursor' = cursor + 1
  /\ UNCHANGED <<vars, stage, incoming_storage, outgoing_storage, lists,
                 execution_order>>

LinkEdge ==
  /\ stage = "link" /\ cursor < Len(edges)
  /\ LET from == Id(edges[cursor + 1].from)
         to   == Id(edges[cursor + 1].to)
     IN  /\ outgoing' = [outgoing EXCEPT ![from] = Append(@, to)]
         /\ incoming' = [incoming EXCEPT ![to] = Append(@, from)]
  /\ cursor' = cursor + 1
  /\ UNCHANGED <<vars, stage, storage, execution_order>>

SetAdjacency ==
  /\ stage = "adjacency" /\ cursor < Len(nodes)
  /\ records' = [records EXCEPT
       ![cursor + 1].incoming_offset = Len(incoming_storage),
       ![cursor + 1].incoming_count  = Len(incoming[cursor]),
       ![cursor + 1].outgoing_offset = Len(outgoing_storage),
       ![cursor + 1].outgoing_count  = Len(outgoing[cursor])]
  /\ incoming_storage' = incoming_storage \o incoming[cursor]
  /\ outgoing_storage' = outgoing_storage \o outgoing[cursor]
  /\ cursor' = cursor + 1
  /\ UNCHANGED <<vars, stage, argv_storage, lists, execution_order>>

\* Broken variant: a loop starts at the index the one before it ended at.
StartIndexKept == cursor

StartIndex == 0

\* A loop is over and the next one starts.
NextStage ==
  /\ \/ stage = "append" /\ cursor = Len(nodes) /\ stage' = "link"
     \/ stage = "link" /\ cursor = Len(edges) /\ stage' = "adjacency"
     \/ stage = "adjacency" /\ cursor = Len(nodes) /\ stage' = "order"
  /\ cursor' = StartIndex
  /\ UNCHANGED <<vars, storage, lists, execution_order>>

\* Broken variant: positions are stored in place of ids.
ResolvedByPosition(names) == [i \in DOMAIN names |-> i - 1]

Resolved(names) == [i \in DOMAIN names |-> Id(names[i])]

\* topological_order is called a second time: LoadContract is what it returns
\* for a document it has accepted before.
SetExecutionOrder ==
  /\ stage = "order"
  /\ \E names \in TopologicalOrders(nodes, edges) :
       execution_order' = Resolved(names)
  /\ stage' = "built"
  /\ UNCHANGED <<vars, cursor, storage, lists>>

Build ==
  \/ StartBuild \/ AppendNode \/ LinkEdge \/ SetAdjacency \/ NextStage
  \/ SetExecutionOrder

\* A text that was rejected, or whose snapshot is built.
Built == (pc = "rejected" \/ stage = "built") /\ UNCHANGED <<vars, building>>

SnapshotNext ==
  \/ Load /\ UNCHANGED building
  \/ Build
  \/ Built

SnapshotSpec == SnapshotInit /\ [][SnapshotNext]_<<vars, building>>

\* A single thread runs to its end.
FairSnapshotSpec ==
  SnapshotSpec /\ WF_<<vars, building>>((Load /\ UNCHANGED building) \/ Build)

(***************************************************************************)
(* What the accessors of the snapshot return.                              *)
(***************************************************************************)

Slice(vector, offset, count) == SubSeq(vector, offset + 1, offset + count)

argv_copy(id) ==
  Slice(argv_storage, records[id + 1].argv_offset, records[id + 1].argv_count)

incoming_of(id) ==
  Slice(incoming_storage, records[id + 1].incoming_offset,
        records[id + 1].incoming_count)

outgoing_of(id) ==
  Slice(outgoing_storage, records[id + 1].outgoing_offset,
        records[id + 1].outgoing_count)

sink_nodes == {id \in Ids : records[id + 1].outgoing_count = 0}

(***************************************************************************)
(* Properties.                                                             *)
(***************************************************************************)

NamesOf(ids) == [i \in DOMAIN ids |-> records[ids[i] + 1].name]

\* The slices of the shared vectors hold, for each node, exactly its own argv
\* and exactly its parents and children in the order of the document.
SlicesMatchDocument ==
  stage = "built" => \A id \in Ids :
    LET n == nodes[id + 1]
    IN  /\ records[id + 1].name = n
        /\ argv_copy(id) = Argv[n]
        /\ NamesOf(outgoing_of(id)) \in Outgoing(n, NodeIds)
        /\ Range(NamesOf(incoming_of(id))) = Parents(edges, n)
        /\ Len(incoming_of(id)) <= 1

\* What the accessors return is a snapshot as the graph runner needs it: every
\* node is executed once, after the node its record calls its parent; and the
\* sinks, found by counting children, are the nodes no other calls its parent.
ScheduleIsSafe ==
  stage = "built" =>
    /\ IsSnapshot(Len(nodes), [id \in Ids |-> incoming_of(id)], execution_order)
    /\ Range(execution_order) = Ids
    /\ sink_nodes = {id \in Ids : \A m \in Ids : id \notin Range(incoming_of(m))}
    /\ sink_nodes # {}

\* Every text is rejected or becomes a snapshot: neither a cycle nor a self-loop
\* keeps the algorithms busy, and no loop of the builder stops short.
TextIsLoaded == <>(pc = "rejected" \/ stage = "built")
==============================================================================

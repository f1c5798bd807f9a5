---------------------------- MODULE Resume_proofs ----------------------------
(***************************************************************************)
(* Proofs about Resume, for any agents, projects, ledgers and bounds.      *)
(***************************************************************************)
EXTENDS Resume, TLAPS

(***************************************************************************)
(* The inductive invariant: the types, what a query has seen to be done,   *)
(* and what it knows of the ledger while nothing is committed.             *)
(***************************************************************************)

Labels   == {"idle", "context", "nodes", "lookups", "answered", "working"}
Querying == {"context", "nodes", "lookups"}
Answers  == {"none", "no_projects", "not_found", "ready", "incomplete",
             "blocked", "complete"}

Partial(S, T) == UNION {[D -> T] : D \in SUBSET S}

Depended == NodeIds \cup {Unknown}
Rows     == [project : Projects, stage : Stages, status : Statuses,
             depends : SUBSET Depended]
Tables   == Partial(NodeIds, Rows)
Ranks    == [ready : BOOLEAN, unresolved : BOOLEAN]
Rankings == Partial(Projects, Ranks)

Queries == [left : SUBSET Projects, ranks : Rankings, project : SUBSET Projects,
            guidance : Guidance, rows : Tables,
            lookups : SUBSET (NodeIds \X Depended), undone : SUBSET NodeIds,
            selected : BOOLEAN]

Replies == [status : Answers, project : SUBSET Projects, node : Depended,
            depends : SUBSET Depended]

TypeInv ==
  /\ target \in Sessions
  /\ nodes \in Tables
  /\ guidance \in [Projects -> Guidance]
  /\ active \in SUBSET Projects
  /\ pc \in [Agents -> Labels]
  /\ query \in [Agents -> Queries]
  /\ reply \in [Agents -> Replies]
  /\ witness \in [Agents -> [quiet : BOOLEAN, done : SUBSET NodeIds]]

\* A node that is offered, or that an agent works on, is there.
Offered(a) ==
  /\ pc[a] = "lookups" => DOMAIN query[a].rows \subseteq DOMAIN nodes
  /\ pc[a] = "working" => reply[a].status = "ready"
  /\ pc[a] \in {"answered", "working"} /\ reply[a].status = "ready" =>
       reply[a].node \in DOMAIN nodes

\* What a candidate depends on was seen to be done, or has still to be looked
\* up, or was found to be undone.
Fresh(a) ==
  /\ pc[a] \in Querying => {n \in DOMAIN nodes : IsDone(n)} \subseteq witness[a].done
  /\ pc[a] = "lookups" =>
       \A n \in DOMAIN query[a].rows \ query[a].undone :
         \A d \in query[a].rows[n].depends :
           <<n, d>> \in query[a].lookups \/ d \in witness[a].done
  /\ pc[a] = "answered" /\ reply[a].status = "ready" =>
       reply[a].depends \subseteq witness[a].done

\* The ranks are those of the projects that are not left.
Ranked(a) ==
  LET q == query[a]
  IN  \A p \in DOMAIN q.ranks :
        q.ranks[p] = [ready |-> Startable(p) # {}, unresolved |-> RowsToDo(p) # {}]

\* What a query knows of the project it is reading.
KnownOf(a, p) ==
  LET q == query[a]
  IN  /\ q.project = {p} /\ q.guidance = guidance[p]
      /\ q.selected => RightProject(a, p)
      /\ ~q.selected =>
           /\ target[a] = {} /\ Ranked(a)
           /\ active = q.left \cup DOMAIN q.ranks \cup {p}
      /\ pc[a] = "lookups" =>
           /\ q.rows = [n \in RowsToDo(p) |-> nodes[n]]
           /\ q.lookups \subseteq Lookups(q.rows)
           /\ q.undone = {n \in RowsToDo(p) :
                \E d \in nodes[n].depends : <<n, d>> \notin q.lookups /\ ~IsDone(d)}

\* What a query knows of a ledger that nobody is changing.
Current(a) ==
  LET q == query[a]
  IN  /\ pc[a] \in {"context", "nodes"} => q.undone = {}
      /\ pc[a] = "context" =>
           IF target[a] # {} THEN q.left = {} /\ DOMAIN q.ranks = target[a]
           ELSE active = q.left \cup DOMAIN q.ranks /\ Ranked(a)
      /\ pc[a] \in {"nodes", "lookups"} => \E p \in Projects : KnownOf(a, p)
      /\ pc[a] = "answered" => Right(a, reply[a])

AgentInv(a) ==
  Offered(a) /\ Fresh(a) /\ (witness[a].quiet => Current(a))

IInv == TypeInv /\ \A a \in Agents : AgentInv(a)

(***************************************************************************)
(* Lemmas about the data.                                                  *)
(***************************************************************************)

LEMMA PartialFacts ==
  ASSUME NEW S, NEW T
  PROVE  /\ \A f \in Partial(S, T) : DOMAIN f \subseteq S /\ f \in [DOMAIN f -> T]
         /\ \A D \in SUBSET S : [D -> T] \subseteq Partial(S, T)
         /\ NoRows \in Partial(S, T) /\ DOMAIN NoRows = {}
<1>1. NoRows \in [{} -> T]
  BY DEF NoRows
<1>2. QED BY <1>1 DEF Partial

LEMMA BlankFacts ==
  /\ Blank \in Queries /\ Blank.undone = {} /\ Blank.lookups = {}
  /\ Blank.selected = FALSE /\ Blank.left = {} /\ Blank.ranks = NoRows
<1>1. /\ {} \in SUBSET Projects /\ NoRows \in Rankings /\ NoRows \in Tables
      /\ {} \in Guidance /\ {} \in SUBSET (NodeIds \X Depended)
      /\ {} \in SUBSET NodeIds /\ FALSE \in BOOLEAN
  BY PartialFacts DEF Rankings, Tables, Guidance
<1> HIDE DEF NoRows
<1>2. QED BY <1>1 DEF Blank, Queries

LEMMA BlankQuery ==
  ASSUME NEW left \in SUBSET Projects, NEW ranks \in Rankings,
         NEW q \in {[Blank EXCEPT !.left = left], [Blank EXCEPT !.ranks = ranks]}
  PROVE  /\ q \in Queries /\ q.undone = {}
         /\ q = [Blank EXCEPT !.left = left] => q.left = left /\ q.ranks = NoRows
         /\ q = [Blank EXCEPT !.ranks = ranks] => q.left = {} /\ q.ranks = ranks
<1>1. CASE q = [Blank EXCEPT !.left = left]
  BY <1>1, BlankFacts DEF Queries
<1>2. CASE q = [Blank EXCEPT !.ranks = ranks]
  BY <1>2, BlankFacts DEF Queries
<1>3. QED BY <1>1, <1>2

LEMMA AskFacts ==
  ASSUME TypeInv, NEW a \in Agents, NEW q \in Queries, Ask(a, q)
  PROVE  /\ query' \in [Agents -> Queries] /\ query'[a] = q
         /\ \A b \in Agents \ {a} : query'[b] = query[b]
BY DEF TypeInv, Ask

LEMMA GotoFacts ==
  ASSUME TypeInv, NEW a \in Agents, NEW label \in Labels, Goto(a, label)
  PROVE  /\ pc' \in [Agents -> Labels] /\ pc'[a] = label
         /\ \A b \in Agents \ {a} : pc'[b] = pc[b]
BY DEF TypeInv, Goto

LEMMA PutFacts ==
  ASSUME TypeInv, NEW n \in NodeIds, NEW row \in Rows, Put(n, row)
  PROVE  nodes' \in Tables /\ DOMAIN nodes' = DOMAIN nodes \cup {n}
<1>1. nodes \in [DOMAIN nodes -> Rows] /\ DOMAIN nodes \subseteq NodeIds
  BY PartialFacts DEF TypeInv, Tables
<1>2. nodes' \in [DOMAIN nodes \cup {n} -> Rows]
  BY <1>1 DEF Put
<1>3. DOMAIN nodes \cup {n} \in SUBSET NodeIds
  BY <1>1
<1>4. nodes' \in Tables
  BY <1>2, <1>3, PartialFacts DEF Tables
<1>5. QED BY <1>2, <1>4

LEMMA TargetFacts ==
  ASSUME TypeInv, NEW a \in Agents
  PROVE  target[a] = {} \/ \E p \in Projects : target[a] = {p}
<1>1. target \in Seq({{}} \cup {{q} : q \in Projects})
  BY BoundsAssumption DEF TypeInv
<1>2. target[a] \in {{}} \cup {{q} : q \in Projects}
  BY <1>1 DEF Agents
<1>3. QED BY <1>2

LEMMA QueryFacts ==
  ASSUME TypeInv, NEW a \in Agents
  PROVE  /\ query[a] \in Queries
         /\ query[a].left \subseteq Projects /\ query[a].project \subseteq Projects
         /\ query[a].ranks \in Rankings /\ DOMAIN query[a].ranks \subseteq Projects
         /\ query[a].rows \in Tables /\ DOMAIN query[a].rows \subseteq NodeIds
         /\ \A n \in DOMAIN query[a].rows : query[a].rows[n] \in Rows
         /\ query[a].lookups \subseteq NodeIds \X Depended
         /\ query[a].undone \subseteq NodeIds
         /\ query[a].selected \in BOOLEAN
<1>1. query[a] \in Queries
  BY DEF TypeInv
<1>2. query[a].rows \in Tables /\ query[a].ranks \in Rankings
  BY <1>1 DEF Queries
<1>3. \A n \in DOMAIN query[a].rows : query[a].rows[n] \in Rows
  BY <1>2, PartialFacts DEF Tables
<1>4. DOMAIN query[a].rows \subseteq NodeIds /\ DOMAIN query[a].ranks \subseteq Projects
  BY <1>2, PartialFacts DEF Tables, Rankings
<1>5. QED BY <1>1, <1>2, <1>3, <1>4 DEF Queries

LEMMA NodesFacts ==
  ASSUME TypeInv
  PROVE  /\ DOMAIN nodes \subseteq NodeIds /\ nodes \in [DOMAIN nodes -> Rows]
         /\ \A n \in DOMAIN nodes : /\ nodes[n] \in Rows /\ nodes[n].status \in Statuses
                                  /\ nodes[n].depends \subseteq Depended
<1>1. DOMAIN nodes \subseteq NodeIds /\ nodes \in [DOMAIN nodes -> Rows]
  BY PartialFacts DEF TypeInv, Tables
<1>2. QED BY <1>1 DEF Rows

(***************************************************************************)
(* What the steps of resume leave in the query.                            *)
(***************************************************************************)

LEMMA SelectFacts ==
  ASSUME TypeInv, NEW a \in Agents, SelectProjects(a)
  PROVE  /\ query' \in [Agents -> Queries] /\ pc' \in [Agents -> Labels]
         /\ pc'[a] = "context" /\ query'[a].undone = {}
         /\ IF target[a] # {}
            THEN query'[a].left = {} /\ DOMAIN query'[a].ranks = target[a]
            ELSE query'[a].left = active /\ DOMAIN query'[a].ranks = {}
         /\ witness'[a] = [quiet |-> TRUE, done |-> {n \in DOMAIN nodes : IsDone(n)}]
         /\ \A b \in Agents \ {a} :
              UNCHANGED <<pc[b], query[b], reply[b], witness[b]>>
<1> DEFINE ranks == [p \in target[a] |-> Unranked]
           q     == IF target[a] # {} THEN [Blank EXCEPT !.ranks = ranks]
                    ELSE [Blank EXCEPT !.left = active]
<1>1. ranks \in Rankings /\ DOMAIN ranks = target[a]
  <2>1. Unranked \in Ranks
    BY DEF Unranked, Ranks
  <2>2. target[a] \in SUBSET Projects
    BY TargetFacts
  <2> HIDE DEF Unranked
  <2>3. ranks \in [target[a] -> Ranks]
    BY <2>1
  <2>4. QED BY <2>2, <2>3, PartialFacts DEF Rankings
<1>2. active \in SUBSET Projects
  BY DEF TypeInv
<1> HIDE DEF ranks
<1>3. /\ q \in Queries /\ q.undone = {}
      /\ IF target[a] # {} THEN q.left = {} /\ q.ranks = ranks
         ELSE q.left = active /\ q.ranks = NoRows
  BY <1>1, <1>2, BlankQuery
<1>4. Ask(a, q) /\ Goto(a, "context")
  BY DEF SelectProjects, ranks
<1> HIDE DEF q
<1>5. /\ query' \in [Agents -> Queries] /\ query'[a] = q
      /\ \A b \in Agents \ {a} : query'[b] = query[b]
  BY <1>3, <1>4, AskFacts
<1>6. /\ pc' \in [Agents -> Labels] /\ pc'[a] = "context"
      /\ \A b \in Agents \ {a} : pc'[b] = pc[b]
  BY <1>4, GotoFacts DEF Labels
<1>7. DOMAIN NoRows = {}
  BY DEF NoRows
<1>8. /\ witness'[a] = [quiet |-> TRUE, done |-> {n \in DOMAIN nodes : IsDone(n)}]
      /\ \A b \in Agents \ {a} : reply'[b] = reply[b] /\ witness'[b] = witness[b]
  BY DEF SelectProjects, TypeInv
<1>9. QED BY <1>1, <1>3, <1>5, <1>6, <1>7, <1>8

\* A step that asks for more: the query and the label of one agent change.
Asks(a, q, label) ==
  /\ query' \in [Agents -> Queries] /\ query'[a] = q
  /\ pc' \in [Agents -> Labels] /\ pc'[a] = label
  /\ UNCHANGED <<ledger, commands, target, reply, witness>>
  /\ \A b \in Agents \ {a} : pc'[b] = pc[b] /\ query'[b] = query[b]

LEMMA AskGoes ==
  ASSUME TypeInv, NEW a \in Agents, NEW q \in Queries, NEW label \in Labels,
         Ask(a, q), Goto(a, label), Reading
  PROVE  Asks(a, q, label)
BY AskFacts, GotoFacts DEF Asks, Reading

LEMMA ReadContextFacts ==
  ASSUME TypeInv, NEW a \in Agents, ReadContext(a)
  PROVE  \E p \in Projects, q2 \in Queries :
           LET q == query[a]
           IN  /\ IsNext(q, p) /\ Asks(a, q2, "nodes")
               /\ q2.project = {p} /\ q2.guidance = guidance[p]
               /\ q2.left = q.left \ {p} /\ q2.selected = (q.left = {})
               /\ q.left # {} => q2.ranks = q.ranks
               /\ q2.undone = q.undone
<1> DEFINE q == query[a]
<1>1. PICK p \in Projects :
        /\ IsNext(q, p)
        /\ Ask(a, [q EXCEPT !.project = {p}, !.left = @ \ {p},
                            !.selected = q.left = {}, !.guidance = guidance[p],
                            !.ranks = IF q.left = {} THEN NoRows ELSE @])
  BY DEF ReadContext
<1> DEFINE left     == q.left \ {p}
           selected == q.left = {}
           ranks    == IF q.left = {} THEN NoRows ELSE q.ranks
           context  == guidance[p]
           q2 == [q EXCEPT !.project = {p}, !.left = left, !.selected = selected,
                           !.guidance = context, !.ranks = ranks]
<1>2. q \in Queries /\ q.left \subseteq Projects
  BY QueryFacts
<1>3. left \in SUBSET Projects /\ selected \in BOOLEAN
  BY <1>2
<1>4. context \in Guidance
  BY DEF TypeInv
<1>5. ranks \in Rankings
  BY QueryFacts, PartialFacts DEF Rankings
<1>6. Ask(a, q2)
  BY <1>1
<1>7. selected = (q.left = {}) /\ (q.left # {} => ranks = q.ranks) /\ left = q.left \ {p}
      /\ context = guidance[p]
  OBVIOUS
<1> HIDE DEF left, selected, ranks, context, q
<1>8. /\ q2 \in Queries /\ q2.project = {p} /\ q2.left = left
      /\ q2.selected = selected /\ q2.guidance = context
      /\ q2.ranks = ranks /\ q2.undone = q.undone
  BY <1>2, <1>3, <1>4, <1>5 DEF Queries
<1>9. Asks(a, q2, "nodes")
  BY <1>6, <1>8, AskGoes DEF ReadContext, Labels
<1> HIDE DEF q2
<1>10. QED BY <1>1, <1>7, <1>8, <1>9 DEF q

LEMMA ReadNodesFacts ==
  ASSUME TypeInv, NEW a \in Agents, ReadNodes(a)
  PROVE  \E p \in query[a].project, q2 \in Queries :
           LET q == query[a]
           IN  /\ Asks(a, q2, "lookups")
               /\ q2.rows = [n \in RowsToDo(p) |-> nodes[n]]
               /\ q2.lookups = Lookups(q2.rows)
               /\ q2.project = q.project /\ q2.guidance = q.guidance
               /\ q2.left = q.left /\ q2.selected = q.selected
               /\ q2.ranks = q.ranks /\ q2.undone = q.undone
<1> DEFINE q == query[a]
<1>1. PICK p \in q.project :
        LET rows == [n \in RowsToDo(p) |-> nodes[n]]
        IN  Ask(a, [q EXCEPT !.rows = rows, !.lookups = Lookups(rows)])
  BY DEF ReadNodes
<1> DEFINE rows    == [n \in RowsToDo(p) |-> nodes[n]]
           lookups == Lookups(rows)
           q2 == [q EXCEPT !.rows = rows, !.lookups = lookups]
<1>2. q \in Queries
  BY QueryFacts
<1>3. RowsToDo(p) \subseteq DOMAIN nodes
  BY DEF RowsToDo
<1>4. rows \in Tables
  <2>1. rows \in [RowsToDo(p) -> Rows]
    BY <1>3, NodesFacts
  <2>2. RowsToDo(p) \in SUBSET NodeIds
    BY <1>3, NodesFacts
  <2>3. QED BY <2>1, <2>2, PartialFacts DEF Tables
<1>5. lookups \in SUBSET (NodeIds \X Depended)
  <2>1. \A n \in DOMAIN rows : n \in NodeIds /\ rows[n].depends \subseteq Depended
    BY <1>3, NodesFacts
  <2> HIDE DEF rows
  <2>2. QED BY <2>1 DEF Lookups
<1>6. Ask(a, q2)
  BY <1>1
<1> HIDE DEF rows, lookups, q
<1>7. /\ q2 \in Queries /\ q2.rows = rows /\ q2.lookups = lookups
      /\ q2.project = q.project /\ q2.guidance = q.guidance
      /\ q2.left = q.left /\ q2.selected = q.selected
      /\ q2.ranks = q.ranks /\ q2.undone = q.undone
  BY <1>2, <1>4, <1>5 DEF Queries
<1>8. Asks(a, q2, "lookups")
  BY <1>6, <1>7, AskGoes DEF ReadNodes, Labels
<1> HIDE DEF q2
<1>9. QED BY <1>7, <1>8 DEF q, rows, lookups

LEMMA LookUpFacts ==
  ASSUME TypeInv, NEW a \in Agents, LookUp(a)
  PROVE  \E n \in NodeIds, d \in Depended, q2 \in Queries :
           LET q == query[a]
           IN  /\ <<n, d>> \in q.lookups
               /\ Asks(a, q2, "lookups") /\ pc[a] = "lookups"
               /\ q2.lookups = q.lookups \ {<<n, d>>}
               /\ q2.undone = IF IsDone(d) THEN q.undone ELSE q.undone \cup {n}
               /\ q2.rows = q.rows
               /\ q2.project = q.project /\ q2.guidance = q.guidance
               /\ q2.left = q.left /\ q2.selected = q.selected
               /\ q2.ranks = q.ranks
<1> DEFINE q == query[a]
<1>1. PICK l \in FirstLookups(q) :
        Ask(a, [q EXCEPT !.lookups = @ \ {l},
                         !.undone  = IF IsDone(l[2]) THEN @ ELSE @ \cup {l[1]}])
  BY DEF LookUp
<1>2. q \in Queries /\ q.lookups \subseteq NodeIds \X Depended /\ q.undone \subseteq NodeIds
  BY QueryFacts
<1>3. l \in q.lookups
  BY DEF FirstLookups
<1>4. PICK n \in NodeIds, d \in Depended : l = <<n, d>>
  BY <1>2, <1>3
<1> DEFINE lookups == q.lookups \ {l}
           undone  == IF IsDone(l[2]) THEN q.undone ELSE q.undone \cup {l[1]}
           q2 == [q EXCEPT !.lookups = lookups, !.undone = undone]
<1>5. lookups \in SUBSET (NodeIds \X Depended) /\ undone \in SUBSET NodeIds
  BY <1>2, <1>4
<1>6. Ask(a, q2)
  BY <1>1
<1>7. /\ lookups = q.lookups \ {<<n, d>>}
      /\ undone = IF IsDone(d) THEN q.undone ELSE q.undone \cup {n}
  BY <1>4
<1> HIDE DEF lookups, undone, q
<1>8. /\ q2 \in Queries /\ q2.lookups = lookups /\ q2.undone = undone
      /\ q2.rows = q.rows /\ q2.project = q.project /\ q2.guidance = q.guidance
      /\ q2.left = q.left /\ q2.selected = q.selected /\ q2.ranks = q.ranks
  BY <1>2, <1>5 DEF Queries
<1>9. Goto(a, "lookups") /\ pc[a] = "lookups"
  <2>1. pc' = pc /\ pc[a] = "lookups"
    BY DEF LookUp
  <2>2. pc = [pc EXCEPT ![a] = "lookups"]
    BY <2>1 DEF TypeInv
  <2>3. QED BY <2>1, <2>2 DEF Goto
<1>10. Asks(a, q2, "lookups")
  BY <1>6, <1>8, <1>9, AskGoes DEF LookUp, Labels
<1> HIDE DEF q2
<1>11. QED BY <1>3, <1>4, <1>7, <1>8, <1>9, <1>10 DEF q

LEMMA RankFacts ==
  ASSUME TypeInv, NEW a \in Agents, RankProject(a)
  PROVE  \E p \in query[a].project, q2 \in Queries :
           LET q == query[a]
           IN  /\ Asks(a, q2, "context")
               /\ pc[a] = "lookups" /\ q.lookups = {} /\ ~q.selected
               /\ q2.left = q.left /\ q2.undone = {}
               /\ DOMAIN q2.ranks = DOMAIN q.ranks \cup {p}
               /\ q2.ranks[p] = [ready |-> Ready(q) # {}, unresolved |-> DOMAIN q.rows # {}]
               /\ \A r \in DOMAIN q.ranks \ {p} : q2.ranks[r] = q.ranks[r]
<1> DEFINE q == query[a]
           rank == [ready |-> Ready(q) # {}, unresolved |-> DOMAIN q.rows # {}]
<1>1. PICK p \in q.project :
        Ask(a, [Blank EXCEPT !.left = q.left,
                  !.ranks = [r \in DOMAIN q.ranks \cup {p} |->
                               IF r = p THEN rank ELSE q.ranks[r]]])
  BY DEF RankProject
<1> DEFINE left  == q.left
           ranks == [r \in DOMAIN q.ranks \cup {p} |->
                       IF r = p THEN rank ELSE q.ranks[r]]
           q2    == [Blank EXCEPT !.left = left, !.ranks = ranks]
<1>2. left \in SUBSET Projects /\ p \in Projects
  BY QueryFacts
<1>3. ranks \in Rankings
  <2>1. q.ranks \in Rankings
    BY QueryFacts
  <2>2. /\ q.ranks \in [DOMAIN q.ranks -> Ranks]
        /\ DOMAIN q.ranks \subseteq Projects
    BY <2>1, PartialFacts DEF Rankings
  <2>3. rank \in Ranks
    BY DEF Ranks
  <2> HIDE DEF rank, q
  <2>4. ranks \in [DOMAIN q.ranks \cup {p} -> Ranks]
    BY <2>2, <2>3
  <2>5. DOMAIN q.ranks \cup {p} \in SUBSET Projects
    BY <1>2, <2>2
  <2> HIDE DEF ranks
  <2>6. QED BY <2>4, <2>5, PartialFacts DEF Rankings
<1>4. /\ DOMAIN ranks = DOMAIN q.ranks \cup {p} /\ ranks[p] = rank
      /\ \A r \in DOMAIN q.ranks \ {p} : ranks[r] = q.ranks[r]
  OBVIOUS
<1>5. Ask(a, q2)
  BY <1>1
<1>6. left = q.left
  OBVIOUS
<1> HIDE DEF ranks, left
<1>7. q2 \in Queries /\ q2.left = left /\ q2.ranks = ranks /\ q2.undone = {}
  BY <1>2, <1>3, BlankFacts DEF Queries
<1>8. Asks(a, q2, "context")
  BY <1>5, <1>7, AskGoes DEF RankProject, Labels
<1> HIDE DEF q2
<1>9. QED BY <1>4, <1>6, <1>7, <1>8 DEF RankProject

\* An answer ends the query.
LEMMA AnswerFacts ==
  ASSUME TypeInv, NEW a \in Agents, NEW status \in Answers,
         NEW project \in SUBSET Projects, NEW node \in Depended,
         node # Unknown => node \in DOMAIN query[a].rows,
         Answer(a, status, project, node)
  PROVE  /\ query' \in [Agents -> Queries] /\ reply' \in [Agents -> Replies]
         /\ pc' \in [Agents -> Labels] /\ pc'[a] = "answered"
         /\ reply'[a].status = status /\ reply'[a].project = project
         /\ reply'[a].node = node /\ reply'[a].depends = Depends(query[a], node)
         /\ UNCHANGED <<ledger, commands, target, witness>>
         /\ \A b \in Agents \ {a} :
              pc'[b] = pc[b] /\ query'[b] = query[b] /\ reply'[b] = reply[b]
<1>1. Ask(a, Blank) /\ Goto(a, "answered")
  BY DEF Answer
<1>2. Depends(query[a], node) \in SUBSET Depended
  BY QueryFacts DEF Depends, Rows
<1> DEFINE answer == [status |-> status, project |-> project, node |-> node,
                      depends |-> Depends(query[a], node)]
<1>3. answer \in Replies
  BY <1>2 DEF Replies
<1>4. reply' = [reply EXCEPT ![a] = answer]
  BY DEF Answer
<1>5. answer.status = status /\ answer.project = project /\ answer.node = node
      /\ answer.depends = Depends(query[a], node)
  OBVIOUS
<1> HIDE DEF answer
<1>6. /\ reply' \in [Agents -> Replies] /\ reply'[a] = answer
      /\ \A b \in Agents \ {a} : reply'[b] = reply[b]
  BY <1>3, <1>4 DEF TypeInv
<1>7. /\ query' \in [Agents -> Queries]
      /\ \A b \in Agents \ {a} : query'[b] = query[b]
  BY <1>1, BlankFacts, AskFacts
<1>8. /\ pc' \in [Agents -> Labels] /\ pc'[a] = "answered"
      /\ \A b \in Agents \ {a} : pc'[b] = pc[b]
  BY <1>1, GotoFacts DEF Labels
<1>9. QED BY <1>5, <1>6, <1>7, <1>8 DEF Answer

\* What a query comes to, as ReadTree finds it.
LEMMA ReadTreeFacts ==
  ASSUME TypeInv, NEW a \in Agents, ReadTree(a)
  PROVE  \E p \in query[a].project :
           LET q == query[a]
           IN  /\ pc[a] = "lookups" /\ q.lookups = {} /\ q.selected
               /\ \/ \E n \in Ready(q) :
                       /\ \A other \in Ready(q) : ~Before(q.rows, other, n)
                       /\ Answer(a, "ready", {p}, n)
                       /\ n \in DOMAIN q.rows \ q.undone
                       /\ n \in NodeIds /\ n \in Depended /\ n # Unknown
                  \/ \E status \in {"incomplete", "blocked", "complete"} :
                       /\ Answer(a, status, {p}, Unknown)
                       /\ Ready(q) = {}
                       /\ (status = "incomplete") = (MissingStages(p) # {})
                       /\ status = "complete" => DOMAIN q.rows = {}
                       /\ status = "blocked" => DOMAIN q.rows # {}
<1> DEFINE q == query[a]
<1>1. PICK p \in q.project :
        IF Ready(q) # {}
        THEN \E n \in Ready(q) :
               /\ \A other \in Ready(q) : ~Before(q.rows, other, n)
               /\ Answer(a, "ready", {p}, n)
        ELSE Answer(a, IF MissingStages(p) # {} THEN "incomplete"
                       ELSE IF DOMAIN q.rows # {} THEN "blocked"
                       ELSE "complete", {p}, Unknown)
  BY DEF ReadTree
<1>2. pc[a] = "lookups" /\ q.lookups = {} /\ q.selected
  BY DEF ReadTree
<1>3. CASE Ready(q) # {}
  <2>1. PICK n \in Ready(q) :
          /\ \A other \in Ready(q) : ~Before(q.rows, other, n)
          /\ Answer(a, "ready", {p}, n)
    BY <1>1, <1>3
  <2>2. n \in DOMAIN q.rows \ q.undone
    BY DEF Ready
  <2>3. n \in NodeIds /\ n \in Depended /\ n # Unknown
    BY <2>2, QueryFacts, BoundsAssumption DEF NodeIds, Depended, Unknown
  <2>4. QED BY <1>2, <2>1, <2>2, <2>3
<1>4. CASE Ready(q) = {}
  <2> DEFINE status == IF MissingStages(p) # {} THEN "incomplete"
                       ELSE IF DOMAIN q.rows # {} THEN "blocked" ELSE "complete"
  <2>1. Answer(a, status, {p}, Unknown)
    BY <1>1, <1>4
  <2>2. /\ status \in {"incomplete", "blocked", "complete"}
        /\ (status = "incomplete") = (MissingStages(p) # {})
        /\ status = "complete" => DOMAIN q.rows = {}
        /\ status = "blocked" => DOMAIN q.rows # {}
    OBVIOUS
  <2> HIDE DEF status
  <2>3. QED BY <1>2, <1>4, <2>1, <2>2
<1>5. QED BY <1>3, <1>4

(***************************************************************************)
(* The commands that commit.                                               *)
(***************************************************************************)

LEMMA OtherFacts ==
  ASSUME TypeInv, OtherCommand
  PROVE  /\ nodes' \in Tables /\ DOMAIN nodes \subseteq DOMAIN nodes'
         /\ guidance' \in [Projects -> Guidance] /\ active' \in SUBSET Projects
<1>1. nodes \in Tables /\ guidance \in [Projects -> Guidance] /\ active \in SUBSET Projects
  BY DEF TypeInv
<1>2. ASSUME NEW n \in NodeIds, NEW row \in Rows, Put(n, row),
             UNCHANGED <<guidance, active>>
      PROVE  /\ nodes' \in Tables /\ DOMAIN nodes \subseteq DOMAIN nodes'
             /\ guidance' \in [Projects -> Guidance] /\ active' \in SUBSET Projects
  BY <1>1, <1>2, PutFacts
<1>3. CASE NodeCreate
  <2>1. PICK n \in NodeIds, q \in Projects, s \in Stages, t \in Statuses,
             d \in Dependencies : Put(n, Row(q, s, t, d)) /\ UNCHANGED <<guidance, active>>
    BY <1>3 DEF NodeCreate
  <2>2. Row(q, s, t, d) \in Rows
    BY BoundsAssumption DEF Row, Rows, Depended
  <2>3. QED BY <1>2, <2>1, <2>2
<1>4. CASE NodeUpdate
  <2>1. PICK n \in DOMAIN nodes, s \in Stages :
          /\ \E d \in Dependencies \cup {nodes[n].depends} :
               Put(n, [nodes[n] EXCEPT !.stage = s, !.depends = d])
          /\ UNCHANGED <<guidance, active>>
    BY <1>4 DEF NodeUpdate
  <2>2. PICK d \in Dependencies \cup {nodes[n].depends} :
          Put(n, [nodes[n] EXCEPT !.stage = s, !.depends = d])
    BY <2>1
  <2>3. nodes[n] \in Rows /\ n \in NodeIds /\ d \in SUBSET Depended
    BY NodesFacts, BoundsAssumption DEF Depended
  <2>4. [nodes[n] EXCEPT !.stage = s, !.depends = d] \in Rows
    BY <2>3 DEF Rows
  <2>5. QED BY <1>2, <2>1, <2>2, <2>3, <2>4
<1>5. CASE \E n \in DOMAIN nodes, s \in Statuses : NodeUpdateStatus(n, s)
  <2>1. PICK n \in DOMAIN nodes, s \in Statuses : NodeUpdateStatus(n, s)
    BY <1>5
  <2>2. [nodes[n] EXCEPT !.status = s] \in Rows /\ n \in NodeIds
    BY NodesFacts DEF Rows
  <2>3. QED BY <1>2, <2>1, <2>2 DEF NodeUpdateStatus
<1>6. CASE ArtifactChange
  BY <1>1, <1>6 DEF ArtifactChange
<1>7. CASE ProjectUpdate
  BY <1>1, <1>7 DEF ProjectUpdate
<1>8. QED BY <1>3, <1>4, <1>5, <1>6, <1>7 DEF OtherCommand

Commits == OtherCommand \/ \E b \in Agents : Take(b) \/ Finish(b)

\* What a commit leaves of the agents: one of them may take or finish a node.
LEMMA CommitsFacts ==
  ASSUME IInv, Commits
  PROVE  /\ nodes' \in Tables /\ DOMAIN nodes \subseteq DOMAIN nodes'
         /\ guidance' \in [Projects -> Guidance] /\ active' \in SUBSET Projects
         /\ target' = target /\ query' = query /\ Committed
         /\ pc' \in [Agents -> Labels] /\ reply' \in [Agents -> Replies]
         /\ \A a \in Agents :
              \/ pc'[a] = pc[a] /\ reply'[a] = reply[a]
              \/ /\ pc[a] = "answered" /\ reply[a].status = "ready"
                 /\ pc'[a] = "working" /\ reply'[a] = reply[a]
              \/ pc'[a] = "idle"
<1>1. TypeInv /\ \A a \in Agents : Offered(a)
  BY DEF IInv, AgentInv
<1>2. ASSUME NEW b \in Agents, Take(b) \/ Finish(b)
      PROVE  /\ nodes' \in Tables /\ DOMAIN nodes \subseteq DOMAIN nodes'
             /\ guidance' = guidance /\ active' = active
  <2>1. reply[b].node \in DOMAIN nodes
    BY <1>1, <1>2 DEF Take, Finish, Offered
  <2>2. PICK s \in Statuses : NodeUpdateStatus(reply[b].node, s)
    BY <1>2 DEF Take, Finish, Statuses, Unfinished
  <2>3. [nodes[reply[b].node] EXCEPT !.status = s] \in Rows /\ reply[b].node \in NodeIds
    BY <1>1, <2>1, NodesFacts DEF Rows
  <2>4. QED BY <1>1, <2>2, <2>3, PutFacts DEF NodeUpdateStatus
<1>3. NoReply \in Replies
  BY DEF NoReply, Replies, Answers, Depended
<1>4. CASE OtherCommand
  BY <1>1, <1>4, OtherFacts DEF OtherCommand, TypeInv
<1>5. ASSUME NEW b \in Agents, Take(b)
      PROVE  /\ target' = target /\ query' = query /\ Committed /\ reply' = reply
             /\ pc' \in [Agents -> Labels]
             /\ pc[b] = "answered" /\ reply[b].status = "ready" /\ pc'[b] = "working"
             /\ \A a \in Agents \ {b} : pc'[a] = pc[a]
  BY <1>1, <1>5, GotoFacts DEF Take, Labels
<1>6. ASSUME NEW b \in Agents, Finish(b)
      PROVE  /\ target' = target /\ query' = query /\ Committed
             /\ reply' \in [Agents -> Replies]
             /\ pc' \in [Agents -> Labels] /\ pc'[b] = "idle"
             /\ \A a \in Agents \ {b} : pc'[a] = pc[a] /\ reply'[a] = reply[a]
  <2>1. /\ pc' \in [Agents -> Labels] /\ pc'[b] = "idle"
        /\ \A a \in Agents \ {b} : pc'[a] = pc[a]
    BY <1>1, <1>6, GotoFacts DEF Finish, Labels
  <2>2. /\ reply' \in [Agents -> Replies]
        /\ \A a \in Agents \ {b} : reply'[a] = reply[a]
    <3>1. reply' = [reply EXCEPT ![b] = NoReply]
      BY <1>6 DEF Finish
    <3> HIDE DEF NoReply
    <3>2. QED BY <1>1, <1>3, <3>1 DEF TypeInv
  <2>3. QED BY <1>6, <2>1, <2>2 DEF Finish
<1>7. CASE \E b \in Agents : Take(b) \/ Finish(b)
  <2>1. PICK b \in Agents : Take(b) \/ Finish(b)
    BY <1>7
  <2>2. /\ nodes' \in Tables /\ DOMAIN nodes \subseteq DOMAIN nodes'
        /\ guidance' \in [Projects -> Guidance] /\ active' \in SUBSET Projects
    BY <1>1, <1>2, <2>1 DEF TypeInv
  <2>3. CASE Take(b)
    BY <1>1, <1>5, <2>2, <2>3 DEF TypeInv
  <2>4. CASE Finish(b)
    BY <1>6, <2>2, <2>4
  <2>5. QED BY <2>1, <2>3, <2>4
<1>8. QED BY <1>4, <1>7 DEF Commits

\* Every query that is being answered has seen the commit.
LEMMA WitnessFacts ==
  ASSUME IInv, Commits
  PROVE  /\ witness' \in [Agents -> [quiet : BOOLEAN, done : SUBSET NodeIds]]
         /\ \A a \in Agents : pc'[a] # "idle" =>
              /\ ~witness'[a].quiet
              /\ witness[a].done \subseteq witness'[a].done
              /\ {n \in DOMAIN nodes' : nodes'[n].status = "done"} \subseteq witness'[a].done
<1> DEFINE done == {n \in DOMAIN nodes' : nodes'[n].status = "done"}
           new(a) == IF pc'[a] = "idle" THEN Forgotten
                     ELSE [quiet |-> FALSE, done |-> witness[a].done \cup done]
<1>1. witness' = [a \in Agents |-> new(a)]
  BY CommitsFacts DEF Committed
<1>2. done \subseteq NodeIds
  <2>1. nodes' \in Tables
    BY CommitsFacts
  <2>2. DOMAIN nodes' \subseteq NodeIds
    BY <2>1, PartialFacts DEF Tables
  <2>3. QED BY <2>2
<1>3. \A a \in Agents : witness[a].done \subseteq NodeIds
  BY DEF IInv, TypeInv
<1> HIDE DEF done
<1>4. \A a \in Agents : new(a) \in [quiet : BOOLEAN, done : SUBSET NodeIds]
  BY <1>2, <1>3 DEF Forgotten
<1>5. \A a \in Agents : pc'[a] # "idle" =>
        /\ ~new(a).quiet /\ new(a).done = witness[a].done \cup done
  OBVIOUS
<1> HIDE DEF new
<1>6. QED BY <1>1, <1>4, <1>5 DEF done

(***************************************************************************)
(* Types.                                                                  *)
(***************************************************************************)

\* The steps that end a query.
LEMMA EndsFacts ==
  ASSUME IInv, NEW a \in Agents, NoProjects(a) \/ LookUpFails(a) \/ ReadTree(a)
  PROVE  /\ query' \in [Agents -> Queries] /\ reply' \in [Agents -> Replies]
         /\ pc' \in [Agents -> Labels] /\ pc'[a] = "answered"
         /\ UNCHANGED <<ledger, commands, target, witness>>
         /\ \A b \in Agents \ {a} :
              pc'[b] = pc[b] /\ query'[b] = query[b] /\ reply'[b] = reply[b]
<1>1. TypeInv
  BY DEF IInv
<1>2. CASE NoProjects(a)
  <2>1. Answer(a, "no_projects", {}, Unknown)
    BY <1>2 DEF NoProjects
  <2>2. "no_projects" \in Answers /\ {} \in SUBSET Projects /\ Unknown \in Depended
    BY DEF Answers, Depended
  <2>3. QED BY <1>1, <2>1, <2>2, AnswerFacts
<1>3. CASE LookUpFails(a)
  <2>1. Answer(a, "not_found", query[a].project, Unknown)
    BY <1>3 DEF LookUpFails
  <2>2. "not_found" \in Answers /\ query[a].project \in SUBSET Projects
        /\ Unknown \in Depended
    BY <1>1, QueryFacts DEF Answers, Depended
  <2>3. QED BY <1>1, <2>1, <2>2, AnswerFacts
<1>4. CASE ReadTree(a)
  <2>1. PICK p \in query[a].project, status \in Answers, node \in Depended :
          /\ Answer(a, status, {p}, node)
          /\ node # Unknown => node \in DOMAIN query[a].rows
    <3>1. PICK p \in query[a].project :
            \/ \E n \in Ready(query[a]) :
                 /\ Answer(a, "ready", {p}, n)
                 /\ n \in DOMAIN query[a].rows \ query[a].undone
                 /\ n \in NodeIds /\ n \in Depended /\ n # Unknown
            \/ \E status \in {"incomplete", "blocked", "complete"} :
                 Answer(a, status, {p}, Unknown)
      BY <1>1, <1>4, ReadTreeFacts
    <3>2. /\ {"ready", "incomplete", "blocked", "complete"} \subseteq Answers
          /\ Unknown \in Depended
      BY DEF Answers, Depended
    <3>3. QED BY <3>1, <3>2
  <2>2. {p} \in SUBSET Projects
    BY <1>1, QueryFacts
  <2>3. QED BY <1>1, <2>1, <2>2, AnswerFacts
<1>5. QED BY <1>2, <1>3, <1>4

LEMMA AskLaterFacts ==
  ASSUME TypeInv, NEW a \in Agents, AskLater(a)
  PROVE  /\ pc' \in [Agents -> Labels] /\ reply' \in [Agents -> Replies]
         /\ witness' \in [Agents -> [quiet : BOOLEAN, done : SUBSET NodeIds]]
         /\ pc'[a] = "idle"
         /\ UNCHANGED <<ledger, target, query>>
         /\ \A b \in Agents \ {a} :
              pc'[b] = pc[b] /\ reply'[b] = reply[b] /\ witness'[b] = witness[b]
<1>1. NoReply \in Replies
  BY DEF NoReply, Replies, Answers, Depended
<1>2. Forgotten \in [quiet : BOOLEAN, done : SUBSET NodeIds]
  BY DEF Forgotten
<1>3. /\ reply' = [reply EXCEPT ![a] = NoReply]
      /\ witness' = [witness EXCEPT ![a] = Forgotten]
  BY DEF AskLater
<1> HIDE DEF NoReply, Forgotten
<1>4. /\ pc' \in [Agents -> Labels] /\ pc'[a] = "idle"
      /\ \A b \in Agents \ {a} : pc'[b] = pc[b]
  BY GotoFacts DEF AskLater, Labels
<1>5. /\ reply' \in [Agents -> Replies]
      /\ \A b \in Agents \ {a} : reply'[b] = reply[b]
  BY <1>1, <1>3 DEF TypeInv
<1>6. /\ witness' \in [Agents -> [quiet : BOOLEAN, done : SUBSET NodeIds]]
      /\ \A b \in Agents \ {a} : witness'[b] = witness[b]
  BY <1>2, <1>3 DEF TypeInv
<1>7. QED BY <1>4, <1>5, <1>6 DEF AskLater

LEMMA TypePreserved ==
  ASSUME IInv, [Next]_vars
  PROVE  TypeInv'
<1>1. TypeInv
  BY DEF IInv
<1>2. CASE Commits
  BY <1>1, <1>2, CommitsFacts, WitnessFacts DEF TypeInv, Agents
<1>3. ASSUME NEW a \in Agents, SelectProjects(a)
      PROVE  TypeInv'
  <2>1. /\ query' \in [Agents -> Queries] /\ pc' \in [Agents -> Labels]
    BY <1>1, <1>3, SelectFacts
  <2>2. witness' \in [Agents -> [quiet : BOOLEAN, done : SUBSET NodeIds]]
    <3> DEFINE new == [quiet |-> TRUE, done |-> {n \in DOMAIN nodes : IsDone(n)}]
    <3>1. new \in [quiet : BOOLEAN, done : SUBSET NodeIds]
      BY <1>1, NodesFacts
    <3>2. witness' = [witness EXCEPT ![a] = new]
      BY <1>3 DEF SelectProjects
    <3> HIDE DEF new
    <3>3. QED BY <1>1, <3>1, <3>2 DEF TypeInv
  <2>3. UNCHANGED <<ledger, target, reply>>
    BY <1>3 DEF SelectProjects
  <2>4. QED BY <1>1, <2>1, <2>2, <2>3 DEF TypeInv, Agents, ledger
<1>4. ASSUME NEW a \in Agents, NEW q, NEW label, Asks(a, q, label)
      PROVE  TypeInv'
  BY <1>1, <1>4 DEF Asks, TypeInv, Agents, ledger
<1>5. ASSUME NEW a \in Agents, ReadContext(a) \/ ReadNodes(a) \/ LookUp(a) \/ RankProject(a)
      PROVE  \E q, label : Asks(a, q, label)
  BY <1>1, <1>5, ReadContextFacts, ReadNodesFacts, LookUpFacts, RankFacts
<1>6. ASSUME NEW a \in Agents, NoProjects(a) \/ LookUpFails(a) \/ ReadTree(a)
      PROVE  TypeInv'
  BY <1>1, <1>6, EndsFacts DEF TypeInv, Agents, ledger
<1>7. ASSUME NEW a \in Agents, AskLater(a)
      PROVE  TypeInv'
  BY <1>1, <1>7, AskLaterFacts DEF TypeInv, Agents, ledger
<1>8. CASE UNCHANGED vars
  BY <1>1, <1>8 DEF vars, ledger, TypeInv, Agents
<1>9. QED
  BY <1>2, <1>3, <1>4, <1>5, <1>6, <1>7, <1>8 DEF Next, AgentStep, Commits

(***************************************************************************)
(* The agents that do not take the step, when nothing is committed.        *)
(***************************************************************************)

LEMMA LedgerFrame ==
  ASSUME UNCHANGED <<ledger, target>>
  PROVE  /\ nodes' = nodes /\ guidance' = guidance /\ active' = active
         /\ \A n : IsDone(n)' <=> IsDone(n)
         /\ \A p : /\ Startable(p)' = Startable(p)
                   /\ RowsToDo(p)' = RowsToDo(p)
                   /\ Dangling(p)' <=> Dangling(p)
                   /\ MissingStages(p)' = MissingStages(p)
         /\ \A a, p : RightProject(a, p)' <=> RightProject(a, p)
<1>1. nodes' = nodes /\ guidance' = guidance /\ active' = active /\ target' = target
  BY DEF ledger
<1>2. \A n : IsDone(n)' <=> IsDone(n)
  BY <1>1 DEF IsDone
<1>3. \A p : Startable(p)' = Startable(p)
  BY <1>1, <1>2 DEF Startable
<1>4. \A p : RowsToDo(p)' = RowsToDo(p) /\ MissingStages(p)' = MissingStages(p)
  BY <1>1 DEF RowsToDo, MissingStages
<1>5. \A p : Dangling(p)' <=> Dangling(p)
  BY <1>1, <1>4 DEF Dangling
<1>6. \A a, p : RightProject(a, p)' <=> RightProject(a, p)
  BY <1>1, <1>3, <1>4 DEF RightProject
<1>7. QED BY <1>1, <1>2, <1>3, <1>4, <1>5, <1>6

LEMMA RightFrame ==
  ASSUME UNCHANGED <<ledger, target>>, NEW a, reply'[a] = reply[a], Right(a, reply[a])
  PROVE  Right(a, reply[a])'
<1>1. /\ nodes' = nodes /\ active' = active /\ target' = target
      /\ \A p : /\ Startable(p)' = Startable(p)
                /\ RowsToDo(p)' = RowsToDo(p)
                /\ Dangling(p)' <=> Dangling(p)
                /\ MissingStages(p)' = MissingStages(p)
                /\ RightProject(a, p)' <=> RightProject(a, p)
  BY LedgerFrame
<1>2. CASE reply[a].status = "no_projects"
  BY <1>1, <1>2 DEF Right
<1>3. CASE reply[a].status = "not_found"
  BY <1>1, <1>3 DEF Right
<1>4. CASE reply[a].status = "ready"
  BY <1>1, <1>4 DEF Right, RightNode
<1>5. CASE reply[a].status \notin {"no_projects", "not_found", "ready"}
  BY <1>1, <1>5 DEF Right
<1>6. QED BY <1>2, <1>3, <1>4, <1>5

LEMMA AgentFrame ==
  ASSUME IInv, NEW b \in Agents, UNCHANGED <<ledger, target>>,
         pc'[b] = pc[b], query'[b] = query[b], reply'[b] = reply[b],
         witness'[b] = witness[b]
  PROVE  AgentInv(b)'
<1>1. AgentInv(b)
  BY DEF IInv
<1>2. /\ nodes' = nodes /\ guidance' = guidance /\ active' = active /\ target' = target
      /\ \A n : IsDone(n)' <=> IsDone(n)
      /\ \A p : Startable(p)' = Startable(p) /\ RowsToDo(p)' = RowsToDo(p)
      /\ \A a, p : RightProject(a, p)' <=> RightProject(a, p)
  BY LedgerFrame
<1>3. Offered(b)'
  BY <1>1, <1>2 DEF AgentInv, Offered
<1>4. Fresh(b)'
  BY <1>1, <1>2 DEF AgentInv, Fresh
<1>5. ASSUME witness'[b].quiet PROVE Current(b)'
  <2>1. Current(b)
    BY <1>1, <1>5 DEF AgentInv
  <2>2. Ranked(b)' <=> Ranked(b)
    BY <1>2 DEF Ranked
  <2>3. pc[b] = "answered" => Right(b, reply[b])'
    BY <2>1, RightFrame DEF Current
  <2>4. CASE pc[b] = "nodes" \/ pc[b] = "lookups"
    <3>1. PICK p \in Projects : KnownOf(b, p)
      BY <2>1, <2>4 DEF Current
    <3>2. KnownOf(b, p)'
      BY <1>2, <2>2, <3>1 DEF KnownOf
    <3>3. QED BY <1>2, <2>1, <2>4, <3>2 DEF Current
  <2>5. CASE pc[b] \notin {"nodes", "lookups"}
    BY <1>2, <2>1, <2>2, <2>3, <2>5 DEF Current
  <2>6. QED BY <2>4, <2>5
<1>6. QED BY <1>3, <1>4, <1>5 DEF AgentInv

(***************************************************************************)
(* The steps, one by one.                                                  *)
(***************************************************************************)

LEMMA CommitsPreserve ==
  ASSUME IInv, Commits, NEW a \in Agents
  PROVE  AgentInv(a)'
<1>1. /\ AgentInv(a) /\ query'[a] = query[a] /\ DOMAIN nodes \subseteq DOMAIN nodes'
      /\ \/ pc'[a] = pc[a] /\ reply'[a] = reply[a]
         \/ /\ pc[a] = "answered" /\ reply[a].status = "ready"
            /\ pc'[a] = "working" /\ reply'[a] = reply[a]
         \/ pc'[a] = "idle"
  BY CommitsFacts DEF IInv
<1>2. CASE pc'[a] = "idle"
  BY <1>2 DEF AgentInv, Offered, Fresh, Current, Querying
<1>3. CASE pc'[a] # "idle"
  <2>1. /\ ~witness'[a].quiet
        /\ witness[a].done \subseteq witness'[a].done
        /\ {n \in DOMAIN nodes' : nodes'[n].status = "done"} \subseteq witness'[a].done
    BY <1>3, WitnessFacts
  <2>2. Offered(a)'
    BY <1>1, <1>3 DEF AgentInv, Offered
  <2>3. {n \in DOMAIN nodes' : IsDone(n)'} \subseteq witness'[a].done
    BY <2>1 DEF IsDone
  <2>4. Fresh(a)'
    BY <1>1, <1>3, <2>1, <2>3 DEF AgentInv, Fresh, Querying
  <2>5. QED BY <2>1, <2>2, <2>4 DEF AgentInv
<1>4. QED BY <1>2, <1>3

LEMMA SelectPreserves ==
  ASSUME IInv, NEW a \in Agents, SelectProjects(a)
  PROVE  AgentInv(a)'
<1>1. /\ pc'[a] = "context" /\ query'[a].undone = {}
      /\ IF target[a] # {}
         THEN query'[a].left = {} /\ DOMAIN query'[a].ranks = target[a]
         ELSE query'[a].left = active /\ DOMAIN query'[a].ranks = {}
      /\ witness'[a] = [quiet |-> TRUE, done |-> {n \in DOMAIN nodes : IsDone(n)}]
  BY SelectFacts DEF IInv
<1>2. UNCHANGED <<ledger, target>>
  BY DEF SelectProjects
<1>3. nodes' = nodes /\ active' = active /\ target' = target /\ \A n : IsDone(n)' <=> IsDone(n)
  BY <1>2, LedgerFrame
<1>4. Offered(a)' /\ Fresh(a)'
  BY <1>1, <1>3 DEF Offered, Fresh
<1>5. Current(a)'
  BY <1>1, <1>3 DEF Current, Ranked
<1>6. QED BY <1>4, <1>5 DEF AgentInv

\* The project whose payload is read next is the right one, if the ranks are.
LEMMA NextIsRight ==
  ASSUME IInv, NEW a \in Agents, Current(a), pc[a] = "context",
         NEW p \in Projects, IsNext(query[a], p)
  PROVE  /\ query[a].left = {} => RightProject(a, p)
         /\ query[a].left # {} =>
              /\ target[a] = {} /\ Ranked(a) /\ p \in query[a].left
              /\ active = query[a].left \cup DOMAIN query[a].ranks
<1> DEFINE q == query[a]
<1>1. CASE q.left # {}
  BY <1>1 DEF Current, IsNext
<1>2. CASE q.left = {} /\ target[a] # {}
  <2>1. p \in target[a]
    BY <1>2 DEF Current, IsNext
  <2>2. target[a] = {p}
    BY <2>1, TargetFacts DEF IInv
  <2>3. QED BY <1>2, <2>2 DEF RightProject
<1>3. CASE q.left = {} /\ target[a] = {}
  <2>1. /\ active = DOMAIN q.ranks /\ Ranked(a) /\ p \in active
        /\ \A other \in active : ~Better(q.ranks[other], q.ranks[p])
    BY <1>3 DEF Current, IsNext
  <2>2. ASSUME NEW r \in active
        PROVE  /\ q.ranks[r].ready = (Startable(r) # {})
               /\ q.ranks[r].unresolved = (RowsToDo(r) # {})
    <3> DEFINE rank == [ready |-> Startable(r) # {}, unresolved |-> RowsToDo(r) # {}]
    <3>1. q.ranks[r] = rank
      BY <2>1 DEF Ranked
    <3>2. rank.ready = (Startable(r) # {}) /\ rank.unresolved = (RowsToDo(r) # {})
      OBVIOUS
    <3> HIDE DEF rank
    <3>3. QED BY <3>1, <3>2
  <2>3. ASSUME Startable(p) = {}, NEW other \in active
        PROVE  Startable(other) = {}
    BY <2>1, <2>2, <2>3 DEF Better
  <2>4. \A r : Startable(r) \subseteq RowsToDo(r)
    BY DEF Startable, RowsToDo, Unfinished
  <2>5. ASSUME RowsToDo(p) = {}, NEW other \in active
        PROVE  RowsToDo(other) = {}
    <3>1. Startable(p) = {} /\ Startable(other) = {}
      BY <2>3, <2>4, <2>5
    <3>2. q.ranks[p].ready = FALSE /\ q.ranks[other].ready = FALSE
          /\ q.ranks[p].unresolved = FALSE
      BY <2>1, <2>2, <2>5, <3>1
    <3>3. q.ranks[other].unresolved # TRUE
      BY <2>1, <3>2 DEF Better
    <3>4. QED BY <2>2, <3>3
  <2>6. QED BY <1>3, <2>1, <2>3, <2>5 DEF RightProject
<1>4. QED BY <1>1, <1>2, <1>3

LEMMA ContextPreserves ==
  ASSUME IInv, NEW a \in Agents, ReadContext(a)
  PROVE  AgentInv(a)'
<1> DEFINE q == query[a]
<1>1. TypeInv /\ AgentInv(a) /\ pc[a] = "context"
  BY DEF IInv, ReadContext
<1>2. PICK p \in Projects, q2 \in Queries :
        /\ IsNext(q, p) /\ Asks(a, q2, "nodes")
        /\ q2.project = {p} /\ q2.guidance = guidance[p]
        /\ q2.left = q.left \ {p} /\ q2.selected = (q.left = {})
        /\ q.left # {} => q2.ranks = q.ranks
        /\ q2.undone = q.undone
  BY <1>1, ReadContextFacts
<1>3. /\ query'[a] = q2 /\ pc'[a] = "nodes" /\ witness'[a] = witness[a]
      /\ UNCHANGED <<ledger, target>>
  BY <1>2 DEF Asks
<1>4. /\ nodes' = nodes /\ guidance' = guidance /\ active' = active /\ target' = target
      /\ \A n : IsDone(n)' <=> IsDone(n)
      /\ \A r : Startable(r)' = Startable(r) /\ RowsToDo(r)' = RowsToDo(r)
      /\ RightProject(a, p)' <=> RightProject(a, p)
  BY <1>3, LedgerFrame
<1>5. Offered(a)' /\ Fresh(a)'
  BY <1>1, <1>3, <1>4 DEF AgentInv, Offered, Fresh, Querying
<1>6. ASSUME witness'[a].quiet PROVE Current(a)'
  <2>1. Current(a)
    BY <1>1, <1>3, <1>6 DEF AgentInv
  <2>2. /\ q.left = {} => RightProject(a, p)
        /\ q.left # {} => /\ target[a] = {} /\ Ranked(a) /\ p \in q.left
                          /\ active = q.left \cup DOMAIN q.ranks
    BY <1>1, <1>2, <2>1, NextIsRight
  <2>3. q.left # {} => Ranked(a)'
    BY <1>2, <1>3, <1>4, <2>2 DEF Ranked
  <2>4. KnownOf(a, p)'
    BY <1>2, <1>3, <1>4, <2>2, <2>3 DEF KnownOf
  <2>5. QED BY <1>1, <1>2, <1>3, <2>1, <2>4 DEF Current
<1>7. QED BY <1>5, <1>6 DEF AgentInv

LEMMA LookupsFacts ==
  ASSUME NEW rows
  PROVE  \A n, d : <<n, d>> \in Lookups(rows) <=> n \in DOMAIN rows /\ d \in rows[n].depends
BY DEF Lookups

LEMMA NodesPreserves ==
  ASSUME IInv, NEW a \in Agents, ReadNodes(a)
  PROVE  AgentInv(a)'
<1> DEFINE q == query[a]
<1>1. TypeInv /\ AgentInv(a) /\ pc[a] = "nodes"
  BY DEF IInv, ReadNodes
<1>2. PICK p \in q.project, q2 \in Queries :
        /\ Asks(a, q2, "lookups")
        /\ q2.rows = [n \in RowsToDo(p) |-> nodes[n]]
        /\ q2.lookups = Lookups(q2.rows)
        /\ q2.project = q.project /\ q2.guidance = q.guidance
        /\ q2.left = q.left /\ q2.selected = q.selected
        /\ q2.ranks = q.ranks /\ q2.undone = q.undone
  BY <1>1, ReadNodesFacts
<1>3. /\ query'[a] = q2 /\ pc'[a] = "lookups" /\ witness'[a] = witness[a]
      /\ UNCHANGED <<ledger, target>>
  BY <1>2 DEF Asks
<1>4. /\ nodes' = nodes /\ guidance' = guidance /\ active' = active /\ target' = target
      /\ \A n : IsDone(n)' <=> IsDone(n)
      /\ \A r : Startable(r)' = Startable(r) /\ RowsToDo(r)' = RowsToDo(r)
      /\ \A r : RightProject(a, r)' <=> RightProject(a, r)
  BY <1>3, LedgerFrame
<1>5. DOMAIN q2.rows = RowsToDo(p) /\ RowsToDo(p) \subseteq DOMAIN nodes
      /\ \A n \in RowsToDo(p) : q2.rows[n] = nodes[n]
  BY <1>2 DEF RowsToDo
<1>6. \A n \in RowsToDo(p) : \A d \in nodes[n].depends : <<n, d>> \in q2.lookups
  <2>1. \A n, d : <<n, d>> \in Lookups(q2.rows) <=> n \in DOMAIN q2.rows /\ d \in q2.rows[n].depends
    BY LookupsFacts
  <2>2. QED BY <1>2, <1>5, <2>1
<1>7. Offered(a)'
  BY <1>3, <1>4, <1>5 DEF Offered
<1>8. Fresh(a)'
  <2>1. {n \in DOMAIN nodes : IsDone(n)} \subseteq witness[a].done
    BY <1>1 DEF AgentInv, Fresh, Querying
  <2>2. \A n \in DOMAIN q2.rows : \A d \in q2.rows[n].depends : <<n, d>> \in q2.lookups
    BY <1>5, <1>6
  <2>3. QED BY <1>3, <1>4, <2>1, <2>2 DEF Fresh
<1>9. ASSUME witness'[a].quiet PROVE Current(a)'
  <2>1. Current(a)
    BY <1>1, <1>3, <1>9 DEF AgentInv
  <2>2. q.undone = {} /\ \E r \in Projects : KnownOf(a, r)
    BY <1>1, <2>1 DEF Current
  <2>3. p \in Projects /\ KnownOf(a, p)
    BY <2>2 DEF KnownOf
  <2>4. Ranked(a) => Ranked(a)'
    BY <1>2, <1>3, <1>4 DEF Ranked
  <2>5. {n \in RowsToDo(p) :
           \E d \in nodes[n].depends : <<n, d>> \notin q2.lookups /\ ~IsDone(d)} = {}
    BY <1>6
  <2>6. KnownOf(a, p)'
    <3>1. /\ q2.project = {p} /\ q2.guidance = guidance[p]
          /\ q2.selected => RightProject(a, p)
          /\ ~q2.selected =>
               /\ target[a] = {} /\ Ranked(a)
               /\ active = q2.left \cup DOMAIN q2.ranks \cup {p}
      BY <1>2, <2>3 DEF KnownOf
    <3>2. /\ q2.rows = [n \in RowsToDo(p) |-> nodes[n]]
          /\ q2.lookups \subseteq Lookups(q2.rows)
          /\ q2.undone = {n \in RowsToDo(p) :
               \E d \in nodes[n].depends : <<n, d>> \notin q2.lookups /\ ~IsDone(d)}
      BY <1>2, <2>2, <2>5
    <3>3. QED BY <1>3, <1>4, <2>4, <3>1, <3>2 DEF KnownOf
  <2>7. QED BY <1>3, <2>3, <2>6 DEF Current
<1>10. QED BY <1>7, <1>8, <1>9 DEF AgentInv

LEMMA LookUpPreserves ==
  ASSUME IInv, NEW a \in Agents, LookUp(a)
  PROVE  AgentInv(a)'
<1> DEFINE q == query[a]
<1>1. TypeInv /\ AgentInv(a)
  BY DEF IInv
<1>2. PICK n \in NodeIds, d \in Depended, q2 \in Queries :
        /\ <<n, d>> \in q.lookups
        /\ Asks(a, q2, "lookups") /\ pc[a] = "lookups"
        /\ q2.lookups = q.lookups \ {<<n, d>>}
        /\ q2.undone = IF IsDone(d) THEN q.undone ELSE q.undone \cup {n}
        /\ q2.rows = q.rows
        /\ q2.project = q.project /\ q2.guidance = q.guidance
        /\ q2.left = q.left /\ q2.selected = q.selected
        /\ q2.ranks = q.ranks
  BY <1>1, LookUpFacts
<1>3. /\ query'[a] = q2 /\ pc'[a] = "lookups" /\ witness'[a] = witness[a]
      /\ UNCHANGED <<ledger, target>>
  BY <1>2 DEF Asks
<1>4. /\ nodes' = nodes /\ guidance' = guidance /\ active' = active /\ target' = target
      /\ \A m : IsDone(m)' <=> IsDone(m)
      /\ \A r : Startable(r)' = Startable(r) /\ RowsToDo(r)' = RowsToDo(r)
      /\ \A r : RightProject(a, r)' <=> RightProject(a, r)
  BY <1>3, LedgerFrame
<1>5. Offered(a)'
  BY <1>1, <1>2, <1>3, <1>4 DEF AgentInv, Offered
<1>6. Fresh(a)'
  <2>1. {m \in DOMAIN nodes : IsDone(m)} \subseteq witness[a].done
    BY <1>1, <1>2 DEF AgentInv, Fresh, Querying
  <2>2. ASSUME NEW m \in DOMAIN q2.rows \ q2.undone, NEW e \in q2.rows[m].depends
        PROVE  <<m, e>> \in q2.lookups \/ e \in witness[a].done
    <3>1. m \in DOMAIN q.rows \ q.undone
      BY <1>2
    <3>2. <<m, e>> \in q.lookups \/ e \in witness[a].done
      BY <1>1, <1>2, <3>1 DEF AgentInv, Fresh
    <3>3. CASE m = n /\ e = d
      <4>1. IsDone(d)
        BY <1>2, <3>3
      <4>2. d \in DOMAIN nodes
        BY <4>1 DEF IsDone
      <4>3. QED BY <2>1, <3>3, <4>1, <4>2
    <3>4. CASE ~(m = n /\ e = d)
      BY <1>2, <3>2, <3>4
    <3>5. QED BY <3>3, <3>4
  <2>3. QED BY <1>3, <1>4, <2>1, <2>2 DEF Fresh
<1>7. ASSUME witness'[a].quiet PROVE Current(a)'
  <2>1. PICK p \in Projects : KnownOf(a, p)
    BY <1>1, <1>2, <1>3, <1>7 DEF AgentInv, Current
  <2>2. Ranked(a) => Ranked(a)'
    BY <1>2, <1>3, <1>4 DEF Ranked
  <2>3. /\ q.rows = [m \in RowsToDo(p) |-> nodes[m]]
        /\ q.lookups \subseteq Lookups(q.rows)
        /\ q.undone = {m \in RowsToDo(p) :
             \E e \in nodes[m].depends : <<m, e>> \notin q.lookups /\ ~IsDone(e)}
    BY <1>2, <2>1 DEF KnownOf
  <2>4. n \in RowsToDo(p) /\ d \in nodes[n].depends
    <3>1. n \in DOMAIN q.rows /\ d \in q.rows[n].depends
      BY <1>2, <2>3, LookupsFacts
    <3>2. QED BY <2>3, <3>1
  <2>5. q2.undone = {m \in RowsToDo(p) :
          \E e \in nodes[m].depends : <<m, e>> \notin q2.lookups /\ ~IsDone(e)}
    <3>1. \A m, e : <<m, e>> \notin q2.lookups <=> <<m, e>> \notin q.lookups \/ (m = n /\ e = d)
      BY <1>2
    <3>2. ASSUME NEW m \in RowsToDo(p)
          PROVE  m \in q2.undone <=>
                   \E e \in nodes[m].depends : <<m, e>> \notin q2.lookups /\ ~IsDone(e)
      <4>1. m \in q.undone <=>
              \E e \in nodes[m].depends : <<m, e>> \notin q.lookups /\ ~IsDone(e)
        BY <2>3
      <4>2. m \in q2.undone <=> m \in q.undone \/ (m = n /\ ~IsDone(d))
        BY <1>2
      <4>3. QED BY <2>4, <3>1, <4>1, <4>2
    <3>3. q2.undone \subseteq RowsToDo(p)
      BY <1>2, <2>3, <2>4
    <3>4. QED BY <3>2, <3>3
  <2>6. KnownOf(a, p)'
    <3>1. /\ q2.project = {p} /\ q2.guidance = guidance[p]
          /\ q2.selected => RightProject(a, p)
          /\ ~q2.selected =>
               /\ target[a] = {} /\ Ranked(a)
               /\ active = q2.left \cup DOMAIN q2.ranks \cup {p}
      BY <1>2, <2>1 DEF KnownOf
    <3>2. q2.rows = [m \in RowsToDo(p) |-> nodes[m]] /\ q2.lookups \subseteq Lookups(q2.rows)
      BY <1>2, <2>3
    <3>3. QED BY <1>3, <1>4, <2>2, <2>5, <3>1, <3>2 DEF KnownOf
  <2>7. QED BY <1>3, <2>6 DEF Current
<1>8. QED BY <1>5, <1>6, <1>7 DEF AgentInv

\* With every lookup made, the candidates that are ready are the nodes that
\* can be started.
LEMMA ReadyIsStartable ==
  ASSUME TypeInv, NEW a \in Agents, NEW p \in Projects, KnownOf(a, p),
         pc[a] = "lookups", query[a].lookups = {}
  PROVE  /\ Ready(query[a]) = Startable(p) /\ DOMAIN query[a].rows = RowsToDo(p)
         /\ \A n \in RowsToDo(p) : query[a].rows[n] = nodes[n]
<1> DEFINE q == query[a]
<1>1. /\ q.guidance = guidance[p]
      /\ q.rows = [n \in RowsToDo(p) |-> nodes[n]]
      /\ q.undone = {n \in RowsToDo(p) : \E d \in nodes[n].depends : ~IsDone(d)}
  BY DEF KnownOf
<1>2. DOMAIN q.rows = RowsToDo(p) /\ \A n \in RowsToDo(p) : q.rows[n] = nodes[n]
  BY <1>1
<1>3. \A n : n \in Ready(q) <=> n \in Startable(p)
  <2> TAKE n
  <2>1. n \in Ready(q) <=> /\ n \in RowsToDo(p) /\ \A d \in nodes[n].depends : IsDone(d)
                           /\ nodes[n].status # "blocked" /\ Guided(nodes[n], guidance[p])
    BY <1>1, <1>2 DEF Ready
  <2>2. n \in RowsToDo(p) <=> /\ n \in DOMAIN nodes /\ nodes[n].project = p
                              /\ nodes[n].status \in Unfinished
    BY DEF RowsToDo
  <2>3. \A status : status \in Unfinished /\ status # "blocked"
                     <=> status \in {"todo", "in_progress"}
    BY DEF Unfinished
  <2>4. QED BY <2>1, <2>2, <2>3 DEF Startable
<1>4. QED BY <1>2, <1>3

LEMMA RankPreserves ==
  ASSUME IInv, NEW a \in Agents, RankProject(a)
  PROVE  AgentInv(a)'
<1> DEFINE q == query[a]
<1>1. TypeInv /\ AgentInv(a)
  BY DEF IInv
<1>2. PICK p \in q.project, q2 \in Queries :
        /\ Asks(a, q2, "context")
        /\ pc[a] = "lookups" /\ q.lookups = {} /\ ~q.selected
        /\ q2.left = q.left /\ q2.undone = {}
        /\ DOMAIN q2.ranks = DOMAIN q.ranks \cup {p}
        /\ q2.ranks[p] = [ready |-> Ready(q) # {}, unresolved |-> DOMAIN q.rows # {}]
        /\ \A r \in DOMAIN q.ranks \ {p} : q2.ranks[r] = q.ranks[r]
  BY <1>1, RankFacts
<1>3. /\ query'[a] = q2 /\ pc'[a] = "context" /\ witness'[a] = witness[a]
      /\ UNCHANGED <<ledger, target>>
  BY <1>2 DEF Asks
<1>4. /\ nodes' = nodes /\ active' = active /\ target' = target
      /\ \A n : IsDone(n)' <=> IsDone(n)
      /\ \A r : Startable(r)' = Startable(r) /\ RowsToDo(r)' = RowsToDo(r)
  BY <1>3, LedgerFrame
<1>5. Offered(a)' /\ Fresh(a)'
  BY <1>1, <1>2, <1>3, <1>4 DEF AgentInv, Offered, Fresh, Querying
<1>6. ASSUME witness'[a].quiet PROVE Current(a)'
  <2>1. p \in Projects /\ KnownOf(a, p)
    <3>1. PICK r \in Projects : KnownOf(a, r)
      BY <1>1, <1>2, <1>3, <1>6 DEF AgentInv, Current
    <3>2. QED BY <3>1 DEF KnownOf
  <2>2. Ready(q) = Startable(p) /\ DOMAIN q.rows = RowsToDo(p)
    BY <1>1, <1>2, <2>1, ReadyIsStartable
  <2>3. target[a] = {} /\ Ranked(a) /\ active = q.left \cup DOMAIN q.ranks \cup {p}
    BY <1>2, <2>1 DEF KnownOf
  <2>4. ASSUME NEW r \in DOMAIN q2.ranks
        PROVE  q2.ranks[r] = [ready |-> Startable(r) # {}, unresolved |-> RowsToDo(r) # {}]
    <3>1. CASE r = p
      BY <1>2, <2>2, <3>1
    <3>2. CASE r # p
      <4>1. r \in DOMAIN q.ranks \ {p}
        BY <1>2, <3>2
      <4>2. QED BY <1>2, <2>3, <4>1 DEF Ranked
    <3>3. QED BY <3>1, <3>2
  <2>5. Ranked(a)'
    BY <1>3, <1>4, <2>4 DEF Ranked
  <2>6. QED BY <1>2, <1>3, <1>4, <2>3, <2>5 DEF Current
<1>7. QED BY <1>5, <1>6 DEF AgentInv

\* The three steps that end a query leave the ledger and the witness alone.
LEMMA AnswerPreserves ==
  ASSUME IInv, NEW a \in Agents, pc'[a] = "answered",
         UNCHANGED <<ledger, target, witness>>,
         reply'[a].status = "ready" =>
           /\ reply'[a].node \in DOMAIN nodes
           /\ reply'[a].depends \subseteq witness[a].done,
         witness[a].quiet => Right(a, reply[a])'
  PROVE  AgentInv(a)'
<1>1. nodes' = nodes
  BY LedgerFrame
<1>2. Offered(a)' /\ Fresh(a)'
  BY <1>1 DEF Offered, Fresh, Querying
<1>3. QED BY <1>2 DEF AgentInv, Current

LEMMA NoProjectsPreserves ==
  ASSUME IInv, NEW a \in Agents, NoProjects(a)
  PROVE  AgentInv(a)'
<1>1. TypeInv
  BY DEF IInv
<1>2. Answer(a, "no_projects", {}, Unknown)
  BY DEF NoProjects
<1>3. "no_projects" \in Answers /\ {} \in SUBSET Projects /\ Unknown \in Depended
  BY DEF Answers, Depended
<1>4. /\ pc'[a] = "answered" /\ reply'[a].status = "no_projects"
      /\ UNCHANGED <<ledger, target, witness>>
  BY <1>1, <1>2, <1>3, AnswerFacts
<1>5. active' = {} /\ target'[a] = {}
  BY <1>4 DEF NoProjects, ledger
<1>6. Right(a, reply[a])'
  BY <1>4, <1>5 DEF Right
<1>7. QED BY <1>4, <1>6, AnswerPreserves

\* A row whose dependency is missing is not found, if nothing was committed.
LEMMA LookUpFailsPreserves ==
  ASSUME IInv, NEW a \in Agents, LookUpFails(a)
  PROVE  AgentInv(a)'
<1> DEFINE q == query[a]
<1>1. TypeInv /\ AgentInv(a) /\ pc[a] = "lookups"
  BY DEF IInv, LookUpFails
<1>2. Answer(a, "not_found", q.project, Unknown)
  BY DEF LookUpFails
<1>3. "not_found" \in Answers /\ q.project \in SUBSET Projects /\ Unknown \in Depended
  BY <1>1, QueryFacts DEF Answers, Depended
<1>4. /\ pc'[a] = "answered" /\ reply'[a].status = "not_found"
      /\ UNCHANGED <<ledger, target, witness>>
  BY <1>1, <1>2, <1>3, AnswerFacts
<1>5. PICK l \in q.lookups : l[2] \notin DOMAIN nodes
  BY DEF LookUpFails, FirstLookups
<1>6. ASSUME witness[a].quiet PROVE Right(a, reply[a])'
  <2>1. PICK p \in Projects : KnownOf(a, p)
    BY <1>1, <1>6 DEF AgentInv, Current
  <2>2. Dangling(p)
    <3>1. PICK n \in NodeIds, d \in Depended : l = <<n, d>>
      BY <1>1, <1>5, QueryFacts
    <3>2. q.rows = [m \in RowsToDo(p) |-> nodes[m]] /\ <<n, d>> \in Lookups(q.rows)
      BY <1>1, <1>5, <2>1, <3>1 DEF KnownOf
    <3>3. n \in DOMAIN q.rows /\ d \in q.rows[n].depends
      BY <3>2, LookupsFacts
    <3>4. QED BY <1>5, <3>1, <3>2, <3>3 DEF Dangling
  <2>3. p \in IF target[a] = {} THEN active ELSE target[a]
    BY <2>1 DEF KnownOf, RightProject
  <2>4. active' = active /\ target' = target /\ (Dangling(p)' <=> Dangling(p))
    BY <1>4, LedgerFrame
  <2>5. QED BY <1>4, <2>2, <2>3, <2>4 DEF Right
<1>7. QED BY <1>4, <1>6, AnswerPreserves

LEMMA ReadTreePreserves ==
  ASSUME IInv, NEW a \in Agents, ReadTree(a)
  PROVE  AgentInv(a)'
<1> DEFINE q == query[a]
<1>1. TypeInv /\ AgentInv(a)
  BY DEF IInv
<1>2. PICK p \in q.project :
        /\ pc[a] = "lookups" /\ q.lookups = {} /\ q.selected
        /\ \/ \E n \in Ready(q) :
                /\ \A other \in Ready(q) : ~Before(q.rows, other, n)
                /\ Answer(a, "ready", {p}, n)
                /\ n \in DOMAIN q.rows \ q.undone
                /\ n \in NodeIds /\ n \in Depended /\ n # Unknown
           \/ \E status \in {"incomplete", "blocked", "complete"} :
                /\ Answer(a, status, {p}, Unknown)
                /\ Ready(q) = {}
                /\ (status = "incomplete") = (MissingStages(p) # {})
                /\ status = "complete" => DOMAIN q.rows = {}
                /\ status = "blocked" => DOMAIN q.rows # {}
  BY <1>1, ReadTreeFacts
<1>3. {p} \in SUBSET Projects
  BY <1>1, QueryFacts
<1>4. ASSUME witness[a].quiet
      PROVE  /\ RightProject(a, p)
             /\ Ready(q) = Startable(p) /\ DOMAIN q.rows = RowsToDo(p)
             /\ \A n \in RowsToDo(p) : q.rows[n] = nodes[n]
  <2>1. PICK r \in Projects : KnownOf(a, r)
    BY <1>1, <1>2, <1>4 DEF AgentInv, Current
  <2>2. KnownOf(a, p) /\ p \in Projects
    BY <2>1 DEF KnownOf
  <2>3. RightProject(a, p)
    BY <1>2, <2>2 DEF KnownOf
  <2>4. QED BY <1>1, <1>2, <2>2, <2>3, ReadyIsStartable
<1>5. ASSUME NEW n \in Ready(q),
             \A other \in Ready(q) : ~Before(q.rows, other, n),
             Answer(a, "ready", {p}, n), n \in DOMAIN q.rows \ q.undone,
             n \in NodeIds, n \in Depended, n # Unknown
      PROVE  AgentInv(a)'
  <2>1. "ready" \in Answers
    BY DEF Answers
  <2>2. /\ pc'[a] = "answered" /\ reply'[a].status = "ready"
        /\ reply'[a].project = {p} /\ reply'[a].node = n
        /\ reply'[a].depends = Depends(q, n)
        /\ UNCHANGED <<ledger, target, witness>>
    <3>1. n \in DOMAIN query[a].rows /\ n \in Depended /\ Answer(a, "ready", {p}, n)
      BY <1>5
    <3>2. PICK status \in Answers, project \in SUBSET Projects :
            status = "ready" /\ project = {p}
      BY <1>3, <2>1
    <3>3. Answer(a, status, project, n)
      BY <3>1, <3>2
    <3>4. /\ pc'[a] = "answered" /\ reply'[a].status = status
          /\ reply'[a].project = project /\ reply'[a].node = n
          /\ reply'[a].depends = Depends(query[a], n)
          /\ UNCHANGED <<ledger, target, witness>>
      BY <1>1, <3>1, <3>3, AnswerFacts
    <3>5. QED BY <3>2, <3>4
  <2>3. n \in DOMAIN nodes
    BY <1>1, <1>2, <1>5 DEF AgentInv, Offered
  <2>4. Depends(q, n) \subseteq witness[a].done
    <3>1. Depends(q, n) = q.rows[n].depends
      BY <1>5 DEF Depends
    <3>2. QED BY <1>1, <1>2, <1>5, <3>1 DEF AgentInv, Fresh
  <2>5. ASSUME witness[a].quiet PROVE Right(a, reply[a])'
    <3>1. RightNode(p, n)
      <4>1. n \in Startable(p) /\ \A m \in Startable(p) : ~Before(q.rows, m, n)
        BY <1>4, <1>5, <2>5
      <4>2. \A m \in Startable(p) : /\ q.rows[m] = nodes[m] /\ m \in Nat
                                    /\ nodes[m].status \in {"todo", "in_progress"}
        <5>1. Startable(p) \subseteq RowsToDo(p) /\ RowsToDo(p) \subseteq NodeIds
          BY <1>1, NodesFacts DEF Startable, RowsToDo, Unfinished
        <5>2. NodeIds \subseteq Nat
          BY BoundsAssumption DEF NodeIds
        <5>3. QED BY <1>4, <2>5, <5>1, <5>2 DEF Startable
      <4>3. ASSUME NEW m \in Startable(p)
            PROVE  /\ nodes[n].status = "todo" => nodes[m].status = "todo"
                   /\ nodes[n].status = nodes[m].status => n <= m
        <5>1. ~(Rank(nodes[m].status) < Rank(nodes[n].status))
              /\ ~(Rank(nodes[m].status) = Rank(nodes[n].status) /\ m < n)
          BY <4>1, <4>2, <4>3 DEF Before
        <5>2. Rank("in_progress") = 0 /\ Rank("todo") = 1
          BY DEF Rank
        <5>3. n \in Nat /\ m \in Nat /\ nodes[n].status \in {"todo", "in_progress"}
              /\ nodes[m].status \in {"todo", "in_progress"}
          BY <4>1, <4>2, <4>3
        <5> HIDE DEF Rank
        <5>4. nodes[n].status = "todo" => nodes[m].status = "todo"
          BY <5>1, <5>2, <5>3
        <5>5. nodes[n].status = nodes[m].status => n <= m
          BY <5>1, <5>3
        <5>6. QED BY <5>4, <5>5
      <4>4. QED BY <4>1, <4>3 DEF RightNode
    <3>2. /\ nodes' = nodes /\ Startable(p)' = Startable(p)
          /\ RightProject(a, p)' <=> RightProject(a, p)
      BY <2>2, LedgerFrame
    <3>3. RightNode(p, n)'
      BY <3>1, <3>2 DEF RightNode
    <3>4. QED BY <1>4, <2>2, <2>5, <3>2, <3>3 DEF Right
  <2>6. QED BY <2>2, <2>3, <2>4, <2>5, AnswerPreserves
<1>6. ASSUME NEW status \in {"incomplete", "blocked", "complete"},
             Answer(a, status, {p}, Unknown), Ready(q) = {},
             (status = "incomplete") = (MissingStages(p) # {}),
             status = "complete" => DOMAIN q.rows = {},
             status = "blocked" => DOMAIN q.rows # {}
      PROVE  AgentInv(a)'
  <2>1. status \in Answers /\ Unknown \in Depended
    BY DEF Answers, Depended
  <2>2. /\ pc'[a] = "answered" /\ reply'[a].status = status
        /\ reply'[a].project = {p}
        /\ UNCHANGED <<ledger, target, witness>>
    BY <1>1, <1>3, <1>6, <2>1, AnswerFacts, ZenonT(30)
  <2>3. ASSUME witness[a].quiet PROVE Right(a, reply[a])'
    <3>1. /\ Startable(p)' = Startable(p) /\ RowsToDo(p)' = RowsToDo(p)
          /\ MissingStages(p)' = MissingStages(p)
          /\ RightProject(a, p)' <=> RightProject(a, p)
      BY <2>2, LedgerFrame
    <3>2. /\ RightProject(a, p) /\ Startable(p) = {}
          /\ status = "complete" => RowsToDo(p) = {}
          /\ status = "blocked" => RowsToDo(p) # {}
      BY <1>4, <1>6, <2>3
    <3>3. QED BY <1>6, <2>2, <3>1, <3>2 DEF Right
  <2>4. QED BY <2>2, <2>3, AnswerPreserves
<1>7. QED BY <1>2, <1>5, <1>6

(***************************************************************************)
(* The invariant.                                                          *)
(***************************************************************************)

LEMMA InitIsInv == Init => IInv
<1> SUFFICES ASSUME Init PROVE IInv
  OBVIOUS
<1>1. TypeInv
  <2>1. target \in Sessions /\ active \in SUBSET Projects
    BY DEF Init
  <2>2. nodes \in Tables
    <3>1. PICK n \in 0..MaxNodes :
            nodes \in [1..n -> [project : Projects, stage : Stages, status : Statuses,
                                depends : SUBSET (NodeIds \cup {Unknown})]]
      BY BoundsAssumption DEF Init
    <3>2. nodes \in [1..n -> Rows]
      BY <3>1 DEF Rows, Depended
    <3>3. 1..n \in SUBSET NodeIds
      BY BoundsAssumption DEF NodeIds
    <3>4. QED BY <3>2, <3>3, PartialFacts DEF Tables
  <2>3. guidance \in [Projects -> Guidance]
    <3>1. {} \in Guidance /\ {Downstream} \in Guidance
      BY DEF Guidance
    <3>2. QED BY <3>1 DEF Init
  <2>4. pc \in [Agents -> Labels]
    BY DEF Init, Labels
  <2>5. query \in [Agents -> Queries]
    <3>1. Blank \in Queries
      BY BlankFacts
    <3> HIDE DEF Blank
    <3>2. QED BY <3>1 DEF Init
  <2>6. reply \in [Agents -> Replies]
    <3>1. NoReply \in Replies
      BY DEF NoReply, Replies, Answers, Depended
    <3> HIDE DEF NoReply
    <3>2. QED BY <3>1 DEF Init
  <2>7. witness \in [Agents -> [quiet : BOOLEAN, done : SUBSET NodeIds]]
    <3>1. Forgotten \in [quiet : BOOLEAN, done : SUBSET NodeIds]
      BY DEF Forgotten
    <3> HIDE DEF Forgotten
    <3>2. QED BY <3>1 DEF Init
  <2>8. QED BY <2>1, <2>2, <2>3, <2>4, <2>5, <2>6, <2>7 DEF TypeInv
<1>2. \A a \in Agents : pc[a] = "idle"
  BY DEF Init
<1>3. \A a \in Agents : AgentInv(a)
  BY <1>2 DEF AgentInv, Offered, Fresh, Current, Querying
<1>4. QED BY <1>1, <1>3 DEF IInv

LEMMA StepKeepsInv == IInv /\ [Next]_vars => IInv'
<1> SUFFICES ASSUME IInv, [Next]_vars PROVE IInv'
  OBVIOUS
<1>1. TypeInv' /\ TypeInv
  BY TypePreserved DEF IInv
<1>2. Agents' = Agents
  BY DEF Next, OtherCommand, AgentStep, SelectProjects, NoProjects, ReadContext, ReadNodes,
         LookUp, LookUpFails, RankProject, ReadTree, Take, Finish, AskLater, Answer, Reading,
         vars, Agents
<1>3. SUFFICES ASSUME NEW b \in Agents PROVE AgentInv(b)'
  BY <1>1, <1>2 DEF IInv
<1>4. CASE Commits
  BY <1>4, CommitsPreserve
<1>5. ASSUME NEW a \in Agents, SelectProjects(a) PROVE AgentInv(b)'
  <2>1. CASE b = a
    BY <1>5, <2>1, SelectPreserves
  <2>2. CASE b # a
    <3>1. UNCHANGED <<pc[b], query[b], reply[b], witness[b]>>
      BY <1>1, <1>5, <2>2, SelectFacts
    <3>2. UNCHANGED <<ledger, target>>
      BY <1>5 DEF SelectProjects
    <3>3. QED BY <3>1, <3>2, AgentFrame
  <2>3. QED BY <2>1, <2>2
<1>6. ASSUME NEW a \in Agents, b # a,
             ReadContext(a) \/ ReadNodes(a) \/ LookUp(a) \/ RankProject(a)
      PROVE  AgentInv(b)'
  <2>1. PICK q, label : Asks(a, q, label)
    BY <1>1, <1>6, ReadContextFacts, ReadNodesFacts, LookUpFacts, RankFacts
  <2>2. QED BY <1>6, <2>1, AgentFrame DEF Asks
<1>7. ASSUME NEW a \in Agents, b # a, NoProjects(a) \/ LookUpFails(a) \/ ReadTree(a)
      PROVE  AgentInv(b)'
  BY <1>7, EndsFacts, AgentFrame
<1>8. ASSUME NEW a \in Agents, AskLater(a) PROVE AgentInv(b)'
  <2>1. /\ pc'[a] = "idle" /\ UNCHANGED <<ledger, target, query>>
        /\ b # a => pc'[b] = pc[b] /\ reply'[b] = reply[b] /\ witness'[b] = witness[b]
    BY <1>1, <1>8, AskLaterFacts
  <2>2. CASE b = a
    BY <2>1, <2>2 DEF AgentInv, Offered, Fresh, Current, Querying
  <2>3. CASE b # a
    BY <2>1, <2>3, AgentFrame
  <2>4. QED BY <2>2, <2>3
<1>9. CASE UNCHANGED vars
  BY <1>9, AgentFrame DEF vars, ledger
<1>10. ASSUME NEW a \in Agents, AgentStep(a), ~Commits PROVE AgentInv(b)'
  BY <1>5, <1>6, <1>7, <1>8, <1>10, ContextPreserves, NodesPreserves, LookUpPreserves,
     RankPreserves, NoProjectsPreserves, LookUpFailsPreserves, ReadTreePreserves
     DEF AgentStep, Commits
<1>11. QED BY <1>4, <1>9, <1>10 DEF Next, Commits

\* What an agent has been offered, what its query has seen to be done and what
\* it knows of a quiet ledger, at every step of resume and between its SELECTs.
THEOREM Inductive == Spec => []IInv
<1>1. Init => IInv
  BY InitIsInv
<1>2. IInv /\ [Next]_vars => IInv'
  BY StepKeepsInv
<1>3. QED BY <1>1, <1>2, PTL DEF Spec

\* next_work_payload and resume: whatever other commands commit between the
\* SELECTs, an offered node only depends on nodes that were done at some moment
\* since the query began.
THEOREM OffersAreFresh == Spec => []OfferIsFresh
<1>1. IInv => OfferIsFresh
  BY DEF IInv, AgentInv, Fresh, OfferIsFresh
<1>2. QED BY <1>1, Inductive, PTL

\* If nothing was committed meanwhile, the answer of resume is right: the
\* project, the node, or the reason why there is none.
THEOREM AnswersAreCurrent == Spec => []AnswerIsCurrent
<1>1. IInv => AnswerIsCurrent
  BY DEF IInv, AgentInv, Current, AnswerIsCurrent
<1>2. QED BY <1>1, Inductive, PTL
==============================================================================

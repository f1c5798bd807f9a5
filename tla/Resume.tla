-------------------------------- MODULE Resume --------------------------------
(***************************************************************************)
(* The working loop of the autoswe CLI: an agent asks resume what to do,   *)
(* marks the node it is offered as in progress, does the work and marks it *)
(* as done.  resume reads the ledger with one SELECT after the other, and  *)
(* the commands of others commit between them.  Such a command is one step *)
(* here: that it is atomic is what DecisionLedger is about.                *)
(*                                                                         *)
(* Nodes are numbered in the order they are created; their ids can be      *)
(* chosen, so a node may depend on one that does not exist yet.  There are *)
(* no open questions (question open is disabled).                          *)
(***************************************************************************)
EXTENDS Naturals, FiniteSets, Sequences

CONSTANTS
  Sessions,        \* agents at work, each given by its --project, if any
  Projects,        \* numbered in the order they are created
  MaxNodes,        \* bound: nodes in the ledger
  MaxCommands,     \* bound: commands of others
  Ledgers,         \* nodes that are there when the agents start
  Dependencies     \* what --depends-on-json of others may hold

Unknown == 0                   \* an id that no node ever gets
NodeIds == 1..MaxNodes

Canonical  == {"design"}           \* SOFTWARE_DESIGN_STAGE_SEQUENCE
Downstream == {"implementation"}   \* DOWNSTREAM_IMPLEMENTATION_STAGES
Stages     == Canonical \cup Downstream
Unfinished == {"todo", "in_progress", "blocked"}
Statuses   == Unfinished \cup {"done"}

\* What the newest approved implementation_discovery artifact with a mandatory
\* context says: the stages with guidance, if there is such an artifact.
Guidance == {{}} \cup {{per_step} : per_step \in SUBSET Downstream}

Row(project, stage, status, depends) ==
  [project |-> project, stage |-> stage, status |-> status, depends |-> depends]

VARIABLES
  nodes,           \* table design_nodes
  guidance,        \* for each project
  active,          \* projects that are not archived
  commands,        \* commands of others so far
  pc,
  target,          \* the agents: the project each resumes, if it is given
  query,           \* what resume has read so far
  reply,           \* what it has answered
  witness          \* history: what has happened since the query began

ledger == <<nodes, guidance, active>>
vars   == <<ledger, commands, pc, target, query, reply, witness>>

\* The documents: one active agent per project.
ASSUME BoundsAssumption ==
  /\ Projects \subseteq Nat
  /\ Sessions \subseteq Seq({{}} \cup {{q} : q \in Projects})
  /\ \A s \in Sessions : \A a, b \in DOMAIN s :
       a # b => s[a] # {} /\ s[b] # {} /\ s[a] # s[b]
  /\ MaxNodes \in Nat /\ MaxCommands \in Nat
  /\ \A l \in Ledgers : \E n \in 0..MaxNodes :
       l \in [1..n -> [project : Projects, stage : Stages, status : Statuses,
                       depends : SUBSET (NodeIds \cup {Unknown})]]
  /\ Dependencies \subseteq SUBSET (NodeIds \cup {Unknown})

NoRows    == [n \in {} |-> Unknown]
Blank     == [left |-> {}, ranks |-> NoRows, project |-> {}, guidance |-> {},
              rows |-> NoRows, lookups |-> {}, undone |-> {}, selected |-> FALSE]
Unranked  == [ready |-> FALSE, unresolved |-> FALSE]
NoReply   == [status |-> "none", project |-> {}, node |-> Unknown,
              depends |-> {}]
Forgotten == [quiet |-> TRUE, done |-> {}]

Agents == DOMAIN target

IsDone(n) == n \in DOMAIN nodes /\ nodes[n].status = "done"

Init ==
  /\ nodes \in Ledgers
  /\ \E g \in {{}, {Downstream}} : guidance = [q \in Projects |-> g]
  /\ active = Projects
  /\ commands = 0
  /\ target \in Sessions
  /\ pc = [a \in Agents |-> "idle"]
  /\ query = [a \in Agents |-> Blank]
  /\ reply = [a \in Agents |-> NoReply]
  /\ witness = [a \in Agents |-> Forgotten]

(***************************************************************************)
(* Commands that commit: those of others, and node update-status of the    *)
(* agents themselves.                                                      *)
(***************************************************************************)

\* Every query that is being answered sees that something was committed.
Committed ==
  witness' = [a \in Agents |->
    IF pc'[a] = "idle" THEN Forgotten
    ELSE [quiet |-> FALSE,
          done  |-> witness[a].done \cup {n \in DOMAIN nodes' :
                                            nodes'[n].status = "done"}]]

Put(n, row) ==
  nodes' = [m \in DOMAIN nodes \cup {n} |-> IF m = n THEN row ELSE nodes[m]]

NodeCreate ==
  \E n \in NodeIds, q \in Projects, s \in Stages, t \in Statuses,
     d \in Dependencies :
    /\ n = Cardinality(DOMAIN nodes) + 1
    /\ Put(n, Row(q, s, t, d))
    /\ UNCHANGED <<guidance, active>>

NodeUpdate ==
  \E n \in DOMAIN nodes, s \in Stages :
    /\ \E d \in Dependencies \cup {nodes[n].depends} :
         Put(n, [nodes[n] EXCEPT !.stage = s, !.depends = d])
    /\ UNCHANGED <<guidance, active>>

NodeUpdateStatus(n, status) ==
  /\ Put(n, [nodes[n] EXCEPT !.status = status])
  /\ UNCHANGED <<guidance, active>>

\* artifact add, update and approve of an implementation_discovery artifact.
ArtifactChange ==
  /\ \E q \in Projects, g \in Guidance : guidance' = [guidance EXCEPT ![q] = g]
  /\ UNCHANGED <<nodes, active>>

\* project update --status.
ProjectUpdate ==
  /\ \E q \in Projects : active' \in {active \cup {q}, active \ {q}}
  /\ UNCHANGED <<nodes, guidance>>

OtherCommand ==
  /\ commands < MaxCommands
  /\ commands' = commands + 1
  /\ \/ NodeCreate \/ NodeUpdate \/ ArtifactChange \/ ProjectUpdate
     \/ \E n \in DOMAIN nodes, s \in Statuses :
          NodeUpdateStatus(n, s)
  /\ UNCHANGED <<pc, target, query, reply>>
  /\ Committed

(***************************************************************************)
(* resume.                                                                 *)
(***************************************************************************)

Goto(a, label) == pc' = [pc EXCEPT ![a] = label]
Ask(a, q)      == query' = [query EXCEPT ![a] = q]

\* Only reads.
Reading == UNCHANGED <<ledger, commands, target, reply, witness>>

\* What is printed with an offered node.
Depends(q, node) == IF node = Unknown THEN {} ELSE q.rows[node].depends

Answer(a, status, project, node) ==
  /\ reply' = [reply EXCEPT ![a] = [status |-> status, project |-> project,
                                    node |-> node,
                                    depends |-> Depends(query[a], node)]]
  /\ Ask(a, Blank)
  /\ Goto(a, "answered")
  /\ UNCHANGED <<ledger, commands, target, witness>>

\* select_resume_project: the project of the command line or of the workspace,
\* or else all active projects, to be ranked.
SelectProjects(a) ==
  /\ pc[a] = "idle"
  /\ target[a] # {} \/ active # {}
  /\ Ask(a, IF target[a] # {}
            THEN [Blank EXCEPT !.ranks = [p \in target[a] |-> Unranked]]
            ELSE [Blank EXCEPT !.left = active])
  /\ Goto(a, "context")
  /\ witness' = [witness EXCEPT ![a] =
                   [quiet |-> TRUE, done |-> {n \in DOMAIN nodes : IsDone(n)}]]
  /\ UNCHANGED <<ledger, commands, target, reply>>

\* Broken variant: it does not matter whether there is anything to do.
BetterUnresolved(r1, r2) == r1.unresolved /\ ~r2.unresolved

\* Of two ranks the one that sorts first; equal ones are told apart by their
\* last activity.
Better(r1, r2) ==
  \/ r1.ready /\ ~r2.ready
  \/ r1.ready = r2.ready /\ r1.unresolved /\ ~r2.unresolved

\* The project whose payload is read next: of those to rank the newest, and
\* after them one that ranks first.
IsNext(q, p) ==
  IF q.left # {} THEN p \in q.left /\ \A other \in q.left : other <= p
  ELSE p \in DOMAIN q.ranks
         /\ \A other \in DOMAIN q.ranks : ~Better(q.ranks[other], q.ranks[p])

\* next_work_payload: resolve_mandatory_implementation_context.
ReadContext(a) ==
  LET q == query[a]
  IN  /\ pc[a] = "context"
      /\ \E p \in Projects :
           /\ IsNext(q, p)
           /\ Ask(a, [q EXCEPT !.project = {p}, !.left = @ \ {p},
                               !.selected = q.left = {},
                               !.guidance = guidance[p],
                               !.ranks = IF q.left = {} THEN NoRows ELSE @])
      /\ Goto(a, "nodes")
      /\ Reading

RowsToDo(p) == {n \in DOMAIN nodes : nodes[n].project = p
                                       /\ nodes[n].status \in Unfinished}

\* Broken variant: what is in progress is not looked up again.
LookupsOfTodo(rows) ==
  UNION {{<<n, d>> : d \in rows[n].depends}
           : n \in {m \in DOMAIN rows : rows[m].status # "in_progress"}}

Lookups(rows) == UNION {{<<n, d>> : d \in rows[n].depends} : n \in DOMAIN rows}

ReadNodes(a) ==
  /\ pc[a] = "nodes"
  /\ \E p \in query[a].project :
       LET rows == [n \in RowsToDo(p) |-> nodes[n]]
       IN  Ask(a, [query[a] EXCEPT !.rows = rows, !.lookups = Lookups(rows)])
  /\ Goto(a, "lookups")
  /\ Reading

\* Broken variant: the order of creation alone.
BeforeByCreation(rows, m, n) == m < n

\* ORDER BY: what is in progress, what is to do, what is blocked, each in the
\* order of creation.
Rank(status) == CASE status = "in_progress" -> 0 [] status = "todo" -> 1
                  [] OTHER -> 2

Before(rows, m, n) ==
  \/ Rank(rows[m].status) < Rank(rows[n].status)
  \/ Rank(rows[m].status) = Rank(rows[n].status) /\ m < n

\* The lookups of the first row that has some left.
FirstLookups(q) ==
  {l \in q.lookups : \A other \in q.lookups : ~Before(q.rows, other[1], l[1])}

LookUp(a) ==
  /\ pc[a] = "lookups"
  /\ \E l \in FirstLookups(query[a]) :
       /\ l[2] \in DOMAIN nodes
       /\ Ask(a, [query[a] EXCEPT
            !.lookups = @ \ {l},
            !.undone  = IF IsDone(l[2]) THEN @ ELSE @ \cup {l[1]}])
  /\ UNCHANGED pc
  /\ Reading

\* Database.one: record not found.
LookUpFails(a) ==
  /\ pc[a] = "lookups"
  /\ \E l \in FirstLookups(query[a]) : l[2] \notin DOMAIN nodes
  /\ Answer(a, "not_found", query[a].project, Unknown)

NoProjects(a) ==
  /\ pc[a] = "idle"
  /\ target[a] = {} /\ active = {}
  /\ Answer(a, "no_projects", {}, Unknown)

Guided(row, context) ==
  row.stage \in Downstream => \E per_step \in context : row.stage \in per_step

\* The candidates that are ready.
Ready(q) ==
  {n \in DOMAIN q.rows \ q.undone : q.rows[n].status # "blocked"
                                      /\ Guided(q.rows[n], q.guidance)}

\* All candidates of a project that is only ranked are known.
RankProject(a) ==
  LET q == query[a]
  IN  /\ pc[a] = "lookups" /\ q.lookups = {} /\ ~q.selected
      /\ \E p \in q.project :
           Ask(a, [Blank EXCEPT !.left = q.left,
             !.ranks = [r \in DOMAIN q.ranks \cup {p} |->
                          IF r = p THEN [ready      |-> Ready(q) # {},
                                         unresolved |-> DOMAIN q.rows # {}]
                          ELSE q.ranks[r]]])
      /\ Goto(a, "context")
      /\ Reading

MissingStages(p) ==
  Canonical \ {nodes[n].stage : n \in {m \in DOMAIN nodes : nodes[m].project = p}}

\* The tree is read last, and the answer is printed.
ReadTree(a) ==
  LET q == query[a]
  IN  /\ pc[a] = "lookups" /\ q.lookups = {} /\ q.selected
      /\ \E p \in q.project :
           IF Ready(q) # {}
           THEN \E n \in Ready(q) :
                  /\ \A other \in Ready(q) : ~Before(q.rows, other, n)
                  /\ Answer(a, "ready", {p}, n)
           ELSE Answer(a, IF MissingStages(p) # {} THEN "incomplete"
                          ELSE IF DOMAIN q.rows # {} THEN "blocked"
                          ELSE "complete", {p}, Unknown)

(***************************************************************************)
(* What the agent does with the answer.                                    *)
(***************************************************************************)

Take(a) ==
  /\ pc[a] = "answered" /\ reply[a].status = "ready"
  /\ NodeUpdateStatus(reply[a].node, "in_progress")
  /\ Goto(a, "working")
  /\ Committed
  /\ UNCHANGED <<commands, target, query, reply>>

Finish(a) ==
  /\ pc[a] = "working"
  /\ NodeUpdateStatus(reply[a].node, "done")
  /\ reply' = [reply EXCEPT ![a] = NoReply]
  /\ Goto(a, "idle")
  /\ Committed
  /\ UNCHANGED <<commands, target, query>>

\* There is nothing to do for now.
AskLater(a) ==
  /\ pc[a] = "answered" /\ reply[a].status # "ready"
  /\ reply' = [reply EXCEPT ![a] = NoReply]
  /\ witness' = [witness EXCEPT ![a] = Forgotten]
  /\ Goto(a, "idle")
  /\ UNCHANGED <<ledger, commands, target, query>>

AgentStep(a) ==
  \/ SelectProjects(a) \/ NoProjects(a)
  \/ ReadContext(a) \/ ReadNodes(a) \/ LookUp(a) \/ LookUpFails(a)
  \/ RankProject(a) \/ ReadTree(a)
  \/ Take(a) \/ Finish(a) \/ AskLater(a)

Next == OtherCommand \/ \E a \in Agents : AgentStep(a)

Spec == Init /\ [][Next]_vars

\* The agents go on; the others may stop at any time.
FairSpec == Spec /\ \A a \in 1..Cardinality(Projects) :
                      WF_vars(a \in Agents /\ AgentStep(a))

(***************************************************************************)
(* Properties.                                                             *)
(***************************************************************************)

\* The answers that are right for a ledger nobody is changing, without asking
\* how resume finds them.
Startable(p) ==
  {n \in DOMAIN nodes : /\ nodes[n].project = p
                        /\ nodes[n].status \in {"todo", "in_progress"}
                        /\ \A d \in nodes[n].depends : IsDone(d)
                        /\ Guided(nodes[n], guidance[p])}

Dangling(p) == \E n \in RowsToDo(p) : ~(nodes[n].depends \subseteq DOMAIN nodes)

RightProject(a, p) ==
  IF target[a] # {} THEN target[a] = {p}
  ELSE /\ p \in active
       /\ Startable(p) = {} => \A q \in active : Startable(q) = {}
       /\ RowsToDo(p) = {} => \A q \in active : RowsToDo(q) = {}

RightNode(p, n) ==
  /\ n \in Startable(p)
  /\ \A m \in Startable(p) :
       /\ nodes[n].status = "todo" => nodes[m].status = "todo"
       /\ nodes[n].status = nodes[m].status => n <= m

Right(a, answer) ==
  CASE answer.status = "no_projects" -> target[a] = {} /\ active = {}
    [] answer.status = "not_found" ->
         \E p \in IF target[a] = {} THEN active ELSE target[a] : Dangling(p)
    [] OTHER ->
         \E p \in answer.project :
           /\ RightProject(a, p)
           /\ CASE answer.status = "ready" -> RightNode(p, answer.node)
                [] OTHER ->
                     /\ Startable(p) = {}
                     /\ (answer.status = "incomplete") = (MissingStages(p) # {})
                     /\ answer.status = "complete" => RowsToDo(p) = {}
                     /\ answer.status = "blocked" => RowsToDo(p) # {}

\* What resume answers from its many SELECTs is right for the ledger if nothing
\* was committed meanwhile: the project worth resuming, its first node that can
\* be started, and otherwise why there is none.
AnswerIsCurrent ==
  \A a \in Agents : pc[a] = "answered" /\ witness[a].quiet => Right(a, reply[a])

\* Whatever was committed meanwhile, a node is only offered, and taken, if each
\* node it depends on was done at some moment since the query began.
OfferIsFresh ==
  \A a \in Agents :
    pc[a] = "answered" /\ reply[a].status = "ready" =>
      reply[a].depends \subseteq witness[a].done

\* A ledger in which all work can be done.
Workable ==
  /\ \A q \in active : \E a \in Agents : target[a] \subseteq {q}
  /\ \A n \in DOMAIN nodes :
       /\ nodes[n].project \in active
       /\ nodes[n].status # "blocked"
       /\ nodes[n].depends \subseteq DOMAIN nodes
       /\ Guided(nodes[n], guidance[nodes[n].project])
  /\ \A S \in SUBSET DOMAIN nodes :
       S # {} => \E n \in S : nodes[n].depends \cap S = {}

\* Agents that do what resume offers finish all work of all projects, if from
\* some time on it can be done at all: no node is starved by the ranking, by a
\* project that only waits for another, or by agents that undo each other.
WorkGetsDone == <>[]Workable => <>[](\A n \in DOMAIN nodes : IsDone(n))

\* The documents: resume reads the current workflow state and returns what is
\* needed to continue.  It answers for every ledger the commands can make.
ResumeAnswers ==
  \A a \in Agents : pc[a] = "answered" => reply[a].status # "not_found"
==============================================================================

------------------------------- MODULE MCResume -------------------------------
(***************************************************************************)
(* Resume for TLC: the nodes that are there at the start, of every status. *)
(***************************************************************************)
EXTENDS Resume

\* A chain through both stages, and a project that waits for another one.
Chain == <<[project |-> 1, stage |-> "design", depends |-> {}],
           [project |-> 1, stage |-> "implementation", depends |-> {1}]>>
Across == <<[project |-> 1, stage |-> "design", depends |-> {}],
            [project |-> 2, stage |-> "design", depends |-> {1}]>>

AnyStatus(plan) ==
  {[n \in DOMAIN plan |-> Row(plan[n].project, plan[n].stage, status[n],
                              plan[n].depends)]
     : status \in [DOMAIN plan -> Statuses]}

MCLedgers == AnyStatus(Chain) \cup AnyStatus(Across)

\* One agent that selects a project, and one agent for each project.
MCSessions == {<<{}>>, <<{1}, {2}>>}

\* With {2}, nodes wait for each other or for themselves.
MCDependencies == {{}, {2}, {1, Unknown}}
==============================================================================

-------------------------- MODULE MCGraphValidator --------------------------
(***************************************************************************)
(* Every task graph over four tasks in one submission order: 2^12 sets of  *)
(* dependencies, cyclic ones included.  Four is the least number of tasks  *)
(* for two initial tasks that join in a task with a dependent of its own.  *)
(***************************************************************************)
EXTENDS GraphValidator

MCTasks == 1 .. 4

EveryDependency(ids) ==
    {[id |-> i, can_fail |-> FALSE, can_skip |-> FALSE] : i \in ids}

EdgeSets ==
    {f \in [MCTasks -> SUBSET MCTasks] : \A t \in MCTasks : t \notin f[t]}

MCPipelines ==
    {[tasks |-> <<1, 2, 3, 4>>,
      depends_on |-> [t \in MCTasks |-> EveryDependency(f[t])]] : f \in EdgeSets}
=============================================================================

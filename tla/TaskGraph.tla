----------------------------- MODULE TaskGraph -----------------------------
(***************************************************************************)
(* The submitted workflow as data, and the questions WorkflowExecutor      *)
(* asks of its task graph while it stages a run (_set_tasks,               *)
(* _get_initial_tasks, GraphValidator.has_cycle).                          *)
(*                                                                         *)
(* A pipeline is a record: "tasks" is the list of task ids in submission   *)
(* order, "depends_on[t]" the set of dependency objects of t.  A           *)
(* dependency object names the parent and carries two flags: whether the   *)
(* parent is allowed to fail, and whether it is allowed to be skipped.     *)
(***************************************************************************)
EXTENDS Naturals, Sequences, FiniteSets, SequencesExt

CONSTANT Task  \* the ids a task or a dependency may carry

Dependency == [id : Task, can_fail : BOOLEAN, can_skip : BOOLEAN]

\* No two tasks of a pipeline have the same id: the database the API takes them
\* from does not admit it (api/models.py, task_id_pipeline_id).  That a task names
\* a parent once is not checked anywhere: the model leaves the others out.
Pipeline ==
    [tasks      : {ids \in Seq(Task) : IsInjective(ids)},
     depends_on : [Task -> {D \in SUBSET Dependency : \A d, e \in D : d.id = e.id => d = e}]]

DependencyIds(p, t) == {d.id : d \in p.depends_on[t]}

\* The tasks that depend on t (child_tasks).
Children(p, t) == {c \in ToSet(p.tasks) : t \in DependencyIds(p, c)}

\* A list comprehension: the elements of s that are in S, in the order of s.
InListOrder(s, S) ==
    LET Taken[n \in 0 .. Len(s)] ==
          IF n = 0 THEN <<>>
          ELSE IF s[n] \in S THEN Append(Taken[n - 1], s[n]) ELSE Taken[n - 1]
    IN  Taken[Len(s)]

\* dependency_graph[t]: the same in submission order.
Dependents(p, t) == InListOrder(p.tasks, Children(p, t))

\* The check that precedes the graph: no self dependency, no unknown parent.
InvalidDependencies(p) ==
    \E t \in ToSet(p.tasks) :
        \E d \in p.depends_on[t] : d.id = t \/ d.id \notin ToSet(p.tasks)

InitialTasks(p) == InListOrder(p.tasks, {t \in ToSet(p.tasks) : p.depends_on[t] = {}})

\* Fault: a task nobody depends on would be allowed to fail.
CanFail_NoChildren(p, t) ==
    \A c \in Children(p, t) :
        \A d \in p.depends_on[c] : d.id = t => d.can_fail

\* A task may fail iff it has dependents and all of them permit it.
CanFail(p, t) ==
    /\ Children(p, t) # {}
    /\ \A c \in Children(p, t) :
         \A d \in p.depends_on[c] : d.id = t => d.can_fail
-----------------------------------------------------------------------------
(***************************************************************************)
(* GraphValidator.has_cycle in closed form.  The validator walks depth     *)
(* first from the FIRST dependent of each initial task, marks the edges it *)
(* follows, and answers "cycle" as soon as it meets a marked edge; marks   *)
(* are never cleared.  An edge is met twice exactly when its source is     *)
(* reached along two edges, so the answer only depends on the edges walked *)
(* when nothing stops the walk.                                            *)
(***************************************************************************)
EntryEdges(p) ==
    {<<t, Dependents(p, t)[1]>> :
        t \in {i \in ToSet(InitialTasks(p)) : Dependents(p, i) # <<>>}}

EdgesFrom(p, S) == UNION {{<<v, c>> : c \in Children(p, v)} : v \in S}

WalkedEdges(p) ==
    LET Walk[n \in 0 .. Len(p.tasks)] ==
          IF n = 0 THEN EntryEdges(p)
          ELSE LET W == Walk[n - 1] IN W \cup EdgesFrom(p, {e[2] : e \in W})
    IN  Walk[Len(p.tasks)]

\* Fault: the walk takes a second edge into a task for a cycle even if
\* nothing depends on that task.
HasCycle_AnyJoin(p) ==
    \E e, f \in WalkedEdges(p) : e # f /\ e[2] = f[2]

HasCycle(p) ==
    \E e, f \in WalkedEdges(p) :
        e # f /\ e[2] = f[2] /\ Children(p, e[2]) # {}

\* _set_tasks raises for any of these, before a single task is queued.
Rejected(p) ==
    InvalidDependencies(p) \/ InitialTasks(p) = <<>> \/ HasCycle(p)
-----------------------------------------------------------------------------
(***************************************************************************)
(* What "cycle" means, independently of the validator: some task can reach *)
(* itself along dependency edges.                                          *)
(***************************************************************************)
Ancestors(p, t) ==
    LET Up[n \in 0 .. Len(p.tasks)] ==
          IF n = 0 THEN DependencyIds(p, t)
          ELSE LET U == Up[n - 1] IN U \cup UNION {DependencyIds(p, u) : u \in U}
    IN  Up[Len(p.tasks)]

Cyclic(p) == \E t \in ToSet(p.tasks) : t \in Ancestors(p, t)
=============================================================================

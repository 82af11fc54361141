--------------------------- MODULE GraphValidator ---------------------------
(***************************************************************************)
(* core/workflows/GraphValidator.py: has_cycle and its recursive helper    *)
(* traverse, as a machine whose explicit stack is the Python call stack.   *)
(* One step is one call of traverse, one return from it, or one turn of    *)
(* has_cycle's loop over the initial tasks.                                *)
(***************************************************************************)
EXTENDS TaskGraph

CONSTANT Pipelines  \* the task graphs a submission may carry

ASSUME PipelinesAssumption == Pipelines \subseteq Pipeline

VARIABLES
    pipeline,         \* the submission being validated
    root,             \* position in initial_task_ids
    stack,            \* frames of traverse: the vertex and its next dependent
    traversed_edges,  \* self.traversed_edges
    verdict           \* "running", then what has_cycle returned

vars == <<pipeline, root, stack, traversed_edges, verdict>>

\* has_cycle is only called on a graph whose parents all exist and that has
\* an initial task: _set_tasks has raised for the others.
Init ==
    /\ pipeline \in {p \in Pipelines :
                       ~InvalidDependencies(p) /\ InitialTasks(p) # <<>>}
    /\ root = 1
    /\ stack = <<>>
    /\ traversed_edges = {}
    /\ verdict = "running"

Call(v) == [vertex |-> v, next |-> 1]

Traverse(from, to, frames) ==
    IF <<from, to>> \in traversed_edges
      THEN /\ verdict' = "cycle"
           /\ UNCHANGED <<stack, traversed_edges>>
      ELSE /\ traversed_edges' = traversed_edges \cup {<<from, to>>}
           /\ stack' = Append(frames, Call(to))
           /\ UNCHANGED verdict

NextRoot ==
    /\ verdict = "running" /\ stack = <<>>
    /\ root <= Len(InitialTasks(pipeline))
    /\ LET t == InitialTasks(pipeline)[root] IN
         IF Dependents(pipeline, t) # <<>>
           THEN Traverse(t, Dependents(pipeline, t)[1], <<>>)
           ELSE UNCHANGED <<stack, traversed_edges, verdict>>
    /\ root' = root + 1
    /\ UNCHANGED pipeline

Descend ==
    /\ verdict = "running" /\ stack # <<>>
    /\ LET top == Last(stack)
           dependencies == Dependents(pipeline, top.vertex)
       IN  /\ top.next <= Len(dependencies)
           /\ Traverse(top.vertex, dependencies[top.next],
                       Append(Front(stack), [top EXCEPT !.next = @ + 1]))
    /\ UNCHANGED <<pipeline, root>>

\* Fault: the caller is not resumed.
Resumed_Never(frames) == frames
Resumed(frames) == Front(frames)

Return ==
    /\ verdict = "running" /\ stack # <<>>
    /\ Last(stack).next > Len(Dependents(pipeline, Last(stack).vertex))
    /\ stack' = Resumed(stack)
    /\ UNCHANGED <<pipeline, root, traversed_edges, verdict>>

AnswerNoCycle ==
    /\ verdict = "running" /\ stack = <<>>
    /\ root > Len(InitialTasks(pipeline))
    /\ verdict' = "acyclic"
    /\ UNCHANGED <<pipeline, root, stack, traversed_edges>>

Next == NextRoot \/ Descend \/ Return \/ AnswerNoCycle

Spec == Init /\ [][Next]_vars /\ WF_vars(Next)
-----------------------------------------------------------------------------
(***************************************************************************)
(* Properties                                                              *)
(***************************************************************************)

\* The recursion answers what the closed form HasCycle says: this ties the
\* operator that WorkflowExecutor is built on to the code of traverse.
VerdictIsHasCycle ==
    verdict # "running" => (verdict = "cycle") = HasCycle(pipeline)

\* The walk ends on every graph, cyclic ones included (the marks bound it):
\* staging is never stuck inside has_cycle.
WalkEnds == <>(verdict # "running")

\* "Detect loops in the graph" (WorkflowExecutor.py:540): has_cycle says whether
\* the graph has a loop.
VerdictIsExact == verdict # "running" => (verdict = "cycle") = Cyclic(pipeline)
=============================================================================

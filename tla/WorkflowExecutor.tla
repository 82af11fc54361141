-------------------------- MODULE WorkflowExecutor --------------------------
(***************************************************************************)
(* core/workflows/WorkflowExecutor.py: one run of one workflow, from       *)
(* start() to the moment the server has joined every task thread.          *)
(*                                                                         *)
(* Every started task has a thread of its own that runs _start_task, and   *)
(* all threads share the lists of self.state without a lock around more    *)
(* than a single access.  An action below is one such access (or one call  *)
(* to the outside), so that TLC interleaves the threads where Python may.  *)
(* The staging of start() is one action per outcome, since no other thread *)
(* of the run exists yet; the first fetch runs the code the others run.    *)
(*                                                                         *)
(* The event exchange is the one-subscriber view of module EventExchange:  *)
(* the notification handler is attached or it is not.  Handing over a list *)
(* of ready tasks is one step here: its threads are started, or the access *)
(* is lost in another thread's hook (module ReactiveState has the race).   *)
(***************************************************************************)
EXTENDS TaskGraph, Functions

CONSTANTS
    Requests,   \* the workflow submissions that may arrive
    Server,     \* the server thread, which calls start() and joins the others
    MaxStarts   \* bound: how often one task can be started in a run

\* What the outside world makes of a task: its conditions, the staging of its
\* inputs, and the executor's answer.
Outcome == {"ok", "error", "exception", "staging_error",
            "condition_false", "condition_error"}

Request ==
    [pipeline   : Pipeline,
     buildable  : BOOLEAN,  \* _prepare_tasks finds an executor for each task
     notified   : BOOLEAN,  \* the notification handler can be constructed
     args_valid : BOOLEAN,  \* params_validator accepts the arguments
     outcomes   : [Task -> SUBSET Outcome]]

ASSUME RequestsAssumption == Requests \subseteq Request
ASSUME MaxStartsAssumption == MaxStarts \in Nat \ {0}

\* A thread is named by its task and by how many came before it for that task.
Thread == Task \X (1 .. MaxStarts)
Caller == Thread \cup {Server}  \* of _fetch_ready_tasks

ASSUME ServerAssumption == Server \notin Thread

VARIABLES
    request,      \* the submission this run executes
    queue,        \* self.state.queue
    finished,     \* self.state.finished, as the number of entries per task
    succeeded,    \* self.state.succeeded
    failed,       \* self.state.failed
    skipped,      \* self.state.skipped
    executors,    \* the tasks with an entry in self.state.executors
    output,       \* the tasks with an output in self.state.ctx.output
    subscribed,   \* the notification handler is in exchange.subscribers
    handled,      \* terminal events in exchange.handled_events
    delivered,    \* pipeline events the handler has been given, in order
    reported,     \* task events the handler has been given
    pc,           \* per thread: the statement it is about to execute
    result,       \* per thread: what became of its task
    snapshot,     \* per thread: the copy of ctx.output it is extending
    ready,        \* per thread: ready_tasks of _fetch_ready_tasks
    cursor,       \* per thread: position in the loop it is in
    position      \* per thread: what queue.index answered

state == <<queue, finished, succeeded, failed, skipped, executors, output>>
exchange == <<subscribed, handled, delivered, reported>>
locals == <<result, snapshot, ready, cursor, position>>
vars == <<request, state, exchange, pc, locals>>

PcLabel ==
    {"submitted", "join", "joined", "unborn", "begin", "announce", "announcing", "execute", "executing",
     "store", "report", "reporting", "finish", "record", "cleanup",
     "deregister", "check", "complete", "completing", "fail", "failing",
     "reset", "scan", "remove", "locate", "pop", "launch", "ended", "dead"}

TypeOK ==
    /\ request \in Request
    /\ queue \in Seq(Task)
    /\ finished \in [Task -> Nat]
    /\ succeeded \subseteq Task /\ failed \subseteq Task
    /\ skipped \subseteq Task /\ executors \subseteq Task
    /\ output \subseteq Task
    /\ subscribed \in BOOLEAN
    /\ handled \subseteq {"COMPLETED", "FAILED"}
    /\ delivered \in Seq({"ACTIVE", "COMPLETED", "FAILED"})
    /\ reported \in [Task -> SUBSET {"active", "completed", "failed", "skipped"}]
    /\ pc \in [Caller -> PcLabel]
    /\ result \in [Thread -> {"none", "completed", "failed", "skipped"}]
    /\ snapshot \in [Thread -> SUBSET Task]
    /\ ready \in [Caller -> Seq(Task)]
    /\ cursor \in [Caller -> Nat \ {0}]
    /\ position \in [Caller -> Nat]
    /\ \A self \in Caller : position[self] > 0 <=> pc[self] = "pop"

graph == request.pipeline
Tasks == ToSet(graph.tasks)
TaskOf(self) == self[1]

Init ==
    /\ request \in Requests
    /\ queue = <<>>
    /\ finished = [t \in Task |-> 0]
    /\ succeeded = {} /\ failed = {} /\ skipped = {}
    /\ executors = {}
    /\ output = {}
    /\ subscribed = FALSE
    /\ handled = {}
    /\ delivered = <<>>
    /\ reported = [t \in Task |-> {}]
    /\ pc = [self \in Caller |-> IF self = Server THEN "submitted" ELSE "unborn"]
    /\ result = [self \in Thread |-> "none"]
    /\ snapshot = [self \in Thread |-> {}]
    /\ ready = [self \in Caller |-> <<>>]
    /\ cursor = [self \in Caller |-> 1]
    /\ position = [self \in Caller |-> 0]
-----------------------------------------------------------------------------
(***************************************************************************)
(* start(), up to the first fetch, and the join loop                       *)
(***************************************************************************)
Goto(self, label) == pc' = [pc EXCEPT ![self] = label]

\* Fault: only the tasks that can start at once get an executor.
Registered_Initial == ToSet(InitialTasks(graph))
\* _prepare_tasks registers an executor for each task.
Registered == Tasks

\* _prepare_tasks raises: no handler is attached yet, so the FAILED event is
\* published to nobody.
StartUnbuildable ==
    /\ pc[Server] = "submitted" /\ ~request.buildable
    /\ Goto(Server, "join")
    /\ UNCHANGED <<request, state, exchange, locals>>

\* A handler that cannot be constructed is logged, and the run goes on without:
\* what is published before the first task reaches it or nobody.
Delivery(event) == IF request.notified THEN <<event>> ELSE <<>>

\* _set_tasks raises: FAILED is delivered and the exchange is reset.  start()
\* goes on with an empty queue, and publishes ACTIVE to nobody.
StartRejected ==
    /\ pc[Server] = "submitted" /\ request.buildable
    /\ Rejected(graph)
    /\ Goto(Server, IF request.args_valid THEN "scan" ELSE "join")
    /\ executors' = Registered
    /\ delivered' = Delivery("FAILED")
    /\ UNCHANGED <<request, queue, finished, succeeded, failed, skipped, output,
                   subscribed, handled, reported, locals>>

\* The arguments do not fit the parameters: FAILED, and start() returns.
StartInvalidArgs ==
    /\ pc[Server] = "submitted" /\ request.buildable
    /\ ~Rejected(graph) /\ ~request.args_valid
    /\ Goto(Server, "join")
    /\ executors' = Registered
    /\ queue' = graph.tasks
    /\ delivered' = Delivery("FAILED")
    /\ UNCHANGED <<request, finished, succeeded, failed, skipped, output,
                   subscribed, handled, reported, locals>>

StartRun ==
    /\ pc[Server] = "submitted" /\ request.buildable
    /\ ~Rejected(graph) /\ request.args_valid
    /\ Goto(Server, "scan")
    /\ executors' = Registered
    /\ queue' = graph.tasks
    /\ subscribed' = request.notified
    /\ UNCHANGED <<request, finished, succeeded, failed, skipped, output,
                   handled, delivered, reported, locals>>

\* Every thread of the run is over: the join loop of the server ends.
Join ==
    /\ pc[Server] = "join"
    /\ \A self \in Thread : pc[self] \in {"unborn", "ended", "dead"}
    /\ Goto(Server, "joined")
    /\ UNCHANGED <<request, state, exchange, locals>>
-----------------------------------------------------------------------------
(***************************************************************************)
(* _start_task, up to the task result                                      *)
(***************************************************************************)

\* Fault: a skipped dependency never stops its dependents.
SkippedByDependency_Never(t) == FALSE
SkippedByDependency(t) ==
    \E d \in graph.depends_on[t] : d.id \in skipped /\ ~d.can_skip

\* The skip check, the task's conditions and the staging of its inputs.  An
\* error while staging is raised outside of every try: the thread is gone.
Begin(self) ==
    /\ pc[self] = "begin"
    /\ IF SkippedByDependency(TaskOf(self))
         THEN /\ result' = [result EXCEPT ![self] = "skipped"]
              /\ Goto(self, "report")
         ELSE \E o \in request.outcomes[TaskOf(self)] :
                \/ /\ o = "condition_false"
                   /\ result' = [result EXCEPT ![self] = "skipped"]
                   /\ Goto(self, "report")
                \/ /\ o = "condition_error"
                   /\ result' = [result EXCEPT ![self] = "failed"]
                   /\ Goto(self, "report")
                \/ /\ o = "staging_error"
                   /\ Goto(self, "dead")
                   /\ UNCHANGED result
                \/ /\ o \in {"ok", "error", "exception"}
                   /\ Goto(self, "announce")
                   /\ UNCHANGED result
    /\ UNCHANGED <<request, state, exchange, snapshot, ready, cursor, position>>

\* publish(TASK_ACTIVE) enters the loop over the subscribers, if there are any.
Announce(self) ==
    /\ pc[self] = "announce"
    /\ Goto(self, IF subscribed THEN "announcing" ELSE "execute")
    /\ UNCHANGED <<request, state, exchange, locals>>

\* ... and looks the subscriber up again: a KeyError if the exchange has been
\* reset since.
Announcing(self) ==
    /\ pc[self] = "announcing"
    /\ Goto(self, IF subscribed THEN "execute" ELSE "dead")
    /\ reported' = IF subscribed
                     THEN [reported EXCEPT ![TaskOf(self)] = @ \cup {"active"}]
                     ELSE reported
    /\ UNCHANGED <<request, state, subscribed, handled, delivered, locals>>

\* _get_executor raises KeyError inside the try: a failed task.
Execute(self) ==
    /\ pc[self] = "execute"
    /\ IF TaskOf(self) \in executors
         THEN Goto(self, "executing") /\ UNCHANGED result
         ELSE /\ result' = [result EXCEPT ![self] = "failed"]
              /\ Goto(self, "report")
    /\ UNCHANGED <<request, state, exchange, snapshot, ready, cursor, position>>

\* Fault: the outputs of the other tasks are dropped.
Merged_Alone(t) == {t}
Merged(t) == output \cup {t}

\* execute() returns a result, whose output is merged with what ctx.output
\* holds now, or raises.
Executing(self) ==
    /\ pc[self] = "executing"
    /\ \E o \in request.outcomes[TaskOf(self)] \cap {"ok", "error", "exception"} :
         /\ result' = [result EXCEPT ![self] =
                         IF o = "ok" THEN "completed" ELSE "failed"]
         /\ IF o = "exception"
              THEN Goto(self, "report") /\ UNCHANGED snapshot
              ELSE /\ snapshot' = [snapshot EXCEPT ![self] = Merged(TaskOf(self))]
                   /\ Goto(self, "store")
    /\ UNCHANGED <<request, state, exchange, ready, cursor, position>>

\* The merged dictionary replaces ctx.output.
Store(self) ==
    /\ pc[self] = "store"
    /\ output' = snapshot[self]
    /\ snapshot' = [snapshot EXCEPT ![self] = {}]
    /\ Goto(self, "report")
    /\ UNCHANGED <<request, queue, finished, succeeded, failed, skipped,
                   executors, exchange, result, ready, cursor, position>>
-----------------------------------------------------------------------------
(***************************************************************************)
(* _on_task_terminal_state                                                 *)
(***************************************************************************)

\* publish(TASK_COMPLETED / TASK_FAILED / TASK_SKIPPED), in two steps again.
Report(self) ==
    /\ pc[self] = "report"
    /\ Goto(self, IF subscribed THEN "reporting" ELSE "finish")
    /\ UNCHANGED <<request, state, exchange, locals>>

Reporting(self) ==
    /\ pc[self] = "reporting"
    /\ Goto(self, IF subscribed THEN "finish" ELSE "dead")
    /\ reported' = IF subscribed
                     THEN [reported EXCEPT ![TaskOf(self)] = @ \cup {result[self]}]
                     ELSE reported
    /\ UNCHANGED <<request, state, subscribed, handled, delivered, locals>>

\* self.state.finished.append(task.id)
Finish(self) ==
    /\ pc[self] = "finish"
    /\ finished' = [finished EXCEPT ![TaskOf(self)] = @ + 1]
    /\ Goto(self, "record")
    /\ UNCHANGED <<request, queue, succeeded, failed, skipped, executors,
                   output, exchange, locals>>

\* self.state.succeeded / failed / skipped .append(task.id)
Record(self) ==
    /\ pc[self] = "record"
    /\ succeeded' = IF result[self] = "completed" THEN succeeded \cup {TaskOf(self)} ELSE succeeded
    /\ failed' = IF result[self] = "failed" THEN failed \cup {TaskOf(self)} ELSE failed
    /\ skipped' = IF result[self] = "skipped" THEN skipped \cup {TaskOf(self)} ELSE skipped
    /\ Goto(self, "cleanup")
    /\ UNCHANGED <<request, queue, finished, executors, output, exchange, locals>>

\* _deregister_executor: find and clean up, then delete.  Either raises a
\* KeyError that nothing catches when the entry is gone.
Cleanup(self) ==
    /\ pc[self] = "cleanup"
    /\ Goto(self, IF TaskOf(self) \in executors THEN "deregister" ELSE "dead")
    /\ UNCHANGED <<request, state, exchange, locals>>

Deregister(self) ==
    /\ pc[self] = "deregister"
    /\ Goto(self, IF TaskOf(self) \in executors THEN "check" ELSE "dead")
    /\ executors' = executors \ {TaskOf(self)}
    /\ UNCHANGED <<request, queue, finished, succeeded, failed, skipped,
                   output, exchange, locals>>

FinishedLength == FoldFunction(+, 0, finished)

\* Fault: the run never counts as complete.
AllFinished_Never == FinishedLength > Len(graph.tasks)

\* len(self.state.tasks) == len(self.state.finished)
AllFinished == FinishedLength = Len(graph.tasks)

\* Fault: a failure never ends the run.
FailsRun_Never(self) == FALSE

\* task_result.status > 0 and task.can_fail == False
FailsRun(self) == result[self] = "failed" /\ ~CanFail(graph, TaskOf(self))

\* All tasks finished: COMPLETED, whatever became of this one.  Otherwise a
\* failure nobody permits is FAILED, and else the queue is searched.
Check(self) ==
    /\ pc[self] = "check"
    /\ \/ AllFinished /\ Goto(self, "complete")
       \/ ~AllFinished /\ FailsRun(self) /\ Goto(self, "fail")
       \/ ~AllFinished /\ ~FailsRun(self) /\ Goto(self, "scan")
    /\ UNCHANGED <<request, state, exchange, locals>>
-----------------------------------------------------------------------------
(***************************************************************************)
(* _on_pipeline_terminal_state: publish, then the exchange resets itself   *)
(***************************************************************************)
EventAt(label) == IF label \in {"complete", "completing"} THEN "COMPLETED" ELSE "FAILED"

\* Fault: the exchange forgets what it has handled.
AlreadyHandled_Never(event) == FALSE
AlreadyHandled(event) == event \in handled

\* No subscriber left: straight to the reset.  An allow-once event that is
\* handled already: publish returns, without the reset.
PublishTerminal(self) ==
    /\ pc[self] \in {"complete", "fail"}
    /\ LET event == EventAt(pc[self]) IN
         \/ /\ ~subscribed
            /\ Goto(self, "reset")
            /\ UNCHANGED handled
         \/ /\ subscribed /\ AlreadyHandled(event)
            /\ Goto(self, "ended")
            /\ UNCHANGED handled
         \/ /\ subscribed /\ ~AlreadyHandled(event)
            /\ handled' = handled \cup {event}
            /\ Goto(self, IF event = "COMPLETED" THEN "completing" ELSE "failing")
    /\ UNCHANGED <<request, state, subscribed, delivered, reported, locals>>

DeliverTerminal(self) ==
    /\ pc[self] \in {"completing", "failing"}
    /\ Goto(self, IF subscribed THEN "reset" ELSE "dead")
    /\ delivered' = IF subscribed THEN Append(delivered, EventAt(pc[self]))
                                  ELSE delivered
    /\ UNCHANGED <<request, state, subscribed, handled, reported, locals>>

ResetExchange(self) ==
    /\ pc[self] = "reset"
    /\ subscribed' = FALSE
    /\ handled' = {}
    /\ Goto(self, "ended")
    /\ UNCHANGED <<request, state, delivered, reported, locals>>
-----------------------------------------------------------------------------
(***************************************************************************)
(* _fetch_ready_tasks, and the start of the threads it returns             *)
(***************************************************************************)
AfterFetch(self) == IF self = Server THEN "join" ELSE "ended"

\* Fault: a dependency that may fail is not waited for.
Ready_FailureNotAwaited(t) ==
    \A d \in graph.depends_on[t] : CanFail(graph, d.id) \/ finished[d.id] > 0

\* _task_is_ready
Ready(t) ==
    \A d \in graph.depends_on[t] :
        \/ CanFail(graph, d.id) /\ d.id \in failed
        \/ finished[d.id] > 0

\* One turn of the loop over self.state.queue, which other threads shorten
\* meanwhile: positions are those of the list as it is now.
Scan(self) ==
    /\ pc[self] = "scan"
    /\ IF cursor[self] <= Len(queue)
         THEN /\ cursor' = [cursor EXCEPT ![self] = @ + 1]
              /\ ready' = IF Ready(queue[cursor[self]])
                            THEN [ready EXCEPT ![self] = Append(@, queue[cursor[self]])]
                            ELSE ready
              /\ UNCHANGED pc
         ELSE /\ cursor' = [cursor EXCEPT ![self] = 1]
              /\ Goto(self, IF ready[self] = <<>> THEN AfterFetch(self) ELSE "remove")
              /\ UNCHANGED ready
    /\ UNCHANGED <<request, state, exchange, result, snapshot, position>>

\* _remove_from_queue: an empty queue is not an error ...
RemoveFromQueue(self) ==
    /\ pc[self] = "remove"
    /\ \/ /\ cursor[self] > Len(ready[self])
          /\ cursor' = [cursor EXCEPT ![self] = 1]
          /\ Goto(self, "launch")
       \/ /\ cursor[self] <= Len(ready[self]) /\ queue = <<>>
          /\ cursor' = [cursor EXCEPT ![self] = @ + 1]
          /\ UNCHANGED pc
       \/ /\ cursor[self] <= Len(ready[self]) /\ queue # <<>>
          /\ Goto(self, "locate")
          /\ UNCHANGED cursor
    /\ UNCHANGED <<request, state, exchange, result, snapshot, ready, position>>

\* Fault: positions count from zero, here where queues count from one.
PositionIn_FromZero(s, e) == (CHOOSE i \in 1 .. Len(s) : s[i] = e) - 1
PositionIn(s, e) == CHOOSE i \in 1 .. Len(s) : s[i] = e /\ \A j \in 1 .. i - 1 : s[j] # e

\* Fault: a thread waits for a task another thread has taken.
QueueIndex_Waits(self) ==
    /\ pc[self] = "locate"
    /\ LET task == ready[self][cursor[self]] IN
         /\ task \in ToSet(queue)
         /\ position' = [position EXCEPT ![self] = PositionIn(queue, task)]
         /\ Goto(self, "pop")
    /\ UNCHANGED <<request, state, exchange, result, snapshot, ready, cursor>>

\* ... queue.index raises ValueError for a task that is not in the queue ...
QueueIndex(self) ==
    /\ pc[self] = "locate"
    /\ LET task == ready[self][cursor[self]] IN
         IF task \in ToSet(queue)
           THEN /\ position' = [position EXCEPT ![self] = PositionIn(queue, task)]
                /\ Goto(self, "pop")
           ELSE Goto(self, "dead") /\ UNCHANGED position
    /\ UNCHANGED <<request, state, exchange, result, snapshot, ready, cursor>>

\* Fault: the task stays in the queue.
Popped_Kept(self) == queue
Popped(self) == RemoveAt(queue, position[self])

\* ... and queue.pop removes whatever is at that position by now.
QueuePop(self) ==
    /\ pc[self] = "pop"
    /\ IF position[self] <= Len(queue)
         THEN /\ queue' = Popped(self)
              /\ cursor' = [cursor EXCEPT ![self] = @ + 1]
              /\ Goto(self, "remove")
         ELSE Goto(self, "dead") /\ UNCHANGED <<queue, cursor>>
    /\ position' = [position EXCEPT ![self] = 0]
    /\ UNCHANGED <<request, finished, succeeded, failed, skipped, executors,
                   output, exchange, result, snapshot, ready>>

IsNextStart(self) ==
    /\ pc[self] = "unborn"
    /\ \A n \in 1 .. self[2] - 1 : pc[<<self[1], n>>] # "unborn"

\* self.state.ready_tasks += unstarted_threads: the hook starts them all.
\* MaxStarts bounds how often a task is started.
StartThreads(self) ==
    /\ pc[self] = "launch"
    /\ \A t \in ToSet(ready[self]) : pc[<<t, MaxStarts>>] = "unborn"
    /\ pc' = [other \in Caller |->
                IF other = self THEN AfterFetch(self)
                ELSE IF /\ other \in Thread /\ other[1] \in ToSet(ready[self])
                        /\ IsNextStart(other)
                  THEN "begin"
                ELSE pc[other]]
    /\ ready' = [ready EXCEPT ![self] = <<>>]
    /\ UNCHANGED <<request, state, subscribed, handled, reported, result,
                   snapshot, cursor, position>>

Launch(self) ==
    /\ self \in Thread
    /\ StartThreads(self)
    /\ UNCHANGED delivered

\* The thread that started this one may still be in its hook, or have raised in
\* it: then no hook runs, and nobody starts what is handed over.
LaunchLost(self) ==
    /\ pc[self] = "launch"
    /\ Goto(self, "ended")
    /\ UNCHANGED <<request, state, exchange, locals>>

\* start() publishes ACTIVE before it hands the first threads over.
LaunchFirst ==
    /\ StartThreads(Server)
    /\ delivered' = delivered \o Delivery("ACTIVE")
-----------------------------------------------------------------------------
Fetch(self) ==
    \/ Scan(self) \/ RemoveFromQueue(self) \/ QueueIndex(self) \/ QueuePop(self)

Step(self) ==
    \/ Begin(self) \/ Announce(self) \/ Announcing(self) \/ Execute(self)
    \/ Executing(self) \/ Store(self) \/ Report(self) \/ Reporting(self)
    \/ Finish(self) \/ Record(self) \/ Cleanup(self) \/ Deregister(self)
    \/ Check(self) \/ PublishTerminal(self) \/ DeliverTerminal(self)
    \/ ResetExchange(self) \/ Fetch(self) \/ Launch(self) \/ LaunchLost(self)

Main ==
    \/ StartUnbuildable \/ StartRejected \/ StartInvalidArgs \/ StartRun
    \/ Fetch(Server) \/ LaunchFirst \/ Join

Next == Main \/ \E self \in Thread : Step(self)

\* The operating system runs every thread, and an execution ends.
Fairness == WF_vars(Main) /\ \A self \in Thread : WF_vars(Step(self))

Spec == Init /\ [][Next]_vars /\ Fairness
-----------------------------------------------------------------------------
(***************************************************************************)
(* Properties of every workflow                                            *)
(***************************************************************************)
Started(t) == \E n \in 1 .. MaxStarts : pc[<<t, n>>] # "unborn"
Executed(t) == "active" \in reported[t]

\* A thread only ever exists for a task all of whose dependencies are in the
\* finished list: the unlocked scan of a changing queue may start a task twice
\* or lose it, but never starts it too early (_task_is_ready, _start_task).
DependencyOrder ==
    \A self \in Thread :
        pc[self] # "unborn" =>
            \A d \in graph.depends_on[TaskOf(self)] : finished[d.id] > 0

\* An accepted task keeps its executor until it is in the finished list, so a
\* task that is started for the first time always finds its executor
\* (_register_executor, _deregister_executor).
ExecutorKept ==
    (\E self \in Thread : pc[self] # "unborn") =>
        \A t \in Tasks : finished[t] = 0 => t \in executors

\* The handler sees ACTIVE before any terminal event and neither terminal
\* event twice, however many threads find the run over at the same time
\* (allow_once and reset_on of the exchange).
PipelineEventsOnce ==
    \A i, j \in DOMAIN delivered :
        i # j => delivered[i] # delivered[j] /\ (delivered[i] = "ACTIVE" => i = 1)

\* The order promise of module DagScheduler is kept, double starts included.
Dag == INSTANCE DagScheduler WITH
          deps <- [t \in Task |-> DependencyIds(graph, t)],
          started <- {t \in Task : Started(t)},
          done <- {t \in Task : finished[t] > 0}

ImplementsDag == Dag!Spec

\* No thread waits for another one: the join loop ends, and the worker can be
\* checked in, even for a run that will never be reported as over.
ServerThreadReturns == <>(pc[Server] = "joined")
-----------------------------------------------------------------------------
(***************************************************************************)
(* Properties of the workflows in which only leaves run side by side       *)
(***************************************************************************)
SideBySide(t, u) ==
    t # u /\ t \notin Ancestors(graph, u) /\ u \notin Ancestors(graph, t)

OnlyLeavesOverlap ==
    \A t, u \in Tasks : SideBySide(t, u) => Children(graph, t) = {}

\* No task is started twice (_fetch_ready_tasks, _remove_from_queue).
StartedOnce ==
    OnlyLeavesOverlap =>
        \A self \in Thread : self[2] > 1 => pc[self] = "unborn"

\* A task whose failure is not permitted stops what depends on it.
FailureStopsDependents ==
    OnlyLeavesOverlap =>
        \A t \in failed : CanFail(graph, t) \/
            \A c \in Children(graph, t) : ~Started(c)

\* A dependent that does not accept a skipped dependency is never executed.
SkipStopsDependents ==
    OnlyLeavesOverlap =>
        \A t \in Tasks : Executed(t) =>
            \A d \in graph.depends_on[t] : d.id \in skipped => d.can_skip

\* A task that is executing finds the output of every dependency that
\* succeeded in self.state.ctx.output, from which a Tapis job takes the files of
\* its parents (TapisJob.execute); task_output inputs are staged from files.
OutputsArrive ==
    OnlyLeavesOverlap =>
        \A t \in Tasks : Started(t) =>
            DependencyIds(graph, t) \cap succeeded \subseteq output

\* A thread has ended with ready tasks that nobody has started.
HandoverLost == \E self \in Thread : pc[self] = "ended" /\ ready[self] # <<>>

\* If its handler could be constructed, and unless a task thread dies while
\* staging inputs or a handover is lost in another thread's hook, a run whose
\* tasks can be prepared ends in a terminal event that reaches the handler.
TerminalEventDelivered ==
    /\ OnlyLeavesOverlap /\ request.buildable /\ request.notified
    /\ \A t \in Tasks : "staging_error" \notin request.outcomes[t]
    => <>(HandoverLost \/ ToSet(delivered) \cap {"COMPLETED", "FAILED"} # {})
-----------------------------------------------------------------------------
(***************************************************************************)
(* What the comments of the code say, and the code does not do             *)
(***************************************************************************)

\* "Run the on_pipeline_terminal_state callback if all tasks are complete"
\* (WorkflowExecutor.py:389): a run all of whose tasks are in the finished
\* list is reported as over.
CompleteIsReported ==
    (subscribed /\ Tasks # {} /\ \A t \in Tasks : finished[t] > 0)
        ~> (ToSet(delivered) \cap {"COMPLETED", "FAILED"} # {})
=============================================================================

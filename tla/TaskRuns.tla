------------------------------ MODULE TaskRuns ------------------------------
(***************************************************************************)
(* One worker (core/workflows/WorkflowExecutor.py) that is given runs of a *)
(* pipeline one after the other, its task threads, their executors, and    *)
(* the thread of another submission that terminates what the worker is     *)
(* doing (core/Server.py).                                                 *)
(*                                                                         *)
(* WorkflowExecutor has the races of the task threads with each other,     *)
(* ReactiveState those inside an access; here these are one step.  What is *)
(* kept apart is each stretch of a task thread between two moments at      *)
(* which something can be taken from under it: the state by termination,   *)
(* the event exchange by the reset that follows a terminal event.  No      *)
(* dependency can fail or be skipped.                                      *)
(***************************************************************************)
EXTENDS TaskExecutors

B == <<0, "terminator">>
Worker == <<0, "server">>
NoOne == <<0, "no one">>

VARIABLES
    run,          \* how many runs the worker was given
    server,       \* where the server thread that runs the worker is
    terminator,   \* where the thread of the other submission is
    hit,          \* the run it found when it set terminating, or 0
    hook,         \* the hook _on_change_state, while it runs
    hooked,       \* accesses still run hooks
    intercepted,  \* who has run the hook by an access of his own
    \* The reactive state; an entry of finished is told by the thread that made it:
    ctx, terminating, terminated, tasks, executors, queue, finished, skipped,
    output, ready,
    attached,     \* state.threads is the list that the server thread joins
    joined,       \* the threads in that list
    late,         \* the threads appended to another list, or too late
    handed,       \* handed[t]: the threads t has made and not handed over
    \* The event exchange:
    subscribed,   \* a notification handler is in exchange.subscribers
    disturbed     \* the threads in whose publish() the subscribers were changed

stateVars == <<ctx, terminating, terminated, tasks, executors, queue,
               finished, skipped, output, ready, attached>>
controlVars == <<run, server, terminator, hit, hook, hooked, intercepted>>
threadVars == <<joined, late, handed>>
exchangeVars == <<subscribed, disturbed>>
vars == <<executorVars, stateVars, controlVars, threadVars, exchangeVars>>

Idle == [by |-> NoOne, at |-> "idle", left |-> {}, size |-> 0, same |-> FALSE]

Init ==
    /\ ExecutorInit
    /\ run = 0 /\ server = "idle"
    /\ terminator = "waiting" /\ hit = 0
    /\ hook = Idle /\ hooked = TRUE /\ intercepted = {}
    /\ ctx = 0 /\ terminating = FALSE /\ terminated = FALSE
    /\ tasks = {} /\ executors = {} /\ queue = {}
    /\ finished = {} /\ skipped = {} /\ output = {} /\ ready = {}
    /\ attached = FALSE /\ joined = {} /\ late = {}
    /\ handed = [t \in Thread |-> {}]
    /\ subscribed = FALSE /\ disturbed = {}

\* reset(): a fresh copy of the initial state.  A hook that is iterating
\* over the executors goes on with the dictionary it has.
ResetState ==
    /\ ctx' = 0 /\ terminating' = FALSE /\ terminated' = FALSE
    /\ tasks' = {} /\ executors' = {} /\ queue' = {}
    /\ finished' = {} /\ skipped' = {} /\ output' = {} /\ ready' = {}
    /\ attached' = FALSE
    /\ hook' = [hook EXCEPT !.same = FALSE]

\* An exception is swallowed (interruptable) under either flag only.
Interrupted == terminating \/ terminated

(***************************************************************************)
(* publish() goes through the subscribers and looks each of them up, which *)
(* raises when the exchange has been reset meanwhile (a KeyError) or       *)
(* another handler was added.                                              *)
(***************************************************************************)
Publishing(t) == pc[t] \in {"announcing", "reporting", "complete", "fail"}
Disturb == disturbed' = disturbed \cup {t \in Thread : Publishing(t)}

ResetExchange == subscribed' = FALSE /\ Disturb

\* Thread t leaves publish().
Published(t) == disturbed' = disturbed \ {t} /\ UNCHANGED subscribed

(***************************************************************************)
(* The hook of termination.  Every access from outside runs it, and while  *)
(* terminating is set and terminated is not it has an effect: it marks the *)
(* executors, one after the other, in the thread that made the access.     *)
(* While it runs, and after it has raised, the accesses of everybody else  *)
(* run no hook.  Who has run it once does not run it again in this model:  *)
(* the executors are marked already.                                       *)
(***************************************************************************)
Intercepts(who) ==
    /\ terminating /\ ~terminated /\ hooked /\ hook.by = NoOne
    /\ who \notin intercepted

\* Its access is not held up by the hook: it has not to run it, nor does it.
Passes(who) == hook.by # who /\ ~Intercepts(who)

AccessPlace == {"begin", "enter", "report", "append", "cleanup", "conclude", "handover"}
AtAccess(who) == IF who = Worker THEN server = "launch" ELSE pc[who] \in AccessPlace

HookStart(who) ==
    /\ who = Worker \/ who \in Thread
    /\ AtAccess(who) /\ Intercepts(who)
    /\ hook' = [Idle EXCEPT !.by = who, !.at = "context"]
    /\ intercepted' = intercepted \cup {who}
    /\ UNCHANGED <<executorVars, stateVars, threadVars, exchangeVars, run, server,
                   terminator, hit, hooked>>

\* The hook raises: the flag of ReactiveState that it cleared stays cleared.
HookRaises ==
    /\ hooked' = FALSE
    /\ hook' = Idle
    /\ terminator' = IF hook.by = B THEN "dead" ELSE terminator
    /\ server' = IF hook.by = Worker THEN IF Interrupted THEN "join" ELSE "lost"
                 ELSE server
    /\ pc' = IF hook.by \in Thread THEN [pc EXCEPT ![hook.by] = "dead"] ELSE pc

\* It starts to iterate over the executors.
HookLoops ==
    /\ hook' = [hook EXCEPT !.at = "loop", !.left = executors,
                            !.size = Cardinality(executors), !.same = TRUE]
    /\ UNCHANGED <<hooked, terminator, server, pc>>

\* The hook reads the context, and publishes the event TERMINATED ...
HookContext ==
    /\ hook.at = "context"
    /\ \/ /\ ctx = 0
          /\ HookRaises
       \/ /\ ctx # 0 /\ subscribed
          /\ hook' = [hook EXCEPT !.at = "publish"]
          /\ UNCHANGED <<hooked, terminator, server, pc>>
       \/ /\ ctx # 0 /\ ~subscribed
          /\ HookLoops
    /\ UNCHANGED <<submission, using, answer, flagged, registered, job, configmaps,
                   undeleted, faults, stateVars, threadVars, exchangeVars, run, hit,
                   intercepted>>

\* ... the exchange is reset, if another thread has not done so under its eyes;
\* and the hook goes on with the context, if it is still there.
HookPublish ==
    /\ hook.at = "publish"
    /\ ResetExchange
    /\ \/ ctx # 0 /\ HookLoops
       \/ (ctx = 0 \/ ~subscribed) /\ HookRaises
    /\ UNCHANGED <<submission, using, answer, flagged, registered, job, configmaps,
                   undeleted, faults, stateVars, threadVars, run, hit, intercepted>>

\* Python refuses to go on when the dictionary has changed its size.
SizeChanged == hook.same /\ Cardinality(executors) # hook.size

\* Fault: only executors that have created something are terminated.
StopExecutor_OnlyBusy ==
    /\ hook.at = "loop"
    /\ ~SizeChanged
    /\ \E e \in hook.left :
          /\ flagged' = flagged \cup (IF registered[e] # {} THEN {e} ELSE {})
          /\ hook' = [hook EXCEPT !.left = @ \ {e}]
    /\ UNCHANGED <<submission, pc, using, answer, registered, job, configmaps, undeleted,
                   faults, stateVars, threadVars, run, server, terminator, hit, hooked,
                   intercepted, exchangeVars>>

StopExecutor ==
    /\ hook.at = "loop"
    /\ ~SizeChanged
    /\ \E e \in hook.left :
          /\ flagged' = flagged \cup {e}
          /\ hook' = [hook EXCEPT !.left = @ \ {e}]
    /\ UNCHANGED <<submission, pc, using, answer, registered, job, configmaps, undeleted,
                   faults, stateVars, threadVars, run, server, terminator, hit, hooked,
                   intercepted, exchangeVars>>

StopFails ==
    /\ hook.at = "loop"
    /\ SizeChanged
    /\ HookRaises
    /\ UNCHANGED <<submission, using, answer, flagged, registered, job, configmaps,
                   undeleted, faults, stateVars, threadVars, run, hit, intercepted,
                   exchangeVars>>

HookEnd ==
    /\ hook.at = "loop"
    /\ ~SizeChanged /\ hook.left = {}
    /\ hook' = Idle
    /\ terminator' = IF hook.by = B THEN "reset" ELSE terminator
    /\ UNCHANGED <<executorVars, stateVars, threadVars, run, server, hit, hooked,
                   intercepted, exchangeVars>>

(***************************************************************************)
(* The thread of the other submission                                      *)
(***************************************************************************)

\* It lists the active workers with its key ...
Choose ==
    /\ terminator = "waiting"
    /\ run = 1 /\ server \in {"launch", "join"}
    /\ terminator' = "chosen"
    /\ UNCHANGED <<executorVars, stateVars, threadVars, run, server, hit, hook, hooked,
                   intercepted, exchangeVars>>

\* ... and terminates them, whatever they do by then.
Signal ==
    /\ terminator = "chosen"
    /\ terminating' = TRUE
    /\ hit' = ctx
    /\ hook' = [Idle EXCEPT !.by = B, !.at = "context"]
    /\ terminator' = "hook"
    /\ UNCHANGED <<executorVars, threadVars, run, server, hooked, intercepted, ctx,
                   terminated, tasks, executors, queue, finished, skipped, output, ready,
                   attached, exchangeVars>>

ResetByTerminator ==
    /\ terminator = "reset"
    /\ ResetState
    /\ terminator' = "mark"
    /\ UNCHANGED <<executorVars, threadVars, run, server, hit, hooked, intercepted,
                   exchangeVars>>

Mark ==
    /\ terminator = "mark"
    /\ terminated' = TRUE
    /\ terminator' = "over"
    /\ UNCHANGED <<executorVars, threadVars, run, server, hit, hook, hooked, intercepted,
                   ctx, terminating, tasks, executors, queue, finished, skipped, output,
                   ready, attached, exchangeVars>>

(***************************************************************************)
(* The hook of ready_tasks starts the threads and appends them to          *)
(* state.threads; where no hook runs they stay in ready_tasks.             *)
(***************************************************************************)
StartThreads(threads, at) ==
    LET starting == ready \cup threads
        starts == hooked /\ hook.by = NoOne
        waited == attached /\ server \in {"launch", "join"}
    IN
    /\ ready' = IF starts THEN {} ELSE starting
    /\ pc' = [t \in Thread |-> IF starts /\ t \in starting THEN "begin" ELSE at[t]]
    /\ joined' = IF starts /\ waited THEN joined \cup starting ELSE joined
    /\ late' = IF starts /\ ~waited THEN late \cup starting ELSE late

\* The tasks of the queue whose dependencies have finished.
ReadyTasks(done) ==
    {t \in queue : \A dep \in submission.depends_on[t[2]] : \E u \in done : u[2] = dep}

(***************************************************************************)
(* The server thread                                                       *)
(***************************************************************************)
Stage ==
    LET next == run + 1 IN
    /\ server = "idle" /\ run < submission.runs
    /\ run' = next
    /\ ctx' = next
    /\ tasks' = TasksOf(submission)
    /\ executors' = executors \cup ({next} \X TasksOf(submission))
    /\ queue' = {next} \X TasksOf(submission)
    /\ output' = {}
    /\ attached' = TRUE
    /\ joined' = {}
    /\ server' = "launch"
    /\ IF submission.notified THEN subscribed' = TRUE /\ Disturb ELSE UNCHANGED exchangeVars
    /\ UNCHANGED <<executorVars, terminator, hit, hook, hooked, intercepted, terminating,
                   terminated, finished, skipped, ready, late, handed>>

Launch ==
    /\ server = "launch" /\ Passes(Worker)
    /\ \/ /\ ctx = 0
          /\ server' = IF Interrupted THEN "join" ELSE "lost"
          /\ UNCHANGED <<pc, queue, ready, joined, late, exchangeVars>>
       \/ /\ ctx # 0 /\ ~ParamsValid(submission.required, submission.args)
          /\ server' = "join"
          /\ ResetExchange
          /\ UNCHANGED <<pc, queue, ready, joined, late>>
       \/ /\ ctx # 0 /\ ParamsValid(submission.required, submission.args)
          /\ queue' = queue \ ReadyTasks(finished)
          /\ StartThreads(ReadyTasks(finished), pc)
          /\ server' = "join"
          /\ UNCHANGED exchangeVars
    /\ UNCHANGED <<submission, using, answer, flagged, registered, job, configmaps,
                   undeleted, faults, run, terminator, hit, hook, hooked, intercepted, ctx,
                   terminating, terminated, tasks, executors, finished, skipped, output,
                   attached, handed>>

Over(t) == pc[t] \in {"done", "dead"}

\* Fault: the server thread joins the threads of the first fetch only.
Join_FirstFetch ==
    /\ server = "join"
    /\ \A t \in joined : submission.depends_on[t[2]] = {} => Over(t)
    /\ server' = "reset"
    /\ UNCHANGED <<executorVars, stateVars, threadVars, run, terminator, hit, hook, hooked,
                   intercepted, exchangeVars>>

\* The list grows while the server thread goes through it.
Join ==
    /\ server = "join"
    /\ \A t \in joined : Over(t)
    /\ server' = "reset"
    /\ UNCHANGED <<executorVars, stateVars, threadVars, run, terminator, hit, hook, hooked,
                   intercepted, exchangeVars>>

ResetByServer ==
    /\ server = "reset"
    /\ ResetState
    /\ server' = "idle"
    /\ UNCHANGED <<executorVars, threadVars, run, terminator, hit, hooked, intercepted,
                   exchangeVars>>

(***************************************************************************)
(* A task thread.  It has the task object of its own run, and takes all    *)
(* the rest from the state.                                                *)
(***************************************************************************)
At(t, place) == pc[t] = place /\ Passes(t)
Goes(t, place) == pc' = [pc EXCEPT ![t] = place]

\* What an executor leaves alone.
ExecutorsUnchanged ==
    UNCHANGED <<submission, flagged, registered, job, configmaps, undeleted, faults>>

World == [ctx |-> ctx # 0, args |-> submission.args, env |-> submission.env,
          task_output |-> [k \in Task |-> IF k \in output THEN Text(0) ELSE Unresolved]]

\* _start_task up to the event TASK_ACTIVE.
Begin(t) ==
    LET skip == submission.depends_on[t[2]] \cap skipped # {}
        verdict == IF skip THEN "false" ELSE EvaluateAll(Def(t).conditions, World)
    IN
    /\ At(t, "begin")
    /\ \/ verdict = "false" /\ Answers(t, "skipped")
       \/ verdict = "unresolved" /\ Answers(t, "error")
       \/ verdict = "type_error" /\ Goes(t, "dead") /\ UNCHANGED answer
       \/ /\ verdict = "true"
          /\ Goes(t, IF ctx = 0 \/ StagingFails(Def(t).input, World) THEN "dead"
                     ELSE IF subscribed THEN "announcing" ELSE "enter")
          /\ UNCHANGED answer
    /\ ExecutorsUnchanged
    /\ UNCHANGED <<using, stateVars, controlVars, threadVars, exchangeVars>>

\* The event is published outside of every try.
Announce(t) ==
    /\ pc[t] = "announcing"
    /\ Goes(t, IF t \in disturbed THEN "dead" ELSE "enter")
    /\ Published(t)
    /\ ExecutorsUnchanged
    /\ UNCHANGED <<using, answer, stateVars, controlVars, threadVars>>

\* The executor is looked up by the run of the context and the task.
Enter(t) ==
    LET e == <<ctx, t[2]>> IN
    /\ At(t, "enter")
    /\ \/ ctx = 0 /\ Goes(t, "dead") /\ UNCHANGED <<answer, using>>
       \/ ctx # 0 /\ e \notin executors /\ Answers(t, "error") /\ UNCHANGED using
       \/ ctx # 0 /\ e \in executors /\ Goes(t, "execute")
             /\ using' = [using EXCEPT ![t] = e] /\ UNCHANGED answer
    /\ ExecutorsUnchanged
    /\ UNCHANGED <<stateVars, controlVars, threadVars, exchangeVars>>

Execute(t) ==
    /\ Executing(t)
    /\ UNCHANGED <<stateVars, controlVars, threadVars, exchangeVars>>

Wait(t) ==
    /\ Waiting(t)
    /\ UNCHANGED <<stateVars, controlVars, threadVars, exchangeVars>>

\* The output is set, and the callback publishes the result.
Report(t) ==
    /\ At(t, "report")
    /\ \/ /\ ctx = 0
          /\ Goes(t, "dead")
          /\ UNCHANGED output
       \/ /\ ctx # 0
          /\ output' = IF answer[t] = "ok" /\ Def(t).produces THEN output \cup {t[2]}
                       ELSE output
          /\ Goes(t, IF subscribed THEN "reporting" ELSE "append")
    /\ ExecutorsUnchanged
    /\ UNCHANGED <<using, answer, ctx, terminating, terminated, tasks, executors, queue,
                   finished, skipped, ready, attached, controlVars, threadVars,
                   exchangeVars>>

\* An exception ends the thread, unless termination makes the callback swallow it.
Reporting(t) ==
    /\ pc[t] = "reporting"
    /\ Goes(t, IF t \notin disturbed THEN "append" ELSE IF Interrupted THEN "cleanup" ELSE "dead")
    /\ Published(t)
    /\ ExecutorsUnchanged
    /\ UNCHANGED <<using, answer, stateVars, controlVars, threadVars>>

\* The callback appends to finished and to one more list.
AppendFinished(t) ==
    /\ At(t, "append")
    /\ finished' = finished \cup {t}
    /\ skipped' = IF answer[t] = "skipped" THEN skipped \cup {t[2]} ELSE skipped
    /\ Goes(t, "cleanup")
    /\ ExecutorsUnchanged
    /\ UNCHANGED <<using, answer, ctx, terminating, terminated, tasks, executors, queue,
                   output, ready, attached, controlVars, threadVars, exchangeVars>>

\* _deregister_executor: the executor is cleaned up ...
\* Fault: an executor that was terminated is taken to have cleaned up.
Cleanup_NotFlagged(t) ==
    LET e == <<ctx, t[2]>> IN
    /\ At(t, "cleanup")
    /\ \/ ctx # 0 /\ e \in executors /\ e \notin flagged /\ Goes(t, "conclude")
             /\ using' = [using EXCEPT ![t] = e] /\ DeleteResources(e)
       \/ ctx # 0 /\ e \in flagged /\ Goes(t, "conclude")
             /\ using' = [using EXCEPT ![t] = e]
             /\ UNCHANGED <<job, configmaps, undeleted, faults>>
       \/ ctx = 0 /\ Goes(t, "dead")
             /\ UNCHANGED <<using, job, configmaps, undeleted, faults>>
    /\ UNCHANGED <<submission, answer, flagged, registered, stateVars, controlVars,
                   threadVars, exchangeVars>>

Cleanup(t) ==
    LET e == <<ctx, t[2]>> IN
    /\ At(t, "cleanup")
    /\ \/ /\ ctx # 0 /\ e \in executors
          /\ DeleteResources(e)
          /\ using' = [using EXCEPT ![t] = e]
          /\ Goes(t, "conclude")
       \/ /\ ctx # 0 /\ e \notin executors
          /\ using' = [using EXCEPT ![t] = e]
          /\ Goes(t, IF Interrupted THEN "conclude" ELSE "dead")
          /\ UNCHANGED <<job, configmaps, undeleted, faults>>
       \/ /\ ctx = 0
          /\ Goes(t, "dead")
          /\ UNCHANGED <<using, job, configmaps, undeleted, faults>>
    /\ UNCHANGED <<submission, answer, flagged, registered, stateVars, controlVars,
                   threadVars, exchangeVars>>

\* The lengths are equal, too, in a state that has just been reset.
Complete == Cardinality(tasks) = Cardinality(finished)

\* allow_once: another thread is publishing the same event.
Handled(event) == subscribed /\ \E u \in Thread \ disturbed : pc[u] = event

\* ... and deleted; then the run is over, or the next tasks are fetched.
Conclude(t) ==
    LET removed == executors \ {using[t]}
        failed == answer[t] \notin {"ok", "skipped"}
        event == IF Complete THEN "complete" ELSE "fail"
    IN
    /\ At(t, "conclude")
    /\ \/ /\ using[t] \notin executors /\ ~Interrupted
          /\ Goes(t, "dead")
          /\ UNCHANGED <<queue, handed>>
       \/ /\ using[t] \in executors \/ Interrupted
          /\ Complete \/ failed
          /\ Goes(t, IF Handled(event) THEN "done" ELSE event)
          /\ UNCHANGED <<queue, handed>>
       \/ /\ using[t] \in executors \/ Interrupted
          /\ ~Complete /\ ~failed
          /\ handed' = [handed EXCEPT ![t] = ReadyTasks(finished)]
          /\ queue' = queue \ ReadyTasks(finished)
          /\ Goes(t, "handover")
    /\ executors' = removed
    /\ ExecutorsUnchanged
    /\ UNCHANGED <<using, answer, ctx, terminating, terminated, tasks, finished, skipped,
                   output, ready, attached, controlVars, joined, late, exchangeVars>>

\* A terminal event has been handled: the exchange is reset, if it was not
\* reset before the subscribers were looked up.
EndRun(t) ==
    /\ pc[t] \in {"complete", "fail"}
    /\ Goes(t, "done")
    /\ \/ /\ subscribed' = FALSE
          /\ disturbed' = {u \in Thread \ {t} : Publishing(u)}
       \/ t \in disturbed /\ Published(t)
    /\ ExecutorsUnchanged
    /\ UNCHANGED <<using, answer, stateVars, controlVars, threadVars>>

\* ready_tasks += threads, the last statement of the thread.
HandOver(t) ==
    /\ At(t, "handover")
    /\ StartThreads(handed[t], [pc EXCEPT ![t] = "done"])
    /\ handed' = [handed EXCEPT ![t] = {}]
    /\ ExecutorsUnchanged
    /\ UNCHANGED <<using, answer, ctx, terminating, terminated, tasks, executors, queue,
                   finished, skipped, output, attached, controlVars, exchangeVars>>

Job(t) ==
    /\ JobStep(t)
    /\ UNCHANGED <<stateVars, controlVars, threadVars, exchangeVars>>

----------------------------------------------------------------------------
ThreadStep(t) ==
    \/ Begin(t) \/ Announce(t) \/ Enter(t) \/ Execute(t)
    \/ Report(t) \/ Reporting(t) \/ AppendFinished(t)
    \/ Cleanup(t) \/ Conclude(t) \/ EndRun(t) \/ HandOver(t)

HookStep ==
    \/ \E who \in Thread \cup {Worker} : HookStart(who)
    \/ HookContext \/ HookPublish \/ StopExecutor \/ StopFails \/ HookEnd

ServerStep == Stage \/ Launch \/ Join \/ ResetByServer

TerminatorStep == Signal \/ ResetByTerminator \/ Mark

\* What threads do by themselves.
Running ==
    ServerStep \/ HookStep \/ TerminatorStep \/ \E t \in Thread : ThreadStep(t)

Next == Running \/ Choose \/ \E t \in Thread : Wait(t) \/ Job(t)

\* Threads run; each makes finitely many steps, so that it is enough that one
\* of them does.  Nothing is assumed of the jobs and the services the tasks
\* wait for, and nobody has to terminate the run.
Fairness == WF_vars(Running)

Spec == Init /\ [][Next]_vars /\ Fairness

----------------------------------------------------------------------------
StateTypeOK ==
    /\ ctx \in 0 .. Runs
    /\ terminating \in BOOLEAN /\ terminated \in BOOLEAN
    /\ tasks \subseteq Task /\ skipped \subseteq Task /\ output \subseteq Task
    /\ executors \subseteq Executor
    /\ queue \subseteq Thread /\ ready \subseteq Thread
    /\ finished \subseteq Thread
    /\ attached \in BOOLEAN

ControlTypeOK ==
    /\ run \in 0 .. Runs
    /\ server \in {"idle", "launch", "join", "reset", "lost"}
    /\ terminator \in {"waiting", "chosen", "hook", "reset", "mark", "over", "dead"}
    /\ hit \in 0 .. Runs
    /\ hook \in [by : Thread \cup {B, Worker, NoOne}, at : {"idle", "context", "publish", "loop"},
                 left : SUBSET Executor, size : Nat, same : BOOLEAN]
    /\ hooked \in BOOLEAN
    /\ intercepted \subseteq Thread \cup {Worker}

ThreadTypeOK ==
    /\ joined \subseteq Thread /\ late \subseteq Thread
    /\ handed \in [Thread -> SUBSET Thread]
    /\ subscribed \in BOOLEAN
    /\ disturbed \subseteq Thread

\* The type of the state: executors, threads and resources are those of the
\* runs the worker was given.
TypeOK == ExecutorTypeOK /\ StateTypeOK /\ ControlTypeOK /\ ThreadTypeOK

\* Another thread had the executor of thread t, and is through with it.
Shares(t) ==
    \E u \in Thread \ {t} :
        using[u] = using[t] /\ pc[u] \in {"complete", "fail", "handover", "done", "dead"}

\* A thread of the same run has failed its task, and with that the run.
FailedBeside(t) ==
    \E u \in Thread \ {t} : u[1] = t[1] /\ pc[u] = "done" /\ answer[u] \notin {"ok", "skipped"}

\* When the server thread has joined the threads of a run, the cluster holds
\* nothing that they created, but what could not be deleted (cleanup in
\* TaskExecutor.py swallows the error); the resources of a thread that was
\* publishing its result while a failure beside it reset the event exchange;
\* and, in a worker that was terminated, those of a thread that ended because
\* the context was gone, or whose executor a thread of another run has deleted
\* from the state.
ResourcesReleased ==
    server = "reset" =>
        \A t \in joined : \A type \in {"job", "configmap"} :
            InCluster(type, t) =>
                \/ <<type, t>> \in undeleted
                \/ pc[t] = "dead" /\ FailedBeside(t)
                \/ terminator # "waiting" /\ (pc[t] = "dead" \/ Shares(t))

\* A worker is given its next run when every thread of the earlier ones has
\* ended: the server thread joins them before it checks the worker in.  A
\* thread that runs all the same was handed over between the reset by a
\* terminator and the end of its maker, and appended to a list that nobody
\* joins; or such a thread has taken it from the queue of a later run, and it
\* was appended to the list of the next.
RunsSeparate ==
    \A t \in Thread : t[1] < run /\ pc[t] \notin {"none", "done", "dead"} =>
        /\ terminator # "waiting"
        /\ t \in late \/ (t \in joined /\ late # {})

\* Once the hook of terminate() has marked the executors of a run, the run
\* ends, although its jobs may hang, if its executors look at their flag.
TerminationEndsRun ==
    \A r \in 1 .. Runs :
        /\ terminator = "reset" /\ hit = r
        /\ \A k \in TasksOf(submission) : submission.tasks[k].kind \in JobKind
        ~> ~(run = r /\ server \in {"launch", "join"})
=============================================================================

------------------------------ MODULE RunViews ------------------------------
(***************************************************************************)
(* Running a pipeline: RunPipeline, PipelineDispatchRequestBuilder,        *)
(* PipelineDispatcher and MessageBroker on the way to the engine, and the  *)
(* calls by which the engine's notification handler                        *)
(* (TapisWorkflowsAPIBackend) reports back: UpdatePipelineRunStatus,       *)
(* CreateTaskExecution and UpdateTaskExecutionStatus.                      *)
(*                                                                         *)
(* Of the engine this module keeps what decides which call is made when:   *)
(* the thread of the run, which reports active and has the executions      *)
(* made; the threads of its tasks, of which one may publish that the run   *)
(* has failed and another that it is complete; and the thread of another   *)
(* submission that terminates it.  The tasks are independent here.  A      *)
(* terminal event takes the handler off the exchange once it is handled.   *)
(* A call that fails is logged by the exchange and not tried again.        *)
(* PIPELINE_STAGING is published before the handler is subscribed, and     *)
(* never reaches the API.                                                  *)
(***************************************************************************)
EXTENDS AccountViews

VARIABLES
    engine,     \* the run in the engine that a request has started
    reports     \* the calls about it that the engine is making

Final == {"completed", "failed", "terminated"}
Unpublished == [stage |-> "none", tasks |-> {}, waiting |-> {}, handler |-> FALSE,
                ends |-> {}, ended |-> {}, lost |-> {}, failing |-> FALSE, killed |-> FALSE]

RunInit ==
    /\ engine = [r \in Request |-> Unpublished]
    /\ reports = [r \in Request |-> {}]

ApiUnchanged == UNCHANGED <<pc, reply, loc, secrets, rollbacks>>
EngineUnchanged == UNCHANGED <<engine, reports>>

RunOf(r) == New(r, "PipelineRun", 1)

\* RunPipeline.post: the pipeline is read with its tasks and archives, and the request
\* for the engine is built from what was read; without a pipeline the builder fails.
RunRefusal(r) ==
    FirstOf(BodyRefusal(r), FirstOf(Refusal(r),
        IF Pipelines(r) = {} THEN "server_error" ELSE "none"))
\* The request names every task the pipeline has when it is read.
DispatchedTasks(pipeline) == {t.id : t \in Under("Task", pipeline.uuid)}
RunPipeline(r) ==
    /\ At(r, "run")
    /\ Check(r, RunRefusal(r), "create_run",
             [Locals EXCEPT !.pipeline = ThePipeline(r).uuid,
                            !.rest = DispatchedTasks(ThePipeline(r))])
    /\ UNCHANGED rollbacks /\ EngineUnchanged

\* PipelineDispatcher.dispatch.
CreateRun(r) ==
    LET row == NewRow("PipelineRun", RunOf(r), "none", "none", "submitted", {loc[r].pipeline}) IN
    /\ At(r, "create_run")
    /\ IF Insertable(row) THEN Insert(row) /\ Goto(r, "read_current") /\ UNCHANGED loc
       ELSE Answer(r, "server_error") /\ UNCHANGED rows
    /\ UNCHANGED <<secrets, rollbacks>> /\ EngineUnchanged

\* The pipeline is read again for its current run ...
ReadCurrent(r) ==
    /\ At(r, "read_current")
    /\ IF loc[r].pipeline \in Uuids
       THEN Goto(r, "set_current") /\ Keep(r, "target", RowOf(loc[r].pipeline).current)
       ELSE Answer(r, "server_error")
    /\ UNCHANGED <<rows, secrets, rollbacks>> /\ EngineUnchanged

\* Fault: the run that was current is forgotten.
Chained_Lost(row, run, before) == [row EXCEPT !.current = run]
\* ... which becomes the last run, and the new one current.
Chained(row, run, before) ==
    [row EXCEPT !.current = run, !.last = IF before = NoRow THEN @ ELSE before]
SetCurrent(r) ==
    /\ At(r, "set_current")
    /\ rows' = {IF row.uuid = loc[r].pipeline THEN Chained(row, RunOf(r), loc[r].target) ELSE row
                : row \in rows}
    /\ Goto(r, "publish") /\ UNCHANGED loc
    /\ UNCHANGED <<secrets, rollbacks>> /\ EngineUnchanged

\* MessageBroker.publish; when it fails the run has been made and stays submitted.
Publish(r) ==
    /\ At(r, "publish")
    /\ IF Ask(r).fault = "broker" THEN Answer(r, "server_error") /\ UNCHANGED engine
       ELSE /\ engine' = [engine EXCEPT ![r] =
                  [Unpublished EXCEPT !.stage = "queued", !.tasks = loc[r].rest,
                                      !.waiting = loc[r].rest]]
            /\ Answer(r, "ok")
    /\ UNCHANGED <<rows, secrets, rollbacks, reports>>

DispatchStep(r) ==
    RunPipeline(r) \/ CreateRun(r) \/ ReadCurrent(r) \/ SetCurrent(r) \/ Publish(r)

-----------------------------------------------------------------------------
(* The engine and its calls. *)

Stage(r, stage) == engine[r].stage = stage
Move(r, stage) == engine' = [engine EXCEPT ![r].stage = stage]
Report(r, status) == reports' = [reports EXCEPT ![r] = @ \cup {status}]

\* The calls about a run may fail.
CallsFail(r) == Ask(r).fault = "report"

\* The run is staged.  If that fails early the handler is not there yet, and if the handler
\* cannot be constructed it never is: nothing is reported.  If the tasks or the arguments
\* are not valid the run has failed.
Take(r) ==
    /\ Stage(r, "queued")
    /\ \/ Move(r, "over") /\ UNCHANGED reports
       \/ /\ engine' = [engine EXCEPT ![r].stage = "rejected", ![r].handler = TRUE,
                                      ![r].ends = {"failed"}]
          /\ Report(r, "failed")
       \/ /\ engine' = [engine EXCEPT ![r].stage = "starting", ![r].handler = TRUE]
          /\ Report(r, "active")
    /\ UNCHANGED rows /\ ApiUnchanged

\* Fault: the status is set for all runs of the pipeline.
Updated_Siblings(run) == {x \in Rows("PipelineRun") :
    run \in Uuids /\ x.above = RowOf(run).above}
\* The rows UpdatePipelineRunStatus selects: the run, if it is still there.
Updated(run) == {x \in Rows("PipelineRun") : x.uuid = run}

\* UpdatePipelineRunStatus overwrites the status, whatever it was.
WithStatus(r, status) ==
    {IF x \in Updated(RunOf(r)) THEN [x EXCEPT !.value = status] ELSE x : x \in rows}

\* The executions are made after the update; if its call fails, on its way there or back,
\* none is.
RunActive(r) ==
    /\ "active" \in reports[r]
    /\ \/ /\ rows' = WithStatus(r, "active")
          /\ Move(r, IF engine[r].waiting = {} THEN "running" ELSE "creating")
       \/ /\ CallsFail(r)
          /\ engine' = [engine EXCEPT ![r].stage = "running", ![r].waiting = {},
                                      ![r].lost = @ \cup engine[r].tasks]
          /\ rows' = WithStatus(r, "active") \/ UNCHANGED rows
    /\ reports' = [reports EXCEPT ![r] = @ \ {"active"}]
    /\ ApiUnchanged

\* After a terminal event the exchange is reset and the handler is gone.
UpdateRun(r, status) ==
    /\ status \in reports[r]
    /\ rows' = WithStatus(r, status) \/ (CallsFail(r) /\ UNCHANGED rows)
    /\ reports' = [reports EXCEPT ![r] = @ \ {status}]
    /\ engine' = [engine EXCEPT ![r].handler = FALSE]
    /\ ApiUnchanged

ExecutionOf(r, task) == New(r, "TaskExecution", task)

\* CreateTaskExecution finds the task by its id in what the pipeline of the run now is; a
\* call that fails is lost with its thread.
PipelineOf(run) == {p \in run.above : p[2] = "Pipeline"}
CreateExecution(r) ==
    /\ Stage(r, "creating")
    /\ \E task \in engine[r].waiting :
         LET found == IF RunOf(r) \in Uuids
                      THEN UNION {Find("Task", task, p) : p \in PipelineOf(RowOf(RunOf(r)))} ELSE {}
             row == NewRow("TaskExecution", ExecutionOf(r, task), "none", "none", "pending",
                           {RunOf(r)} \cup {t.uuid : t \in found})
         IN
         /\ \E lost \in IF CallsFail(r) THEN {{}, {task}} ELSE {{}} :
              /\ IF lost = {} /\ found # {} /\ Insertable(row) THEN Insert(row) ELSE UNCHANGED rows
              /\ engine' = [engine EXCEPT ![r].waiting = @ \ {task}, ![r].lost = @ \cup lost,
                                ![r].stage = IF engine[r].waiting = {task} THEN "running" ELSE @]
    /\ UNCHANGED reports /\ ApiUnchanged

\* Fault: no end of a task is reported any more once another one has ended.
Listening_Once(r) == engine[r].handler /\ engine[r].ended = {}
Listening(r) == engine[r].handler

\* A task reports active, if that call does not fail, and then how it ended; updates of an
\* execution that was not made change nothing.
UpdateExecution(r, task, status) ==
    rows' = IF Listening(r)
            THEN {IF x.uuid = ExecutionOf(r, task) THEN [x EXCEPT !.value = status] ELSE x : x \in rows}
            ELSE rows
TaskActive(r) ==
    /\ Stage(r, "running")
    /\ \E task \in engine[r].tasks \ engine[r].ended :
         /\ \E x \in rows : x.uuid = ExecutionOf(r, task) /\ x.value = "pending"
         /\ engine[r].handler
         /\ UpdateExecution(r, task, "active")
    /\ UNCHANGED <<engine, reports>> /\ ApiUnchanged
TaskEnds(r) ==
    /\ Stage(r, "running")
    /\ \E task \in engine[r].tasks \ engine[r].ended, status \in {"completed", "failed", "skipped"} :
         /\ \E lost \in IF CallsFail(r) THEN {{}, {task}} ELSE {{}} :
              /\ IF lost = {} THEN UpdateExecution(r, task, status) ELSE UNCHANGED rows
              /\ engine' = [engine EXCEPT ![r].ended = @ \cup {task}, ![r].lost = @ \cup lost,
                                          ![r].failing = @ \/ status = "failed"]
    /\ UNCHANGED reports /\ ApiUnchanged

\* The thread of the last task publishes that the run is complete, and the thread of a task
\* that has failed before that the run has failed; an event is not published twice, and
\* nobody hears of it when the handler is gone.
RunEnds(r) ==
    /\ Stage(r, "running") /\ engine[r].handler
    /\ \E end \in {"completed", "failed"} \ engine[r].ends :
         /\ end = "completed" => engine[r].ended = engine[r].tasks
         /\ end = "failed" => engine[r].failing /\ engine[r].ended # engine[r].tasks
         /\ engine' = [engine EXCEPT ![r].ends = @ \cup {end}]
         /\ Report(r, end)
    /\ UNCHANGED rows /\ ApiUnchanged

\* The thread of another submission of the pipeline terminates the run.
Terminate(r) ==
    /\ ~engine[r].killed /\ engine[r].handler
    /\ \E q \in Request \ {r} :
         /\ Ask(q).pipeline = Ask(r).pipeline /\ Ask(q).group = Ask(r).group
         /\ engine[q].stage = "queued"
    /\ engine' = [engine EXCEPT ![r].killed = TRUE]
    /\ Report(r, "terminated")
    /\ UNCHANGED rows /\ ApiUnchanged

EngineStep(r) ==
    \/ Take(r) \/ RunActive(r) \/ \E status \in Final : UpdateRun(r, status)
    \/ CreateExecution(r) \/ TaskActive(r) \/ TaskEnds(r) \/ RunEnds(r) \/ Terminate(r)
=============================================================================

--------------------------------- MODULE Api ---------------------------------
(***************************************************************************)
(* The API as a whole: the requests of a batch, served at once by the      *)
(* worker processes on one database, and the engine that reports about the *)
(* runs they start.                                                        *)
(***************************************************************************)
EXTENDS ReadViews

Operation == Reads \cup
    {"groups_post", "users_post", "users_patch", "users_delete", "identities_post",
     "identity_delete", "archives_post", "archive_delete", "pipelines_post", "pipeline_delete",
     "change_owner", "add_archive", "remove_archive", "tasks_post", "task_put", "task_delete",
     "run"}

\* What a client can ask for.
UserAsked == [id : STRING, value : STRING]
TaskAsked == [id : STRING, type : STRING, context : STRING, destination : STRING, fault : STRING]
ASSUME BatchesAssumption ==
    \A asked \in Batches : \A r \in Request :
        /\ asked[r].op \in Operation /\ asked[r].worker \in Worker
        /\ asked[r].users \in Seq(UserAsked) /\ asked[r].tasks \in Seq(TaskAsked)
        /\ IsFiniteSet(asked[r].archives) /\ asked[r].jobs \in 0 .. 2

vars == <<rows, secrets, batch, pc, reply, loc, rollbacks, engine, reports>>

Init == HandlingInit /\ CreationInit /\ RunInit

ViewStep(r) ==
    /\ \/ Authenticate(r) /\ UNCHANGED rollbacks
       \/ PipelineStep(r)
       \/ AccountStep(r)
       \/ ReadStep(r)
    /\ EngineUnchanged
Serve(r) == (ViewStep(r) \/ DispatchStep(r)) /\ UNCHANGED batch
Run(r) == EngineStep(r) /\ UNCHANGED batch

Next == \E r \in Request : Serve(r) \/ Run(r)

\* Some request or run that can go on does: database, SK and broker calls return.
Spec == Init /\ [][Next]_vars /\ WF_vars(Next)

-----------------------------------------------------------------------------
\* The database keeps its foreign keys and unique constraints, and every request is
\* somewhere (models.py and the control flow of the views).
TypeOK ==
    /\ DatabaseIntegrity
    /\ \A row \in rows : row.table \in Table
    /\ reply \in [Request -> Answers]
    /\ \A r \in Request : pc[r] = "done" <=> reply[r] # "none"
    /\ \A r \in Request : reports[r] \subseteq Final \cup {"active"}

\* Who made a row, and whether its client was told that it is there.
Maker(row) == row.uuid[1]
Acknowledged(row) == Maker(row) \in Request => reply[Maker(row)] = "ok"
Gone(row) == row.uuid \notin {x.uuid : x \in rows'}

\* Request r has deleted a secret and not its row: it is between the two calls of
\* SecretService.delete, or the second of them fails.
CutShort(r, uuid) ==
    \/ At(r, "drop_row") /\ uuid = loc[r].target
    \/ At(r, "rollback_row") /\ uuid = Entry(r).uuid
    \/ /\ Ask(r).fault = "undo_row"
       /\ \/ pc[r] = "done" /\ uuid = loc[r].target
          \/ \E i \in DOMAIN rollbacks[Ask(r).worker] : uuid = rollbacks[Ask(r).worker][i].uuid

\* Every row of credentials has its secret in the Security Kernel, whichever save, delete
\* or rollback fails, but for a deletion that ends between the secret and the row
\* (SecretService.save and delete).
CredentialsResolve ==
    \A row \in Rows("Credentials") :
        row.uuid \in secrets \/ \E r \in Request : CutShort(r, row.uuid)

\* A pipeline whose creation was refused leaves nothing behind, at whichever of its writes
\* it failed (Pipelines.post and ETLPipelines.post).  The exception is a ServerError while
\* the tasks of a workflow are created, after which the view returns at once.
RefusedLeavesNothing ==
    \A r \in Request :
        /\ Asks(r, "pipelines_post") /\ pc[r] = "done" /\ reply[r] # "ok"
        /\ ~(Ask(r).kind = "workflow" /\ loc[r].error = "server_error")
        => \A row \in rows : row.table \in {"Pipeline", "PipelineArchive", "Task"} => Maker(row) # r

\* Whether this is a step of request r, one that is to delete something, or one that
\* takes back the pipeline of a row because its creation has failed.
StepOf(r) == <<pc[r], loc[r]>>' # <<pc[r], loc[r]>>
Deletes(r) == StepOf(r) /\ pc[r] \in {"delete_tasks", "delete_task", "drop_row"}
Withdraws(r, row) ==
    StepOf(r) /\ Asks(r, "pipelines_post") /\ reply'[r] # "ok" /\ loc[r].pipeline \in row.above

\* A task whose creation was answered with success is there until a request deletes it,
\* its pipeline or an identity it uses (the rollbacks of TaskService.create).
AcknowledgedTasksStay ==
    [][\A row \in Rows("Task") : Acknowledged(row) /\ Gone(row) => \E r \in Request : Deletes(r)]_vars

\* If a rollback takes it all the same, it is one of a request that the same worker process
\* serves: the registered rollbacks never leave their process (Service.rollbacks).  And a
\* task that was put into a pipeline whose creation is not answered yet goes with it when
\* that fails.
DamageStaysInProcess ==
    [][\A row \in Rows("Task") : Acknowledged(row) /\ Gone(row) =>
         \E r \in Request :
            \/ Deletes(r) \/ Withdraws(r, row)
            \/ /\ StepOf(r) /\ pc[r] \in {"rollback", "rollback_row"} /\ Maker(row) \in Request
               /\ Ask(r).worker = Ask(Maker(row)).worker]_vars

\* The owner of a group stays an admin of it, whoever adds and removes users meanwhile
\* (Groups.post and Users.delete).
OwnerStaysAdmin ==
    \A g \in Rows("Group") : Acknowledged(g) =>
        \E m \in Members(g, g.owner) : m.value = "admin"

Dispatched(r) == Asks(r, "run") /\ reply[r] = "ok"
\* When a run was asked for after another had been answered, and any third one of the pipeline
\* was answered before both, the pipeline names both, the later one as current
\* (PipelineDispatcher.dispatch).
ChainKept ==
    \A q, r \in Request :
        /\ Dispatched(q) /\ Dispatched(r) /\ q \in Ask(r).after
        /\ \A x \in Request \ {q, r} :
              Asks(x, "run") /\ loc[x].pipeline = loc[r].pipeline => x \in Ask(q).after
        => \A p \in Rows("Pipeline") :
             p.uuid = loc[r].pipeline /\ p.uuid = loc[q].pipeline =>
                 p.current = RunOf(r) /\ p.last = RunOf(q)

\* A run whose status is final keeps it, as long as nobody terminates the run, unless two of
\* its threads have published two ends of it, before the first was handled: the update
\* overwrites whatever it finds (UpdatePipelineRunStatus.patch).
FinalStatusStays ==
    [][\A run \in Rows("PipelineRun") : \A r \in Request :
         run.uuid = RunOf(r) /\ run.value \in Final /\ ~engine[r].killed =>
             \A after \in rows' : after.uuid = run.uuid =>
                 after.value = run.value \/ {run.value, after.value} = engine[r].ends]_vars

\* The tasks of a run that were there before it was asked for, and still are.
Remaining(r) ==
    {t \in Rows("Task") : /\ t.id \in engine[r].tasks /\ loc[r].pipeline \in t.above
                          /\ Maker(t) \in Request => Maker(t) \in Ask(r).after}

\* When a run is reported completed, each of its tasks that has not been deleted meanwhile, nor
\* replaced by another one with its id, has an execution with its result, unless a call about
\* it has failed, which nobody repeats (CreateTaskExecution, UpdateTaskExecutionStatus and the
\* order of the engine's calls).
ExecutionsReported ==
    \A r \in Request :
        "completed" \in engine[r].ends /\ ~engine[r].killed /\ RunOf(r) \in Uuids =>
            \A task \in Remaining(r) : task.id \notin engine[r].lost =>
                \E x \in Rows("TaskExecution") :
                    /\ x.uuid = ExecutionOf(r, task.id)
                    /\ x.value \in {"completed", "failed", "skipped"}

\* Every request is answered: no loop of a view, the one over the growing list of
\* rollbacks included, goes on for ever (all views).
Answered == \A r \in Request : <>(pc[r] = "done")
=============================================================================

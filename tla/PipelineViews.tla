---------------------------- MODULE PipelineViews ----------------------------
(***************************************************************************)
(* Creating, changing and deleting pipelines and their tasks: the views    *)
(* Pipelines (types workflow and ci), ETLPipelines, ChangePipelineOwner,   *)
(* AddPipelineArchive, RemovePipelineArchive and Tasks.  A pipeline is     *)
(* created in several writes, and each view undoes by hand what it has     *)
(* written when a later one fails.                                         *)
(***************************************************************************)
EXTENDS TaskCreation

GroupUuid(r) == (CHOOSE g \in Groups(r) : TRUE).uuid
ThePipeline(r) == CHOOSE p \in Pipelines(r) : TRUE

\* Drops what a failed view has created, and answers.
Withdraw(r, code) == Delete({loc[r].pipeline}) /\ Answer(r, code)

\* ETLPipelines: the repository with the template is cloned or pulled, and read.
TemplateRefusal(r) ==
    CASE Ask(r).fault = "clone" -> "server_error"
      [] Ask(r).fault = "pull" -> "crashed"
      [] Ask(r).fault = "config" -> "unprocessable"
      [] OTHER -> "none"

PostRefusal(r) ==
    FirstOf(Refusal(r), FirstOf(BodyRefusal(r),
        IF Pipelines(r) # {} THEN "conflict"
        ELSE IF Ask(r).kind = "etl" THEN TemplateRefusal(r) ELSE "none"))

PostPipeline(r) ==
    /\ At(r, "pipelines_post")
    /\ Check(r, PostRefusal(r), "create_pipeline", [Locals EXCEPT !.target = GroupUuid(r)])
    /\ UNCHANGED rollbacks

PipelineRow(r) ==
    NewRow("Pipeline", New(r, "Pipeline", 1), Ask(r).pipeline, Ask(r).user, "none", {loc[r].target})
CreatePipeline(r) ==
    LET row == PipelineRow(r) IN
    /\ At(r, "create_pipeline")
    /\ IF Insertable(row)
       THEN /\ Insert(row)
            /\ loc' = [loc EXCEPT ![r].pipeline = row.uuid, ![r].owner = row.owner,
                                  ![r].rest = Ask(r).archives]
            /\ Goto(r, "link_archives")
       ELSE Answer(r, "bad_request") /\ UNCHANGED rows
    /\ UNCHANGED <<secrets, rollbacks>>

LinkRow(r, archives) ==
    NewRow("PipelineArchive", New(r, "PipelineArchive", Cardinality(loc[r].rest)), "none", "none",
           "none", {loc[r].pipeline} \cup {a.uuid : a \in archives})
\* An archive is looked up and linked; if either fails the pipeline is deleted again.
LinkArchive(r) ==
    /\ At(r, "link_archives")
    /\ \E id \in loc[r].rest :
         LET found == Find("Archive", id, loc[r].target)
             row == LinkRow(r, found)
         IN
         IF found # {} /\ Insertable(row)
         THEN Insert(row) /\ Keep(r, "rest", loc[r].rest \ {id}) /\ UNCHANGED <<pc, reply>>
         ELSE Withdraw(r, "bad_request")
    /\ UNCHANGED <<secrets, rollbacks>>

\* The job tasks of an ETL pipeline, one after the other, and the tasks of the template.
EtlTask(id, type) ==
    [id |-> id, type |-> type, context |-> "plain", destination |-> "plain", fault |-> "none"]
EtlTasks(r) ==
    [i \in 1..Ask(r).jobs |-> EtlTask(<<"etl_job_1", "etl_job_2">>[i], "tapis_job")] \o
    <<EtlTask("gen-inbound-manifests", "template"), EtlTask("inbound-status-reduce", "template")>>

\* The task requests: given, one image build, or the jobs in the template.  A job that
\* is not valid, or a template without the expected task, takes the pipeline with it.
BuildTasks(r) ==
    LET todo == IF Ask(r).kind = "etl" THEN EtlTasks(r) ELSE Ask(r).tasks IN
    /\ At(r, "link_archives") /\ loc[r].rest = {}
    /\ CASE Ask(r).fault = "job" -> Withdraw(r, "bad_request")
         [] Ask(r).fault = "template" -> Withdraw(r, "server_error")
         [] OTHER -> Goto(r, TaskLabel(todo)) /\ Keep(r, "todo", todo) /\ UNCHANGED rows
    /\ UNCHANGED <<secrets, rollbacks>>

Created(r) ==
    /\ At(r, "created")
    /\ Answer(r, "ok")
    /\ UNCHANGED <<rows, secrets, rollbacks>>

\* Fault: a bad request in the middle of the tasks leaves the pipeline.
Withdrawn_Never(r) == FALSE
\* Whether the view deletes the pipeline when a task fails: build_workflow_pipeline does
\* not on a ServerError.
Withdrawn(r) == Asks(r, "pipelines_post")
    /\ ~(Ask(r).kind = "workflow" /\ loc[r].error = "server_error")

\* ETLPipelines hands its request objects, which are no models, to task_service.delete:
\* the error in the handler escapes.
FailureReply(r) ==
    IF Asks(r, "tasks_post") THEN IF loc[r].error = "integrity" THEN "bad_request" ELSE "server_error"
    ELSE IF Ask(r).kind = "etl" THEN "crashed"
    ELSE IF loc[r].error = "server_error" THEN "server_error" ELSE "bad_request"

Failed(r) ==
    /\ At(r, "failed")
    /\ IF Withdrawn(r) THEN Withdraw(r, FailureReply(r))
       ELSE Answer(r, FailureReply(r)) /\ UNCHANGED rows
    /\ UNCHANGED <<secrets, rollbacks>>

\* Pipelines.delete: the tasks one by one, then the pipeline.
DeletePipelineRefusal(r) ==
    FirstOf(Refusal(r),
        IF Pipelines(r) = {} THEN "not_found"
        ELSE IF ThePipeline(r).owner # Ask(r).user THEN "forbidden" ELSE "none")
DeletePipeline(r) ==
    /\ At(r, "pipeline_delete")
    /\ Check(r, DeletePipelineRefusal(r), "delete_tasks",
             [Locals EXCEPT !.pipeline = ThePipeline(r).uuid,
                            !.rest = {t.uuid : t \in Under("Task", ThePipeline(r).uuid)}])
    /\ UNCHANGED rollbacks
DeleteTasks(r) ==
    /\ At(r, "delete_tasks")
    /\ \/ \E task \in loc[r].rest :
            \/ /\ Ask(r).fault # "delete"
               /\ Delete({task})
               /\ Keep(r, "rest", loc[r].rest \ {task})
               /\ UNCHANGED <<pc, reply>>
            \/ Ask(r).fault = "delete" /\ Answer(r, "server_error") /\ UNCHANGED rows
       \/ loc[r].rest = {} /\ Withdraw(r, "ok")
    /\ UNCHANGED <<secrets, rollbacks>>

\* ChangePipelineOwner: the pipeline is checked, and then updated by its id.
ChangeOwner(r) ==
    /\ At(r, "change_owner")
    /\ Check(r, DeletePipelineRefusal(r), "set_owner", [Locals EXCEPT !.target = GroupUuid(r)])
    /\ UNCHANGED rollbacks
SetOwner(r) ==
    /\ At(r, "set_owner")
    /\ rows' = {IF row \in Find("Pipeline", Ask(r).pipeline, loc[r].target)
                THEN [row EXCEPT !.owner = Ask(r).target] ELSE row : row \in rows}
    /\ Answer(r, "ok")
    /\ UNCHANGED <<secrets, rollbacks>>

\* AddPipelineArchive and RemovePipelineArchive.
ArchiveRefusal(r) ==
    FirstOf(Refusal(r),
        IF Pipelines(r) = {} THEN IF Asks(r, "add_archive") THEN "bad_request" ELSE "not_found"
        ELSE FirstOf(BodyRefusal(r), IF Archives(r, Ask(r).id) = {} THEN "not_found" ELSE "none"))
ChangeArchive(r) ==
    /\ At(r, "add_archive") \/ At(r, "remove_archive")
    /\ Check(r, ArchiveRefusal(r), IF Asks(r, "add_archive") THEN "add_link" ELSE "remove_link",
             [Locals EXCEPT !.pipeline = ThePipeline(r).uuid,
                            !.target = (CHOOSE a \in Archives(r, Ask(r).id) : TRUE).uuid])
    /\ UNCHANGED rollbacks
AddLink(r) ==
    LET row == NewRow("PipelineArchive", New(r, "PipelineArchive", 0), "none", "none", "none",
                      {loc[r].pipeline, loc[r].target})
    IN
    /\ At(r, "add_link")
    /\ IF Insertable(row) THEN Insert(row) /\ Answer(r, "ok")
       ELSE Answer(r, "bad_request") /\ UNCHANGED rows
    /\ UNCHANGED <<secrets, rollbacks>>
RemoveLink(r) ==
    /\ At(r, "remove_link")
    /\ Delete({x.uuid : x \in Under("PipelineArchive", loc[r].pipeline)
                           \cap Under("PipelineArchive", loc[r].target)})
    /\ Answer(r, "ok")
    /\ UNCHANGED <<secrets, rollbacks>>

\* Tasks.post validates the body before it looks at the group.
PostTaskRefusal(r) ==
    FirstOf(BodyRefusal(r), FirstOf(Refusal(r),
        IF Pipelines(r) = {} THEN "bad_request" ELSE "none"))
PostTask(r) ==
    /\ At(r, "tasks_post")
    /\ Check(r, PostTaskRefusal(r), TaskLabel(Ask(r).tasks),
             [Locals EXCEPT !.pipeline = ThePipeline(r).uuid, !.owner = ThePipeline(r).owner,
                            !.todo = Ask(r).tasks])
    /\ UNCHANGED rollbacks

\* Tasks.put filters the foreign key pipeline_id, a uuid, by the id of the pipeline: the
\* query is refused whatever the body says, and nothing is updated.
TasksNamed(r) == UNION {Find("Task", Ask(r).id, p.uuid) : p \in Pipelines(r)}
TaskRefusal(r) ==
    FirstOf(Refusal(r), IF TasksNamed(r) = {} THEN "not_found" ELSE "none")
PutTask(r) ==
    /\ At(r, "task_put")
    /\ Answer(r, FirstOf(TaskRefusal(r), FirstOf(BodyRefusal(r), "crashed")))
    /\ UNCHANGED <<rows, secrets, rollbacks>>
DeleteTask(r) ==
    /\ At(r, "task_delete")
    /\ Check(r, TaskRefusal(r), "delete_task",
             [Locals EXCEPT !.target = (CHOOSE t \in TasksNamed(r) : TRUE).uuid])
    /\ UNCHANGED rollbacks
RemoveTask(r) ==
    /\ At(r, "delete_task")
    /\ IF Ask(r).fault = "delete" THEN Answer(r, "server_error") /\ UNCHANGED rows
       ELSE Delete({loc[r].target}) /\ Answer(r, "ok")
    /\ UNCHANGED <<secrets, rollbacks>>

PipelineStep(r) ==
    \/ PostPipeline(r) \/ CreatePipeline(r) \/ LinkArchive(r) \/ BuildTasks(r)
    \/ CreateTask(r) \/ Created(r) \/ Failed(r)
    \/ DeletePipeline(r) \/ DeleteTasks(r) \/ ChangeOwner(r) \/ SetOwner(r)
    \/ ChangeArchive(r) \/ AddLink(r) \/ RemoveLink(r)
    \/ PostTask(r) \/ PutTask(r) \/ DeleteTask(r) \/ RemoveTask(r)
=============================================================================

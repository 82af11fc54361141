------------------------------ MODULE ReadViews ------------------------------
(***************************************************************************)
(* The GET operations of the views.  They change nothing, and each is one  *)
(* step: what matters of them is what they answer while rows come and go.  *)
(* The id "none" asks for the list.                                        *)
(***************************************************************************)
EXTENDS RunViews

Listing(r) == Ask(r).id = "none"
\* One of a list that was asked for, or the reply when there is no such row.
OneOf(r, found, code) == IF Listing(r) \/ found # {} THEN "ok" ELSE code

PipelineOr(r, code) == IF Pipelines(r) = {} THEN code ELSE "none"
RunsNamed(r) == {x \in Rows("PipelineRun") : x.uuid = New(Ask(r).id, "PipelineRun", 1)
                    /\ \E p \in Pipelines(r) : p.uuid \in x.above}

GroupsGet(r) ==
    IF Listing(r) THEN "ok"
    ELSE FirstOf(Refusal(r), "ok")

\* Users.get takes the first user of that name from an iterator that may have none.
UsersGet(r) == FirstOf(Refusal(r), OneOf(r, {g \in Groups(r) : IsMember(r)}, "crashed"))

IdentitiesGet(r) ==
    LET found == {i \in Rows("Identity") : i.id = Ask(r).id} IN
    IF Listing(r) THEN "ok"
    ELSE IF found = {} THEN "not_found"
    ELSE IF \A i \in found : i.owner # Ask(r).user THEN "forbidden" ELSE "ok"

ArchivesGet(r) == FirstOf(Refusal(r), OneOf(r, Archives(r, Ask(r).id), "not_found"))

PipelinesGet(r) == FirstOf(Refusal(r), IF Ask(r).pipeline = "none" THEN "ok"
                                       ELSE FirstOf(PipelineOr(r, "not_found"), "ok"))

TasksGet(r) ==
    FirstOf(Refusal(r), FirstOf(PipelineOr(r, "bad_request"),
        OneOf(r, TasksNamed(r), "not_found")))

PipelineArchivesGet(r) == FirstOf(Refusal(r), FirstOf(PipelineOr(r, "bad_request"), "ok"))

PipelineRunsGet(r) ==
    FirstOf(Refusal(r), FirstOf(PipelineOr(r, "bad_request"),
        OneOf(r, RunsNamed(r), "bad_request")))

\* A single execution is looked up without regard to the run.
TaskExecutionsGet(r) ==
    FirstOf(Refusal(r), FirstOf(PipelineOr(r, "bad_request"),
        IF RunsNamed(r) = {} THEN "bad_request"
        ELSE IF Ask(r).value = "list"
                \/ \E x \in Rows("TaskExecution") : x.uuid = New(Ask(r).id, "TaskExecution", Ask(r).value)
        THEN "ok" ELSE "not_found"))

ReadReply(r) ==
    CASE Asks(r, "groups_get") -> GroupsGet(r)
      [] Asks(r, "users_get") -> UsersGet(r)
      [] Asks(r, "identities_get") -> IdentitiesGet(r)
      [] Asks(r, "archives_get") -> ArchivesGet(r)
      [] Asks(r, "pipelines_get") -> PipelinesGet(r)
      [] Asks(r, "tasks_get") -> TasksGet(r)
      [] Asks(r, "pipeline_archives_get") -> PipelineArchivesGet(r)
      [] Asks(r, "runs_get") -> PipelineRunsGet(r)
      [] Asks(r, "executions_get") -> TaskExecutionsGet(r)

Reads == {"groups_get", "users_get", "identities_get", "archives_get", "pipelines_get",
          "tasks_get", "pipeline_archives_get", "runs_get", "executions_get"}

ReadStep(r) ==
    /\ pc[r] \in Reads
    /\ Answer(r, ReadReply(r))
    /\ UNCHANGED <<rows, secrets, rollbacks>>
=============================================================================

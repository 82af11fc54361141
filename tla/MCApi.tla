-------------------------------- MODULE MCApi --------------------------------
(***************************************************************************)
(* Batches of three requests on a small database: a group with its owner   *)
(* olga and a member mia, one pipeline of two tasks, one of which builds   *)
(* an image with olga's identity, another one with a task of the same id,  *)
(* and an archive.                                                         *)
(***************************************************************************)
EXTENDS Api

MCRequest == {"a", "b", "c"}
MCWorker == {"w1", "w2"}
MCNoRow == <<"none", "none", 0>>

Uuid(table, n) == <<"seed", table, n>>
Key(table, n) == <<"none", "none", {Uuid(table, n)}>>
Stored(table, n, id, owner, value, key, above) ==
    [table |-> table, uuid |-> Uuid(table, n), id |-> id, owner |-> owner, value |-> value,
     key |-> key, above |-> above, current |-> MCNoRow, last |-> MCNoRow]
G == Uuid("Group", 1)
P == Uuid("Pipeline", 1)
Q == Uuid("Pipeline", 2)
K == Uuid("Credentials", 1)
I == Uuid("Identity", 1)
C == Uuid("Context", 1)
MCSeed ==
    { Stored("Group", 1, "g", "olga", "none", <<"g", "none", {}>>, {}),
      Stored("GroupUser", 1, "olga", "none", "admin", Key("GroupUser", 1), {G}),
      Stored("GroupUser", 2, "mia", "none", "member", Key("GroupUser", 2), {G}),
      Stored("Archive", 1, "arc", "olga", "none", <<"arc", "none", {G}>>, {G}),
      Stored("Credentials", 1, "none", "olga", "none", Key("Credentials", 1), {}),
      Stored("Identity", 1, "key", "olga", "none", <<"key", "olga", {}>>, {K}),
      Stored("Pipeline", 1, "p", "olga", "none", <<"p", "none", {G}>>, {G}),
      Stored("Task", 1, "t1", "olga", "function", <<"t1", "none", {P}>>, {P, G}),
      Stored("Pipeline", 2, "other", "mia", "none", <<"other", "none", {G}>>, {G}),
      Stored("Task", 3, "t1", "mia", "function", <<"t1", "none", {Q}>>, {Q, G}),
      Stored("Context", 1, "none", "olga", "none", Key("Context", 1), {I, K}),
      Stored("Task", 2, "t2", "olga", "image_build", <<"t2", "none", {P}>>, {P, G, C, I, K}) }

Base(op) ==
    [op |-> op, worker |-> "w1", user |-> "olga", token |-> "valid", valid |-> TRUE,
     group |-> "g", pipeline |-> "p", id |-> "none", kind |-> "workflow", tasks |-> <<>>,
     archives |-> {}, users |-> <<>>, value |-> "member", target |-> "mia", jobs |-> 2,
     fault |-> "none", after |-> {}]
Idle(others) == [Base("task_put") EXCEPT !.token = "missing", !.after = others]

Build(id, context, destination, fault) ==
    [id |-> id, type |-> "image_build", context |-> context, destination |-> destination,
     fault |-> fault]
Function(id, fault) == [Build(id, "plain", "plain", fault) EXCEPT !.type = "function"]

Batch(a, b, c) == [r \in MCRequest |-> CASE r = "a" -> a [] r = "b" -> b [] r = "c" -> c]
Pair(a, b) == Batch(a, b, Idle({"a", "b"}))
Alone(a) == Pair(a, Idle({"a"}))

Other(op) == [Base(op) EXCEPT !.pipeline = "other"]
Tasks(tasks, worker) == [Base("tasks_post") EXCEPT !.tasks = tasks, !.worker = worker]
Post(id, kind, tasks, archives) ==
    [Base("pipelines_post") EXCEPT !.pipeline = id, !.kind = kind, !.tasks = tasks,
                                   !.archives = archives]
User(op, name) == [Base(op) EXCEPT !.id = name]
After(call, before) == [call EXCEPT !.after = before]
With(call, fault) == [call EXCEPT !.fault = fault]

\* A creation that fails beside others, at each of its writes, in the same process or not.
TaskBatches ==
    { Batch(Tasks(<<Build("x", "credentials", "plain", "none")>>, "w1"),
            Tasks(<<Build("y", "plain", "credentials", fault)>>, "w1"),
            Tasks(<<Function("z", "none")>>, "w2")) :
          fault \in {"task", "secret", "credentials", "Destination", "schema"} }
    \cup
    { Batch(Tasks(<<Build("x", "credentials", "key", "none")>>, "w1"),
            With(Tasks(<<Build("t1", "credentials", "plain", "none")>>, worker), fault),
            User("identity_delete", "key")) :
          worker \in MCWorker, fault \in {"none", "undo", "undo_row"} }
    \cup
    { Alone(Tasks(<<Build("x", c, d, "Context")>>, "w1")) :
          c \in {"plain", "credentials", "nobody"}, d \in {"plain", "key"} }

\* Pipelines that fail at each of their writes, twice the same one, and deletions meanwhile.
PipelineBatches ==
    { Pair(Post("q", "workflow", <<Build("x", "key", "credentials", "none"), Function("y", fault)>>,
                {"arc"}),
           User("archive_delete", "arc")) : fault \in {"none", "task"} }
    \cup
    { Pair(Post("q", "workflow", <<Function("y", "none"), Build("x", "credentials", "plain", "secret")>>, {}),
           Post("q", "ci", <<Build("build", "credentials", "plain", fault)>>, {"arc", "gone"})) :
          fault \in {"none", "schema"} }
    \cup
    { Pair(Post("q", "workflow", <<Function("y", "none"), Function("x", fault)>>, {}),
           [Tasks(<<Function("z", "none")>>, "w2") EXCEPT !.pipeline = "q"]) :
          fault \in {"none", "task"} }
    \cup
    { Pair(Post("q", "ci", <<Build("build", "plain", "credentials", fault)>>, {"arc"}),
           With(Post("q", "etl", <<>>, {"arc"}), broken)) :
          fault \in {"none", "schema", "secret"},
          broken \in {"none", "clone", "pull", "config", "job", "template"} }
    \cup
    { Batch(User("pipeline_delete", "none"),
            Post("p", "workflow", <<Function("t1", "none")>>, {}),
            [Base("change_owner") EXCEPT !.user = user]) : user \in {"olga", "mia", "nobody"} }
    \cup
    { Batch(User("pipeline_delete", "none"), Tasks(<<Build("x", "plain", "plain", "none")>>, "w1"),
            User("task_delete", "t1")),
      Pair(With(User("pipeline_delete", "none"), "delete"), With(User("task_delete", "t2"), "delete")),
      Batch(User("add_archive", "arc"), User("remove_archive", "arc"), User("add_archive", "arc")),
      Batch(User("add_archive", "arc"), User("pipeline_delete", "none"), User("archive_delete", "arc")) }

\* Runs one after the other and at once, with a broker or calls that fail, or a pipeline deleted.
RunBatches ==
    { Batch(User("task_delete", "t1"), After(Base("run"), {"a"}), After(Base("run"), {"a", "b"})),
      Batch(With(Other("run"), "broker"), After(Other("run"), {"a"}), After(Other("run"), {"a", "b"})),
      Pair(Base("run"), With(Base("run"), "broker")),
      Batch(Base("run"), User("pipeline_delete", "none"), With(Base("run"), "broker")),
      Batch(Base("run"), After(User("task_delete", "t1"), {}), After(Idle({"a", "b"}), {"a", "b"})),
      Alone(With(Base("run"), "report")),
      Pair(With(Other("run"), "report"), Other("run")) }

\* Members added and removed at once, accounts that are refused.
AccountBatches ==
    { Batch([Base("groups_post") EXCEPT !.group = "h",
                !.users = <<[id |-> "mia", value |-> "admin"], [id |-> "olga", value |-> "member"]>>],
            [User("users_delete", "olga") EXCEPT !.group = "h", !.user = "mia"],
            [User("users_post", "nia") EXCEPT !.group = "h"]),
      Pair(User("users_delete", "olga"), [User("users_post", "olga") EXCEPT !.user = "mia"]),
      Pair([Base("groups_post") EXCEPT !.group = "h"], [Base("groups_post") EXCEPT !.group = "h"]),
      Batch(User("users_post", "nia"), After(User("users_post", "nia"), {"a"}),
            User("users_delete", "nia")),
      Batch(User("users_post", "nia"), User("users_post", "nia"), User("users_delete", "nia")),
      Batch([User("users_post", "nia") EXCEPT !.value = "admin"],
            After([User("users_post", "ann") EXCEPT !.value = "admin"], {"a"}),
            After([User("users_delete", "nia") EXCEPT !.user = "ann"], {"b"})),
      Batch(User("identities_post", "new"), User("identities_post", "new"),
            User("identity_delete", "new")),
      Batch(User("identities_post", "new"), With(User("identities_post", "new"), "undo"),
            With(User("identities_post", "new"), "undo_row")),
      Pair([User("archives_post", "arc2") EXCEPT !.kind = "system"],
           [User("archives_post", "arc2") EXCEPT !.kind = "system"]) }
    \cup
    { Pair([User(op, "mia") EXCEPT !.user = user, !.valid = valid], [Base("groups_post") EXCEPT !.group = "h"]) :
          op \in {"users_patch", "task_put", "users_delete", "add_archive", "remove_archive"},
          user \in {"olga", "mia", "nobody"}, valid \in BOOLEAN }
    \cup
    { Alone(With([User(op, "key") EXCEPT !.group = "h", !.kind = "system",
                      !.users = <<[id |-> "mia", value |-> "member"]>>], fault)) :
          op \in {"groups_post", "identities_post", "identity_delete", "archives_post"},
          fault \in {"admin", "users", "secret", "credentials", "identity", "undo", "undo_row"} }
    \cup
    { Alone(With([User("archives_post", "arc2") EXCEPT !.kind = kind], fault)) :
          kind \in {"system", "s3"}, fault \in {"system", "no_system", "no_access"} }
    \cup { Alone([Base("run") EXCEPT !.token = "invalid"]) }

\* Everything that can be read, by everybody, while tasks and runs come and go.
ReadBatches ==
    { Pair(Base("run"), After([User(op, id) EXCEPT !.value = execution], {"a"})) :
          op \in {"runs_get", "executions_get"}, id \in {"none", "a"}, execution \in {"t1", "list"} }
    \cup
    { Pair(User("pipeline_delete", "none"), User(op, id)) :
          op \in Reads, id \in {"none", "t1", "arc", "key"} }
    \cup
    { Alone([User(op, "key") EXCEPT !.user = "nobody", !.value = "list"]) : op \in Reads }

MCBatches == ReadBatches \cup TaskBatches \cup PipelineBatches \cup RunBatches \cup AccountBatches
=============================================================================

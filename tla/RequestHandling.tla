--------------------------- MODULE RequestHandling ---------------------------
(***************************************************************************)
(* What every view shares.  A request waits for those its client has sent  *)
(* before it, is authenticated by RestrictedAPIView, runs the view of its  *)
(* operation and is answered.  Gunicorn serves it in one of several worker *)
(* processes, each with gevent: requests overlap in a process too, and a   *)
(* process has one copy of the module-level services.  The checks a view   *)
(* makes before it first writes are one step; every write, and every call  *)
(* to another service, is one of its own.                                  *)
(***************************************************************************)
EXTENDS Database

CONSTANTS
    Request,    \* the requests of a batch
    Worker,     \* the worker processes
    Batches,    \* what the requests ask for, as functions on Request
    Seed        \* the rows the database starts with

\* The rows of the start are those a database can have: each with its own uuid, its
\* foreign keys and its unique key.  A user has an entry for each of his groups, a group
\* its owner as admin, an identity its credentials, and a task its pipeline.
ASSUME SeedAssumption ==
    /\ \A row \in Seed :
          /\ IsRow(row) /\ row.uuid[2] = row.table /\ row.uuid[1] \notin Request
          /\ row.above \subseteq {x.uuid : x \in Seed}
          /\ \A x \in row.above : <<row.table, x[2]>> \in Hangs
          /\ row.table \in {"GroupUser", "Credentials", "TaskExecution"} =>
                row.key = <<"none", "none", {row.uuid}>>
          /\ row.table = "Task" =>
                \E p \in row.above : /\ row.key = <<row.id, "none", {p}>>
                                     /\ {x \in row.above : x[2] = "Pipeline"} = {p}
          /\ row.table = "GroupUser" => \E g \in Seed : g.table = "Group" /\ row.above = {g.uuid}
          /\ row.table = "Group" =>
                \E m \in Seed : /\ m.table = "GroupUser" /\ m.above = {row.uuid}
                                /\ m.id = row.owner /\ m.value = "admin"
          /\ row.table = "Identity" => row.above # {}
    /\ \A a, b \in Seed :
          /\ a.uuid = b.uuid \/ (a.table = b.table /\ a.key = b.key) => a = b
          /\ b.uuid \in a.above => b.above \subseteq a.above

VARIABLES
    batch,      \* the batch being served
    pc,         \* where each request is
    reply,      \* what it was answered
    loc         \* the local variables of its view

Ask(r) == batch[r]
Answers == {"none", "ok", "bad_request", "unauthorized", "forbidden", "not_found",
            "conflict", "unprocessable", "server_error", "crashed"}

Locals == [pipeline |-> NoRow, owner |-> "none", authn |-> {}, half |-> "Context",
           context |-> {}, destination |-> {}, target |-> NoRow, todo |-> <<>>,
           rest |-> {}, error |-> "none", undone |-> 0, passes |-> 0]

HandlingInit ==
    /\ batch \in Batches
    /\ pc = [r \in Request |-> "sent"]
    /\ reply = [r \in Request |-> "none"]
    /\ loc = [r \in Request |-> Locals]
    /\ rows = Seed
    /\ secrets = {row.uuid : row \in {x \in Seed : x.table = "Credentials"}}

Goto(r, label) == pc' = [pc EXCEPT ![r] = label] /\ UNCHANGED reply
Keep(r, field, value) == loc' = [loc EXCEPT ![r][field] = value]
Answer(r, code) ==
    /\ pc' = [pc EXCEPT ![r] = "done"]
    /\ reply' = [reply EXCEPT ![r] = code]
    /\ UNCHANGED loc

\* The uuid of the n-th row of a table that a request makes.
New(r, table, n) == <<r, table, n>>

Groups(r) == {row \in Rows("Group") : row.id = Ask(r).group}
Members(group, user) == {row \in Under("GroupUser", group.uuid) : row.id = user}
UserInGroup(r) == \E g \in Groups(r) : Members(g, Ask(r).user) # {}
UserIsAdmin(r) == \E g \in Groups(r) : \E m \in Members(g, Ask(r).user) : m.value = "admin"
UserOwnsGroup(r, user) == \E g \in Groups(r) : g.owner = user
Pipelines(r) == UNION {Find("Pipeline", Ask(r).pipeline, g.uuid) : g \in Groups(r)}
Archives(r, id) == UNION {Find("Archive", id, g.uuid) : g \in Groups(r)}

\* The checks most views begin with: the reply, or none if the request may go on.
Refusal(r) ==
    IF Groups(r) = {} THEN "not_found"
    ELSE IF ~UserInGroup(r) THEN "forbidden" ELSE "none"
AdminRefusal(r) ==
    IF Groups(r) = {} THEN "not_found"
    ELSE IF ~UserIsAdmin(r) THEN "forbidden" ELSE "none"

\* Views of groups, users and pipelines check the group before they validate the body.
BodyRefusal(r) == IF Ask(r).valid THEN "none" ELSE "bad_request"
FirstOf(a, b) == IF a # "none" THEN a ELSE b

\* RestrictedAPIView.dispatch.
Authenticate(r) ==
    /\ pc[r] = "sent"
    /\ \A q \in Ask(r).after : pc[q] = "done"
    /\ \/ Ask(r).token = "missing" /\ Answer(r, "bad_request")
       \/ Ask(r).token = "invalid" /\ Answer(r, "unauthorized")
       \/ Ask(r).token = "valid" /\ Goto(r, Ask(r).op) /\ UNCHANGED loc
    /\ UNCHANGED <<rows, secrets>>

At(r, label) == pc[r] = label
Asks(r, op) == Ask(r).op = op

\* The checks of a view: a reply, or on to its first write with what was read.
Check(r, code, label, locals) ==
    /\ IF code # "none" THEN Answer(r, code)
       ELSE Goto(r, label) /\ loc' = [loc EXCEPT ![r] = locals]
    /\ UNCHANGED <<rows, secrets>>
=============================================================================

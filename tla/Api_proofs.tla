------------------------------ MODULE Api_proofs ------------------------------
(***************************************************************************)
(* Theorems about module Api for every batch of requests, however many     *)
(* requests and worker processes there are, and every database it starts   *)
(* with.                                                                   *)
(***************************************************************************)
EXTENDS Api, FiniteSetTheorems, TLAPS

-----------------------------------------------------------------------------
(***************************************************************************)
(* What the queries of module Database keep, whatever the rows are.        *)
(***************************************************************************)
\* Tables whose rows have no unique constraint, and are inserted without a check.
Unchecked == {"GroupUser", "Credentials"}

\* A row of a table that is removed with another is removed with all that this
\* one is removed with: a delete leaves no foreign key behind.
Transitive == \A a, b \in rows : b.uuid \in a.above => b.above \subseteq a.above

Identified ==
    /\ \A row \in rows : IsRow(row) /\ row.uuid[2] = row.table
    /\ \A a, b \in rows : a.uuid = b.uuid => a = b
    /\ \A row \in rows : row.table \in Unchecked => row.key = <<"none", "none", {row.uuid}>>

Sound == DatabaseIntegrity /\ Transitive /\ Identified

LEMMA OwnKey ==
  ASSUME NEW table \in Unchecked, NEW uuid, NEW id, NEW owner, NEW keys
  PROVE  UniqueKey(table, uuid, id, owner, keys) = <<"none", "none", {uuid}>>
  BY Zenon DEF UniqueKey, Unchecked

LEMMA RowFields ==
  ASSUME NEW table \in Table, NEW uuid, NEW id, NEW owner, NEW value, NEW keys
  PROVE  LET row == NewRow(table, uuid, id, owner, value, keys) IN
         /\ IsRow(row)
         /\ row.table = table /\ row.uuid = uuid /\ row.id = id /\ row.owner = owner
         /\ row.value = value /\ row.above = Above(keys)
         /\ table \in Unchecked => row.key = <<"none", "none", {uuid}>>
<1> DEFINE K == UniqueKey(table, uuid, id, owner, keys)
<1>1. table \in Unchecked => K = <<"none", "none", {uuid}>>
  BY OwnKey
<1> HIDE DEF K
<1> QED
  BY <1>1 DEF NewRow, IsRow, K

LEMMA InsertSound ==
  ASSUME Sound, NEW row, Insert(row), IsRow(row), row.uuid \notin Uuids,
         row.uuid[2] = row.table, NEW keys,
         row.above = Above(keys), row.above \subseteq Uuids,
         row.table \in Unchecked => row.key = <<"none", "none", {row.uuid}>>,
         row.table \in Unchecked \/ Insertable(row)
  PROVE  Sound' /\ Uuids' = Uuids \cup {row.uuid}
<1>1. rows' = rows \cup {row}
  BY DEF Insert
<1>2. Uuids' = Uuids \cup {row.uuid}
  BY <1>1 DEF Uuids
<1>3. \A other \in rows : other.table = row.table => other.key # row.key
  <2>1. CASE row.table \in Unchecked
    BY <2>1 DEF Sound, Identified, Uuids
  <2> QED
    BY <2>1 DEF Insertable, Rows
<1>4. DatabaseIntegrity'
  BY <1>1, <1>2, <1>3 DEF Sound, DatabaseIntegrity
<1>5. Transitive'
  <2> SUFFICES ASSUME NEW a \in rows', NEW b \in rows', b.uuid \in a.above
               PROVE  b.above \subseteq a.above
    BY DEF Transitive
  <2>1. b \in rows
    BY <1>1 DEF Sound, DatabaseIntegrity
  <2>2. CASE a \in rows
    BY <2>1, <2>2 DEF Sound, Transitive
  <2>3. CASE a = row
    BY <2>1, <2>3 DEF Sound, Transitive, Above
  <2> QED
    BY <1>1, <2>2, <2>3
<1>6. Identified'
  BY <1>1 DEF Sound, Identified, Uuids
<1> QED
  BY <1>2, <1>4, <1>5, <1>6 DEF Sound

LEMMA DeleteSound ==
  ASSUME Sound, NEW uuids, Delete(uuids)
  PROVE  /\ Sound' /\ rows' \subseteq rows
         /\ \A row \in rows : row.uuid \notin uuids /\ row.above \cap uuids = {} => row \in rows'
         /\ \A row \in rows' : row.uuid \notin uuids /\ row.above \cap uuids = {}
<1>1. rows' = {row \in rows : row.uuid \notin uuids /\ row.above \cap uuids = {}}
  BY DEF Delete, Without
<1>2. DatabaseIntegrity'
  <2>1. ASSUME NEW a \in rows', NEW x \in a.above PROVE x \in Uuids'
    <3>1. PICK b \in rows : b.uuid = x
      BY <1>1 DEF Sound, DatabaseIntegrity, Uuids
    <3>2. b.above \subseteq a.above
      BY <1>1, <3>1 DEF Sound, Transitive
    <3> QED
      BY <1>1, <3>1, <3>2 DEF Uuids
  <2> QED
    BY <1>1, <2>1 DEF Sound, DatabaseIntegrity
<1> QED
  BY <1>1, <1>2 DEF Sound, Transitive, Identified

\* Rows are updated one by one, without their uuid, key or foreign keys.
Alike(row, new) ==
    /\ IsRow(new)
    /\ new.table = row.table /\ new.uuid = row.uuid /\ new.key = row.key
    /\ new.above = row.above

LEMMA UpdateSound ==
  ASSUME Sound,
         \A new \in rows' : \E row \in rows : Alike(row, new),
         \A row \in rows : \E new \in rows' : Alike(row, new),
         \A a, b \in rows' : a.uuid = b.uuid => a = b
  PROVE  Sound' /\ Uuids' = Uuids
<1>1. Uuids' = Uuids
  BY DEF Uuids, Alike
<1>2. DatabaseIntegrity'
  <2>1. ASSUME NEW a \in rows', NEW b \in rows', a.table = b.table, a.key = b.key
        PROVE  a = b
    <3>1. PICK x \in rows : Alike(x, a)
      OBVIOUS
    <3>2. PICK y \in rows : Alike(y, b)
      OBVIOUS
    <3>3. x.table = y.table /\ x.key = y.key
      BY <2>1, <3>1, <3>2 DEF Alike
    <3>4. x = y
      BY <3>3 DEF Sound, DatabaseIntegrity
    <3> QED
      BY <3>1, <3>2, <3>4 DEF Alike
  <2> QED
    BY <1>1, <2>1 DEF Sound, DatabaseIntegrity, Alike
<1>3. Transitive'
  BY DEF Sound, Transitive, Alike
<1>4. Identified'
  BY DEF Sound, Identified, Alike
<1> QED
  BY <1>1, <1>2, <1>3, <1>4 DEF Sound

\* The owner or the value of a row is changed, or the runs that it names.
LEMMA FieldUpdates ==
  ASSUME NEW row, IsRow(row), NEW x, NEW y, NEW new,
         \/ new = [row EXCEPT !.owner = x]
         \/ new = [row EXCEPT !.value = x]
         \/ new = [row EXCEPT !.current = x, !.last = y]
  PROVE  Alike(row, new) /\ new.id = row.id
  BY DEF IsRow, Alike

-----------------------------------------------------------------------------
(***************************************************************************)
(* Where requests are                                                      *)
(***************************************************************************)

\* The places of the requests that create tasks ...
CreatesTask == {"authn", "save_credentials", "make_half", "make_task"}
Creating == CreatesTask \cup {"created", "rollback", "rollback_row", "failed"}

\* ... and of each operation.
Flows ==
    ({"pipelines_post"} \X (Creating \cup {"create_pipeline", "link_archives"}))
    \cup ({"tasks_post"} \X Creating)
    \cup ({"groups_post"} \X {"create_group", "create_admin", "create_users"})
    \cup ({"identities_post"} \X {"identity_secret", "identity_credentials", "create_identity"})
    \cup ({"identities_post", "identity_delete"} \X {"drop_secret", "drop_row"})
    \cup ({"run"} \X {"create_run", "read_current", "set_current", "publish"})
    \cup {<<"users_post", "create_user">>, <<"users_delete", "delete_user">>,
          <<"archives_post", "create_archive">>, <<"archive_delete", "delete_archive">>,
          <<"pipeline_delete", "delete_tasks">>, <<"change_owner", "set_owner">>,
          <<"add_archive", "add_link">>, <<"remove_archive", "remove_link">>,
          <<"task_delete", "delete_task">>}

\* The tasks of an ETL pipeline.
EtlAsked == [id : {"etl_job_1", "etl_job_2", "gen-inbound-manifests", "inbound-status-reduce"},
             type : {"tapis_job", "template"}, context : {"plain"}, destination : {"plain"},
             fault : {"none"}]

IsLocals(l) ==
    l \in [pipeline : {l.pipeline}, owner : {l.owner}, authn : {l.authn},
           half : {"Context", "Destination"}, context : {l.context},
           destination : {l.destination}, target : {l.target},
           todo : Seq(UserAsked \cup TaskAsked \cup EtlAsked), rest : {l.rest}, error : {l.error},
           undone : Nat, passes : {l.passes}]

Placed(r) ==
    /\ pc[r] \in {"sent", "done", Ask(r).op} \/ <<Ask(r).op, pc[r]>> \in Flows
    /\ pc[r] = "done" <=> reply[r] # "none"
    /\ reply[r] \in Answers
    /\ IsLocals(loc[r])
    /\ pc[r] = "link_archives" => IsFiniteSet(loc[r].rest)
    /\ pc[r] \in CreatesTask => loc[r].todo # <<>>

Control ==
    /\ batch \in Batches
    /\ DOMAIN pc = Request /\ DOMAIN reply = Request /\ DOMAIN loc = Request
    /\ reply = [r \in Request |-> reply[r]]
    /\ \A r \in Request : Placed(r)

\* A step of request r leaves the others where they are.
Frame(r) ==
    /\ batch' = batch
    /\ DOMAIN pc' = Request /\ DOMAIN reply' = Request /\ DOMAIN loc' = Request
    /\ reply' = [q \in Request |-> reply'[q]]
    /\ \A q \in Request \ {r} : pc'[q] = pc[q] /\ reply'[q] = reply[q] /\ loc'[q] = loc[q]

-----------------------------------------------------------------------------
(***************************************************************************)
(* What a request may still make                                           *)
(***************************************************************************)
OfTask == {"Task", "Context", "Destination", "Credentials"}

\* While request r makes the task whose number is the length of todo ...
AheadInTask(r, table, n) ==
    LET number == Len(loc[r].todo)
        first == loc[r].half = "Context"
        secret == pc[r] \in {"authn", "save_credentials"}
    IN
    \/ table = "Task" /\ n \in 1 .. number
    \/ table = "Context" /\ n \in 1 .. number /\ (n = number => first)
    \/ table = "Destination" /\ n \in 1 .. number /\ (n = number => pc[r] # "make_task" \/ first)
    \/ /\ table = "Credentials" /\ n \in 2 .. 2 * number + 1
       /\ n = 2 * number => first /\ secret
       /\ n = 2 * number + 1 => first \/ secret

\* ... and in general: the rows that request r may still insert.
Ahead(r, table, n) ==
    \/ pc[r] \in {"sent"} \cup Operation
    \/ <<pc[r], table>> \in
          ({"create_group"} \X {"Group", "GroupUser"})
          \cup ({"identity_secret", "identity_credentials"} \X {"Credentials", "Identity"})
          \cup ({"create_pipeline"} \X (OfTask \cup {"Pipeline", "PipelineArchive"}))
          \cup ({"link_archives"} \X OfTask)
          \cup ({"create_run", "read_current", "set_current", "publish"} \X {"TaskExecution"})
          \cup {<<"create_admin", "GroupUser">>, <<"create_user", "GroupUser">>,
                <<"create_identity", "Identity">>, <<"create_archive", "Archive">>,
                <<"add_link", "PipelineArchive">>, <<"create_run", "PipelineRun">>}
    \/ pc[r] = "create_users" /\ table = "GroupUser" /\ n \in 1 .. Len(loc[r].todo)
    \/ pc[r] = "link_archives" /\ table = "PipelineArchive" /\ n \in 1 .. Cardinality(loc[r].rest)
    \/ pc[r] \in CreatesTask /\ AheadInTask(r, table, n)
    \/ table = "TaskExecution" /\ n \in engine[r].waiting

\* Nothing that is not ahead of a request comes to be ahead of it.
Advances(r) == \A table, n : Ahead(r, table, n)' => Ahead(r, table, n)

-----------------------------------------------------------------------------
(***************************************************************************)
(* The inductive invariant                                                 *)
(***************************************************************************)

\* The uuids of rows, of rollbacks that are registered, and of rows that a
\* request has read and is about to delete.
Registered == UNION {{rollbacks[w][i].uuid : i \in 1 .. Len(rollbacks[w])} : w \in Worker}
Aimed(r) == pc[r] \in {"create_identity", "drop_secret", "delete_user"}
Held == Uuids \cup Registered \cup {loc[r].target : r \in {q \in Request : Aimed(q)}}

\* No row is made twice, and none that is gone comes back.
Fresh == \A u \in Held : u[1] \in Request => ~Ahead(u[1], u[2], u[3])

\* What a rollback deletes was made by a request of the same process.
Entries ==
    /\ DOMAIN rollbacks = Worker
    /\ \A w \in Worker :
          /\ rollbacks[w] \in Seq([kind : {"row", "secret"},
                  uuid : Request \X {"Credentials", "Context", "Destination"} \X Nat])
          /\ \A i \in 1 .. Len(rollbacks[w]) :
                LET entry == rollbacks[w][i] IN
                /\ Ask(entry.uuid[1]).worker = w
                /\ entry.kind = "secret" <=> entry.uuid[2] = "Credentials"
                /\ entry.uuid[2] = "Credentials" => entry.uuid[3] # 0

\* Rows refer to rows of the tables that theirs has foreign keys to.
Hanging ==
    /\ \A row \in rows : \A x \in row.above : <<row.table, x[2]>> \in Hangs
    /\ \A row \in Rows("Identity") : row.above # {}

\* The owner of a group is an admin of it as soon as his entry was made.
HasOwner(g) == \E m \in rows : /\ m.table = "GroupUser" /\ m.above = {g.uuid}
                               /\ m.id = g.owner /\ m.value = "admin"
Owned ==
    /\ \A m \in Rows("GroupUser") : \E g \in Rows("Group") : m.above = {g.uuid}
    /\ \A g \in Rows("Group") :
          IF g.uuid[1] \in Request
          THEN /\ g.uuid = New(g.uuid[1], "Group", 1)
               /\ pc[g.uuid[1]] \in {"create_admin", "create_users", "done"}
               /\ pc[g.uuid[1]] = "create_users" \/ reply[g.uuid[1]] = "ok" => HasOwner(g)
          ELSE HasOwner(g)

\* What a request has read is what it takes it for: groups are never deleted.
GroupAt(uuid) == \E g \in Rows("Group") : g.uuid = uuid
PointsAt(r, place, l) ==
    /\ place \in {"create_admin", "create_users"} =>
          /\ l.target = New(r, "Group", 1)
          /\ \E g \in Rows("Group") : g.uuid = l.target /\ g.owner = Ask(r).user
    /\ place \in {"create_user", "create_archive", "create_pipeline"} => GroupAt(l.target)
    /\ place = "delete_user" =>
          /\ l.target[2] = "GroupUser"
          /\ \A m \in rows : m.uuid = l.target =>
                \A g \in Rows("Group") : g.uuid \in m.above => m.id # g.owner
    /\ place = "create_identity" => l.target = New(r, "Credentials", 0)
    /\ place \in {"drop_secret", "drop_row"} => l.target[2] = "Credentials"
    /\ place = "rollback_row" => l.undone < Len(rollbacks[Ask(r).worker])
    /\ place = "delete_archive" => l.target[2] = "Archive"
    /\ place = "delete_task" => l.target[2] = "Task"
    /\ place \in {"add_link", "remove_link"} => l.target[2] = "Archive"
    /\ place \in Creating \cup {"link_archives", "delete_tasks", "add_link", "remove_link",
                                "create_run", "read_current", "set_current"} =>
          l.pipeline[2] = "Pipeline"
    /\ place = "delete_tasks" => \A task \in l.rest : task[2] = "Task"
    /\ Asks(r, "pipelines_post") /\ place \in Creating \cup {"link_archives"} =>
          l.pipeline = New(r, "Pipeline", 1)
    /\ place \in CreatesTask \cup {"create_pipeline", "link_archives"} =>
          /\ \A u \in l.authn : \/ u[2] = "Identity"
                                \/ u[1] = r /\ u[2] = "Credentials" /\ u[3] # 0
          /\ \A u \in l.context : u[1] = r /\ u[2] = "Context"
          /\ \A u \in l.destination : u[1] = r /\ u[2] = "Destination"
Points(r) == PointsAt(r, pc[r], loc[r])

\* A secret is there from before its row is made until a request deletes it.
Secrets ==
    /\ \A k \in Rows("Credentials") : k.uuid \in secrets \/ \E r \in Request : CutShort(r, k.uuid)
    /\ \A r \in Request :
          /\ pc[r] = "identity_credentials" => New(r, "Credentials", 0) \in secrets
          /\ pc[r] = "save_credentials" => CredentialsOf(r) \in secrets

\* The contexts, destinations and credentials of a task, and the credentials of
\* these, are made by the request that makes the task; the credentials of an
\* identity only ever have it between them and another row.
Lineage ==
    \A row \in rows : \A x \in row.above : x[1] \in Request =>
        /\ \/ row.table = "TaskExecution"
           \/ x[2] \notin {"Context", "Destination", "Credentials"}
           \/ x[2] = "Credentials" /\ x[3] = 0
           \/ x[1] = row.uuid[1] /\ row.table # "Identity"
        /\ x[2] = "Credentials" /\ x[3] = 0 =>
              New(x[1], "Identity", 1) \in row.above \cup {row.uuid}

\* What a request that creates a pipeline has made hangs on the pipeline, and is
\* gone when the request was refused.
Own(r, row) == row.uuid[1] = r /\ row.table \in {"Pipeline", "PipelineArchive", "Task"}
WithdrawalOf(r) ==
    Asks(r, "pipelines_post") =>
        \A row \in rows : Own(r, row) =>
            /\ loc[r].pipeline \in row.above \cup {row.uuid}
            /\ \/ pc[r] # "done" \/ reply[r] = "ok"
               \/ Ask(r).kind = "workflow" /\ loc[r].error = "server_error"

\* What the engine has reported of a run that was not killed.
Stages == {"none", "queued", "starting", "creating", "running", "rejected", "over"}
IsRun(e) ==
    e \in [stage : Stages, tasks : {e.tasks}, waiting : {e.waiting}, handler : BOOLEAN,
          ends : {e.ends}, ended : {e.ended}, lost : {e.lost}, failing : BOOLEAN, killed : BOOLEAN]
ReportedOf(r) ==
    /\ IsRun(engine[r])
    /\ reports[r] \subseteq Final \cup {"active"}
    /\ pc[r] # "done" => engine[r] = Unpublished /\ reports[r] = {}
    /\ ~engine[r].killed =>
          /\ engine[r].ends \subseteq {"completed", "failed"}
          /\ reports[r] \subseteq engine[r].ends \cup {"active"}
          /\ engine[r].stage \notin {"rejected", "running"} => engine[r].ends = {}
          /\ "active" \in reports[r] => engine[r].stage = "starting"
          /\ \A run \in Rows("PipelineRun") :
                run.uuid = RunOf(r) /\ run.value \in Final => run.value \in engine[r].ends
Reporting ==
    /\ DOMAIN engine = Request /\ DOMAIN reports = Request
    /\ \A r \in Request : ReportedOf(r)

ApiInv ==
    /\ Control /\ Sound /\ Fresh /\ Entries /\ Hanging /\ Owned /\ Secrets /\ Lineage /\ Reporting
    /\ \A r \in Request : Points(r) /\ WithdrawalOf(r)

-----------------------------------------------------------------------------
(***************************************************************************)
(* What a step does to the rows                                            *)
(***************************************************************************)
Inserts(r, table, n, keys, row) ==
    /\ Insert(row) /\ IsRow(row)
    /\ row.table = table /\ row.uuid = New(r, table, n)
    /\ Ahead(r, table, n) /\ ~Ahead(r, table, n)'
    /\ row.above = Above(keys) /\ row.above \subseteq Uuids
    /\ table \in Unchecked \/ Insertable(row)
    /\ table \in Unchecked => row.key = <<"none", "none", {row.uuid}>>
    /\ \A k \in keys : <<table, k[2]>> \in Hangs
    /\ table = "Identity" => keys # {}
    /\ table = "GroupUser" => \E g \in Rows("Group") : keys = {g.uuid}
    /\ table = "Group" => n = 1 /\ pc[r] = "create_group" /\ pc'[r] = "create_admin"
    /\ \A k \in keys : k[1] \in Request =>
          /\ \/ k[2] \notin {"Context", "Destination", "Credentials"}
             \/ k[2] = "Credentials" /\ k[3] = 0
             \/ k[1] = r /\ table # "Identity"
             \/ table = "TaskExecution"
          /\ k[2] = "Credentials" /\ k[3] = 0 => table = "Identity" /\ k[1] = r /\ n = 1

Removes(r, uuids) ==
    /\ Delete(uuids)
    /\ \A u \in uuids : /\ u[2] # "Group"
                        /\ u[2] = "GroupUser" => pc[r] = "delete_user" /\ u = loc[r].target

\* Owners, values and the runs of pipelines are changed, and nothing of accounts.
Accounts == {"Group", "GroupUser"}
Revises ==
    /\ \A new \in rows' : \E row \in rows : Alike(row, new)
    /\ \A row \in rows : \E new \in rows' : Alike(row, new)
    /\ \A a, b \in rows' : a.uuid = b.uuid => a = b
    /\ \A row \in rows \cup rows' : row.table \in Accounts => row \in rows /\ row \in rows'

Effect(r) ==
    \/ UNCHANGED rows
    \/ \E table, n, keys, row : Inserts(r, table, n, keys, row)
    \/ \E uuids : Removes(r, uuids)
    \/ Revises

\* Groups stay, entries of users are only ever removed by the request to do so,
\* and no uuid comes back.
Keeps(r) ==
    /\ \A row \in rows : row.table = "Group" => row \in rows'
    /\ \A row \in rows : row.table = "GroupUser" /\ row \notin rows' =>
          pc[r] = "delete_user" /\ row.uuid = loc[r].target
    /\ \A row \in rows' : row.table \in Accounts => row \in rows \/ row.uuid \notin Held
    /\ \A m \in rows' : m.table = "GroupUser" => \E g \in Rows("Group") : m.above = {g.uuid}
    /\ \A g \in rows' : g.table = "Group" /\ g \notin rows =>
          g.uuid = New(r, "Group", 1) /\ pc[r] = "create_group" /\ pc'[r] = "create_admin"
    /\ \A u \in Uuids' : u \notin Uuids => u[1] = r /\ Ahead(r, u[2], u[3]) /\ ~Ahead(r, u[2], u[3])'
    /\ \A row \in rows' : row.uuid \in Uuids => \E old \in rows : Alike(old, row)

LEMMA HangsOn ==
  ASSUME NEW a, NEW b, NEW c, <<a, b>> \in Hangs, <<b, c>> \in Hangs
  PROVE  <<a, c>> \in Hangs
  BY DEF Hangs

\* The lineage of a new row follows from its foreign keys.
LEMMA InsertLineage ==
  ASSUME Sound, Hanging, Lineage, NEW r \in Request, NEW table, NEW n, NEW keys, NEW row,
         Inserts(r, table, n, keys, row)
  PROVE  Lineage'
<1>1. rows' = rows \cup {row}
  BY DEF Inserts, Insert
<1> SUFFICES ASSUME NEW x \in row.above, x[1] \in Request
             PROVE  /\ \/ row.table = "TaskExecution"
                       \/ x[2] \notin {"Context", "Destination", "Credentials"}
                       \/ x[2] = "Credentials" /\ x[3] = 0
                       \/ x[1] = row.uuid[1] /\ row.table # "Identity"
                    /\ x[2] = "Credentials" /\ x[3] = 0 =>
                          New(x[1], "Identity", 1) \in row.above \cup {row.uuid}
  BY <1>1 DEF Lineage
<1>2. /\ row.table = table /\ row.uuid = New(r, table, n) /\ row.uuid[1] = r
      /\ row.above = Above(keys)
  BY DEF Inserts, New
<1>3. CASE x \in keys
  BY <1>2, <1>3 DEF Inserts
<1>4. CASE x \notin keys
  <2>1. PICK parent \in rows : parent.uuid \in keys /\ x \in parent.above
    BY <1>2, <1>4 DEF Above
  <2>2. /\ \/ parent.table = "TaskExecution"
           \/ x[2] \notin {"Context", "Destination", "Credentials"}
           \/ x[2] = "Credentials" /\ x[3] = 0
           \/ x[1] = parent.uuid[1] /\ parent.table # "Identity"
        /\ x[2] = "Credentials" /\ x[3] = 0 =>
              New(x[1], "Identity", 1) \in parent.above \cup {parent.uuid}
    BY <2>1 DEF Lineage
  <2>3. parent.above \cup {parent.uuid} \subseteq row.above
    BY <1>2, <2>1 DEF Above
  <2>4. /\ parent.uuid[2] = parent.table
        /\ <<table, parent.table>> \in Hangs /\ <<parent.table, x[2]>> \in Hangs
    BY <2>1 DEF Inserts, Sound, Identified, Hanging
  <2>5. CASE x[2] \in {"Context", "Destination", "Credentials"} /\ x[1] = parent.uuid[1]
             /\ parent.table # "Identity" /\ table # "TaskExecution"
    <3>1. parent.table \in {"Context", "Destination"} /\ table = "Task"
      BY <2>4, <2>5 DEF Hangs
    <3>2. parent.uuid[1] = r
      BY <2>1, <2>4, <2>5, <3>1 DEF Inserts
    <3> QED
      BY <1>2, <2>2, <2>3, <2>5, <3>1, <3>2
  <2>6. parent.table # "TaskExecution"
    BY <2>4 DEF Hangs
  <2> QED
    BY <1>2, <2>2, <2>3, <2>5, <2>6
<1> QED
  BY <1>3, <1>4

LEMMA EffectKeeps ==
  ASSUME Sound, Hanging, Fresh, Owned, Lineage, NEW r \in Request, Effect(r)
  PROVE  Sound' /\ Hanging' /\ Keeps(r) /\ Lineage'
<1>0. \A row \in rows : Alike(row, row)
  BY DEF Sound, Identified, Alike
<1>1. CASE UNCHANGED rows
  <2>1. Sound' /\ Hanging' /\ Lineage'
    BY <1>1 DEF Sound, DatabaseIntegrity, Transitive, Identified, Hanging, Lineage, Uuids, Rows
  <2> QED
    BY <1>0, <1>1, <2>1 DEF Keeps, Uuids, Owned, Rows
<1>2. CASE \E table, n, keys, row : Inserts(r, table, n, keys, row)
  <2>1. PICK table, n, keys, row : Inserts(r, table, n, keys, row)
    BY <1>2
  <2>2. /\ row.uuid[1] = r /\ row.uuid[2] = row.table /\ row.uuid[3] = n
        /\ row.table = table
    BY <2>1 DEF Inserts, New
  <2>3. row.uuid \notin Held /\ row.uuid \notin Uuids
    BY <2>1, <2>2 DEF Inserts, Fresh, Held
  <2>4. Sound' /\ Uuids' = Uuids \cup {row.uuid}
    BY <2>1, <2>2, <2>3, InsertSound DEF Inserts
  <2>5. rows' = rows \cup {row}
    BY <2>1 DEF Inserts, Insert
  <2>6. \A x \in row.above : <<row.table, x[2]>> \in Hangs
    <3> SUFFICES ASSUME NEW x \in row.above, x \notin keys PROVE <<row.table, x[2]>> \in Hangs
      BY <2>1, <2>2 DEF Inserts
    <3>1. PICK parent \in rows : parent.uuid \in keys /\ x \in parent.above
      BY <2>1 DEF Inserts, Above
    <3>2. <<row.table, parent.table>> \in Hangs /\ <<parent.table, x[2]>> \in Hangs
      BY <2>1, <2>2, <3>1 DEF Inserts, Sound, Identified, Hanging
    <3> QED
      BY <3>2, HangsOn
  <2>7. Hanging'
    <3>1. table = "Identity" => row.above # {}
      BY <2>1 DEF Inserts, Above
    <3> QED
      BY <2>2, <2>5, <2>6, <3>1 DEF Hanging, Rows
  <2>8. table = "GroupUser" => \E g \in Rows("Group") : row.above = {g.uuid}
    <3> SUFFICES ASSUME NEW g \in Rows("Group"), keys = {g.uuid} PROVE row.above = {g.uuid}
      BY <2>1 DEF Inserts
    <3>1. \A parent \in rows : parent.uuid = g.uuid => parent.above = {}
      BY DEF Rows, Sound, Identified, Hanging, Hangs
    <3> QED
      BY <2>1, <3>1 DEF Inserts, Above
  <2>9. \A m \in rows' : m.table = "GroupUser" => \E g \in Rows("Group") : m.above = {g.uuid}
    BY <2>2, <2>5, <2>8 DEF Owned, Rows
  <2>10. \A old \in rows : old.uuid # row.uuid
    BY <2>3 DEF Uuids
  <2>11. /\ \A g \in rows' : g.table = "Group" /\ g \notin rows =>
              g.uuid = New(r, "Group", 1) /\ pc[r] = "create_group" /\ pc'[r] = "create_admin"
         /\ \A u \in Uuids' : u \notin Uuids =>
              u[1] = r /\ Ahead(r, u[2], u[3]) /\ ~Ahead(r, u[2], u[3])'
    BY <2>1, <2>2, <2>4, <2>5 DEF Inserts
  <2>12. \A new \in rows' : new.uuid \in Uuids => \E old \in rows : Alike(old, new)
    BY <1>0, <2>3, <2>5
  <2> QED
    BY <2>1, <2>3, <2>4, <2>5, <2>7, <2>9, <2>11, <2>12, InsertLineage DEF Keeps
<1>3. CASE \E uuids : Removes(r, uuids)
  <2>1. PICK uuids : Removes(r, uuids)
    BY <1>3
  <2>2. /\ Sound' /\ rows' \subseteq rows
        /\ \A row \in rows : row.uuid \notin uuids /\ row.above \cap uuids = {} => row \in rows'
    BY <2>1, DeleteSound DEF Removes
  <2>3. \A row \in rows : row.table \in Accounts => row.above \cap uuids = {}
    <3> SUFFICES ASSUME NEW row \in rows, row.table \in Accounts, NEW x \in row.above
                 PROVE  x \notin uuids
      OBVIOUS
    <3>1. x[2] = "Group"
      BY DEF Hanging, Hangs, Accounts
    <3> QED
      BY <2>1, <3>1 DEF Removes
  <2>4. \A row \in rows : row.uuid[2] = row.table
    BY DEF Sound, Identified
  <2>5. Hanging' /\ Lineage' /\ Uuids' \subseteq Uuids
    BY <2>2 DEF Hanging, Lineage, Uuids, Rows
  <2>6. /\ \A row \in rows : row.table = "Group" => row \in rows'
        /\ \A row \in rows : row.table = "GroupUser" /\ row \notin rows' =>
              pc[r] = "delete_user" /\ row.uuid = loc[r].target
    BY <2>1, <2>2, <2>3, <2>4 DEF Removes, Accounts
  <2>7. \A m \in rows' : m.table = "GroupUser" => \E g \in Rows("Group") : m.above = {g.uuid}
    BY <2>2 DEF Owned, Rows
  <2> QED
    BY <1>0, <2>2, <2>5, <2>6, <2>7 DEF Keeps
<1>4. CASE Revises
  <2>1. Sound' /\ Uuids' = Uuids
    BY <1>4, UpdateSound DEF Revises
  <2>2. Hanging'
    BY <1>4 DEF Revises, Hanging, Alike, Rows
  <2>3. Lineage'
    BY <1>4 DEF Revises, Lineage, Alike
  <2>4. \A m \in rows' : m.table = "GroupUser" => \E g \in Rows("Group") : m.above = {g.uuid}
    BY <1>4 DEF Revises, Owned, Rows, Accounts
  <2> QED
    BY <1>4, <2>1, <2>2, <2>3, <2>4 DEF Revises, Keeps, Accounts
<1> QED
  BY <1>1, <1>2, <1>3, <1>4 DEF Effect

-----------------------------------------------------------------------------
(***************************************************************************)
(* A step of one request                                                   *)
(***************************************************************************)

\* A rollback is registered for a row that is made in the same step.
Registers(r) ==
    \/ UNCHANGED rollbacks
    \/ \E kind \in {"row", "secret"}, table \in {"Credentials", "Context", "Destination"}, n \in Nat :
          /\ AddRollback(r, kind, New(r, table, n))
          /\ kind = "secret" <=> table = "Credentials"
          /\ table = "Credentials" => n # 0
          /\ Ahead(r, table, n) /\ ~Ahead(r, table, n)'

\* A request aims at a row that is there.
Aims(r) ==
    Aimed(r)' => \/ loc'[r].target \in Uuids \cup Uuids'
                 \/ Aimed(r) /\ loc'[r].target = loc[r].target

\* A group gets its owner as admin, and its other users after him.
GroupSteps(r) ==
    /\ pc[r] = "create_admin" =>
          \/ pc'[r] = "done" /\ reply'[r] # "ok"
          \/ /\ pc'[r] = "create_users" /\ reply'[r] = "none"
             /\ \E m \in rows' : /\ m.table = "GroupUser" /\ m.above = {loc[r].target}
                                 /\ m.id = Ask(r).user /\ m.value = "admin"
    /\ pc[r] = "create_users" => pc'[r] \in {"create_users", "done"}
    /\ pc[r] # "done" /\ (pc[r] # "create_group" => pc'[r] # "create_admin")

SecretSteps(r) ==
    /\ \A k \in rows' : k.table = "Credentials" => k.uuid \in Uuids \cup secrets'
    /\ \A u \in secrets : u \notin secrets' => u \in Held /\ CutShort(r, u)'
    /\ pc'[r] = "identity_credentials" => New(r, "Credentials", 0) \in secrets'
    /\ pc'[r] = "save_credentials" => CredentialsOf(r)' \in secrets'

\* What request r has cut short stays so, unless the row goes.
Marks(r) ==
    pc[r] \in {"drop_row", "rollback_row", "done"} =>
        \A k \in rows' : k.table = "Credentials" /\ CutShort(r, k.uuid) => CutShort(r, k.uuid)'

\* The runs keep their status; a new one is submitted.
RunsKept ==
    \A run \in rows' : run.table = "PipelineRun" =>
        \/ run.value = "submitted" /\ run.uuid \notin Uuids
        \/ \E old \in rows : old.table = "PipelineRun" /\ old.uuid = run.uuid /\ old.value = run.value

EngineKept(r) ==
    /\ UNCHANGED reports /\ DOMAIN engine' = Request
    /\ \A q \in Request \ {r} : engine'[q] = engine[q]
    /\ engine'[r] # engine[r] =>
          /\ pc'[r] = "done"
          /\ \E rest : engine'[r] = [Unpublished EXCEPT !.stage = "queued", !.tasks = rest,
                                                        !.waiting = rest]

Step(r) ==
    /\ Frame(r) /\ Advances(r) /\ Effect(r) /\ Registers(r) /\ Aims(r) /\ GroupSteps(r)
    /\ SecretSteps(r) /\ RunsKept /\ EngineKept(r)
    /\ Placed(r)' /\ Points(r)' /\ WithdrawalOf(r)'

LEMMA AheadOfOthers ==
  ASSUME NEW r \in Request, Frame(r), EngineKept(r), NEW q \in Request \ {r}, NEW table, NEW n
  PROVE  Ahead(q, table, n)' <=> Ahead(q, table, n)
  BY DEF Frame, EngineKept, Ahead, AheadInTask

LEMMA StepEntries ==
  ASSUME ApiInv, NEW r \in Request, Step(r)
  PROVE  /\ Entries'
         /\ \A u \in Registered' : u \in Registered \/ (u[1] = r /\ ~Ahead(r, u[2], u[3])')
<1>1. CASE UNCHANGED rollbacks
  <2>1. batch' = batch
    BY DEF Step, Frame
  <2>2. Entries'
    BY <1>1, <2>1 DEF ApiInv, Entries, Ask
  <2> QED
    BY <1>1, <2>2 DEF Registered
<1>2. CASE ~UNCHANGED rollbacks
  <2>1. PICK kind \in {"row", "secret"}, table \in {"Credentials", "Context", "Destination"},
             n \in Nat :
          /\ AddRollback(r, kind, New(r, table, n))
          /\ kind = "secret" <=> table = "Credentials"
          /\ table = "Credentials" => n # 0
          /\ Ahead(r, table, n) /\ ~Ahead(r, table, n)'
    BY <1>2 DEF Step, Registers
  <2> DEFINE entry == [kind |-> kind, uuid |-> New(r, table, n)]
             W == Ask(r).worker
             Known == [kind : {"row", "secret"},
                       uuid : Request \X {"Credentials", "Context", "Destination"} \X Nat]
  <2>2. W \in Worker
    BY BatchesAssumption DEF ApiInv, Control, Ask
  <2>3. /\ DOMAIN rollbacks = Worker /\ rollbacks[W] \in Seq(Known)
        /\ rollbacks' = [rollbacks EXCEPT ![W] = Append(@, entry)]
    BY <2>1, <2>2 DEF ApiInv, Entries, AddRollback
  <2>4. /\ entry \in Known /\ entry.uuid = New(r, table, n) /\ entry.kind = kind
        /\ entry.uuid[1] = r /\ entry.uuid[2] = table /\ entry.uuid[3] = n
    BY DEF New
  <2> HIDE DEF entry, Known
  <2>5. /\ DOMAIN rollbacks' = Worker
        /\ \A w \in Worker \ {W} : rollbacks'[w] = rollbacks[w]
        /\ rollbacks'[W] = Append(rollbacks[W], entry)
    BY <2>2, <2>3
  <2>6. /\ rollbacks'[W] \in Seq(Known) /\ Len(rollbacks'[W]) = Len(rollbacks[W]) + 1
        /\ \A i \in 1 .. Len(rollbacks[W]) : rollbacks'[W][i] = rollbacks[W][i]
        /\ rollbacks'[W][Len(rollbacks[W]) + 1] = entry
    BY <2>3, <2>4, <2>5
  <2>7. \A i \in 1 .. Len(rollbacks'[W]) : i \in 1 .. Len(rollbacks[W]) \/ rollbacks'[W][i] = entry
    BY <2>3, <2>6
  <2>8. batch' = batch
    BY DEF Step, Frame
  <2>9. Entries'
    <3> SUFFICES ASSUME NEW w \in Worker
                 PROVE  /\ rollbacks'[w] \in Seq(Known)
                        /\ \A i \in 1 .. Len(rollbacks'[w]) :
                              LET e == rollbacks'[w][i] IN
                              /\ Ask(e.uuid[1]).worker = w
                              /\ e.kind = "secret" <=> e.uuid[2] = "Credentials"
                              /\ e.uuid[2] = "Credentials" => e.uuid[3] # 0
      BY <2>5, <2>8 DEF Entries, Ask, Known
    <3>0. /\ rollbacks[w] \in Seq(Known)
          /\ \A i \in 1 .. Len(rollbacks[w]) :
                LET e == rollbacks[w][i] IN
                /\ Ask(e.uuid[1]).worker = w
                /\ e.kind = "secret" <=> e.uuid[2] = "Credentials"
                /\ e.uuid[2] = "Credentials" => e.uuid[3] # 0
      BY DEF ApiInv, Entries, Known
    <3>1. CASE w # W
      BY <2>5, <3>0, <3>1
    <3>2. CASE w = W
      BY <2>1, <2>3, <2>4, <2>6, <2>7, <3>0, <3>2
    <3> QED
      BY <3>1, <3>2
  <2>10. \A u \in Registered' : u \in Registered \/ u = entry.uuid
    BY <2>5, <2>6, <2>7 DEF Registered
  <2> QED
    BY <2>1, <2>4, <2>9, <2>10
<1> QED
  BY <1>1, <1>2

LEMMA StepFresh ==
  ASSUME ApiInv, NEW r \in Request, Step(r)
  PROVE  Keeps(r) /\ Fresh' /\ Sound' /\ Hanging' /\ Lineage'
<1>1. Keeps(r) /\ Sound' /\ Hanging' /\ Lineage'
  BY EffectKeeps DEF ApiInv, Step
<1>2. \A u \in Held' : u \in Held \/ (u[1] = r /\ ~Ahead(r, u[2], u[3])')
  <2>1. \A u \in Uuids' : u \in Held \/ (u[1] = r /\ ~Ahead(r, u[2], u[3])')
    BY <1>1 DEF Keeps, Held
  <2>2. \A u \in Registered' : u \in Held \/ (u[1] = r /\ ~Ahead(r, u[2], u[3])')
    BY StepEntries DEF Held
  <2>3. ASSUME NEW q \in Request, Aimed(q)'
        PROVE  loc'[q].target \in Held \cup Uuids'
    <3>1. CASE q = r
      BY <2>3, <3>1 DEF Step, Aims, Held
    <3>2. CASE q # r
      BY <2>3, <3>2 DEF Step, Frame, Aimed, Held
    <3> QED
      BY <3>1, <3>2
  <2> QED
    BY <2>1, <2>2, <2>3 DEF Held
<1>3. Fresh'
  <2> SUFFICES ASSUME NEW u \in Held', u[1] \in Request, Ahead(u[1], u[2], u[3])' PROVE FALSE
    BY DEF Fresh
  <2>1. Ahead(u[1], u[2], u[3])
    BY AheadOfOthers DEF Step, Advances
  <2> QED
    BY <1>2, <2>1 DEF ApiInv, Fresh
<1> QED
  BY <1>1, <1>3

\* The entry of an owner goes with no step: his name is not that of a user whom
\* a request removes.
LEMMA OwnerKept ==
  ASSUME ApiInv, NEW r \in Request, Keeps(r), NEW g \in Rows("Group"), HasOwner(g)
  PROVE  HasOwner(g)'
<1>1. PICK m \in rows : /\ m.table = "GroupUser" /\ m.above = {g.uuid}
                        /\ m.id = g.owner /\ m.value = "admin"
  BY DEF HasOwner
<1>2. m \in rows'
  BY <1>1 DEF Keeps, ApiInv, Points, PointsAt
<1> QED
  BY <1>1, <1>2 DEF HasOwner

LEMMA StepOwned ==
  ASSUME ApiInv, NEW r \in Request, Step(r)
  PROVE  Owned'
<1>0. Keeps(r)
  BY StepFresh
<1>1. \A m \in Rows("GroupUser")' : \E g \in Rows("Group")' : m.above = {g.uuid}
  BY <1>0 DEF Keeps, Rows
<1>2. ASSUME NEW g \in rows', g.table = "Group", NEW q \in Request, g.uuid[1] = q
      PROVE  /\ g.uuid = New(q, "Group", 1)
             /\ pc'[q] \in {"create_admin", "create_users", "done"}
             /\ pc'[q] = "create_users" \/ reply'[q] = "ok" => HasOwner(g)'
  <2>1. CASE g \notin rows
    <3>1. g.uuid = New(r, "Group", 1) /\ q = r /\ pc'[q] = "create_admin"
      BY <1>0, <1>2, <2>1 DEF Keeps, New
    <3>2. reply'[q] # "ok"
      BY <3>1 DEF Step, Placed
    <3> QED
      BY <3>1, <3>2
  <2>2. CASE g \in rows /\ q # r
    <3>1. /\ g.uuid = New(q, "Group", 1) /\ pc[q] \in {"create_admin", "create_users", "done"}
          /\ pc[q] = "create_users" \/ reply[q] = "ok" => HasOwner(g)
      BY <1>2, <2>2 DEF ApiInv, Owned, Rows
    <3>2. pc'[q] = pc[q] /\ reply'[q] = reply[q]
      BY <2>2 DEF Step, Frame
    <3> QED
      BY <1>0, <1>2, <2>2, <3>1, <3>2, OwnerKept DEF Rows
  <2>3. CASE g \in rows /\ q = r
    <3>1. /\ g.uuid = New(r, "Group", 1) /\ pc[r] \in {"create_admin", "create_users", "done"}
          /\ pc[r] = "create_users" => HasOwner(g)
      BY <1>2, <2>3 DEF ApiInv, Owned, Rows
    <3>2. CASE pc[r] = "create_admin"
      <4>1. \E h \in Rows("Group") : h.uuid = loc[r].target /\ h.owner = Ask(r).user
        BY <3>2 DEF ApiInv, Points, PointsAt
      <4>2. loc[r].target = New(r, "Group", 1)
        BY <3>2 DEF ApiInv, Points, PointsAt
      <4>3. pc'[r] # "done" => HasOwner(g)' \/ g.uuid # loc[r].target
        BY <2>3, <3>2, <4>1 DEF Step, GroupSteps, HasOwner, ApiInv, Sound, Identified, Rows
      <4>4. g.uuid = loc[r].target
        BY <3>1, <4>2
      <4> QED
        BY <2>3, <3>1, <3>2, <4>3, <4>4 DEF Step, GroupSteps
    <3>3. CASE pc[r] = "create_users"
      BY <1>0, <1>2, <2>3, <3>1, <3>3, OwnerKept DEF Step, GroupSteps, Rows
    <3> QED
      BY <3>1, <3>2, <3>3 DEF Step, GroupSteps
  <2> QED
    BY <2>1, <2>2, <2>3
<1>3. ASSUME NEW g \in rows', g.table = "Group", g.uuid[1] \notin Request PROVE HasOwner(g)'
  <2>1. g \in rows
    BY <1>0, <1>3 DEF Keeps, New
  <2>2. HasOwner(g)
    BY <1>3, <2>1 DEF ApiInv, Owned, Rows
  <2> QED
    BY <1>0, <1>3, <2>1, <2>2, OwnerKept DEF Rows
<1> QED
  BY <1>1, <1>2, <1>3 DEF Owned, Rows

\* The list of rollbacks of a process only grows.
LEMMA Longer ==
  ASSUME ApiInv, NEW r \in Request, Registers(r), NEW w \in Worker
  PROVE  /\ Len(rollbacks[w]) \in Nat /\ Len(rollbacks'[w]) \in Nat
         /\ Len(rollbacks[w]) <= Len(rollbacks'[w])
         /\ DOMAIN rollbacks[w] = 1 .. Len(rollbacks[w])
         /\ DOMAIN rollbacks[w] \subseteq DOMAIN rollbacks'[w]
         /\ \A i \in DOMAIN rollbacks[w] : rollbacks'[w][i] = rollbacks[w][i]
<1> DEFINE Known == [kind : {"row", "secret"},
                     uuid : Request \X {"Credentials", "Context", "Destination"} \X Nat]
<1>1. DOMAIN rollbacks = Worker /\ rollbacks[w] \in Seq(Known)
  BY DEF ApiInv, Entries
<1>2. CASE UNCHANGED rollbacks
  BY <1>1, <1>2
<1>3. CASE ~UNCHANGED rollbacks
  <2>1. PICK kind \in {"row", "secret"}, table \in {"Credentials", "Context", "Destination"},
             n \in Nat : AddRollback(r, kind, New(r, table, n))
    BY <1>3 DEF Registers
  <2> DEFINE entry == [kind |-> kind, uuid |-> New(r, table, n)]
  <2>2. entry \in Known
    BY DEF New
  <2>3. rollbacks' = [rollbacks EXCEPT ![Ask(r).worker] = Append(@, entry)]
    BY <2>1 DEF AddRollback
  <2> HIDE DEF Known, entry
  <2>4. rollbacks'[w] = rollbacks[w] \/ rollbacks'[w] = Append(rollbacks[w], entry)
    BY <1>1, <2>3
  <2> QED
    BY <1>1, <2>2, <2>4
<1> QED
  BY <1>2, <1>3

\* What another request has cut short, and what a request has that is not about to
\* delete the row, stays cut short.
LEMMA CutsStay ==
  ASSUME ApiInv, NEW r \in Request, Step(r), Marks(r), NEW q \in Request,
         NEW k \in rows', k.table = "Credentials", CutShort(q, k.uuid)
  PROVE  CutShort(q, k.uuid)'
<1>1. /\ batch' = batch /\ Registers(r) /\ Ask(q)' = Ask(q)
      /\ q # r => pc'[q] = pc[q] /\ loc'[q] = loc[q]
  BY DEF Step, Frame, Ask
<1>2. Ask(q).worker \in Worker
  BY BatchesAssumption DEF ApiInv, Control, Ask
<1> DEFINE old == rollbacks[Ask(q).worker]
           new == rollbacks'[Ask(q).worker]
<1>3. /\ DOMAIN old = 1 .. Len(old) /\ Len(old) \in Nat /\ DOMAIN old \subseteq DOMAIN new
      /\ \A i \in DOMAIN old : new[i] = old[i]
  BY <1>1, <1>2, Longer
<1>4. CASE Ask(q).fault = "undo_row" /\ \E i \in DOMAIN old : k.uuid = old[i].uuid
  <2>1. \E i \in DOMAIN new : k.uuid = new[i].uuid
    BY <1>3, <1>4
  <2> QED
    BY <1>1, <1>4, <2>1 DEF CutShort
<1>5. CASE q = r /\ pc[r] \in {"drop_row", "rollback_row", "done"}
  BY <1>5 DEF Marks
<1>6. CASE q # r /\ pc[q] # "rollback_row"
  BY <1>1, <1>4, <1>6 DEF CutShort, At
<1>7. CASE q # r /\ pc[q] = "rollback_row"
  <2>1. loc[q].undone < Len(old) /\ loc[q].undone \in Nat
    BY <1>7 DEF ApiInv, Points, PointsAt, Control, Placed, IsLocals
  <2>2. loc[q].undone + 1 \in DOMAIN old
    BY <1>3, <2>1
  <2>3. Entry(q)' = Entry(q)
    BY <1>1, <1>3, <1>7, <2>2 DEF Entry
  <2> QED
    BY <1>1, <1>4, <1>7, <2>3 DEF CutShort, At
<1> QED
  BY <1>4, <1>5, <1>6, <1>7 DEF CutShort, At

LEMMA StepSecrets ==
  ASSUME ApiInv, NEW r \in Request, Step(r), Marks(r)
  PROVE  Secrets'
<1>0. Keeps(r) /\ Sound'
  BY StepFresh
<1>1. ASSUME NEW k \in rows', k.table = "Credentials"
      PROVE  k.uuid \in secrets' \/ \E q \in Request : CutShort(q, k.uuid)'
  <2>1. CASE k.uuid \in secrets'
    BY <2>1
  <2>2. CASE k.uuid \in Uuids
    <3>1. PICK old \in rows : Alike(old, k)
      BY <1>0, <2>2 DEF Keeps
    <3>2. old.table = "Credentials" /\ old.uuid = k.uuid
      BY <1>1, <3>1 DEF Alike
    <3>3. k.uuid \in secrets \/ \E q \in Request : CutShort(q, k.uuid)
      BY <3>2 DEF ApiInv, Secrets, Rows
    <3> QED
      BY <1>1, <3>3, CutsStay DEF Step, SecretSteps
  <2> QED
    BY <1>1, <2>1, <2>2 DEF Step, SecretSteps
<1>2. ASSUME NEW q \in Request
      PROVE  /\ pc'[q] = "identity_credentials" => New(q, "Credentials", 0) \in secrets'
             /\ pc'[q] = "save_credentials" => CredentialsOf(q)' \in secrets'
  <2>1. CASE q = r
    BY <2>1 DEF Step, SecretSteps
  <2>2. CASE q # r
    <3>1. pc'[q] = pc[q] /\ loc'[q] = loc[q] /\ batch' = batch
      BY <2>2 DEF Step, Frame
    <3>2. CredentialsOf(q)' = CredentialsOf(q)
      BY <3>1 DEF CredentialsOf, Number
    <3>3. ASSUME NEW n, Ahead(q, "Credentials", n), New(q, "Credentials", n) \in secrets
          PROVE  New(q, "Credentials", n) \in secrets'
      <4>1. New(q, "Credentials", n) \notin Held
        BY <3>3 DEF ApiInv, Fresh, New
      <4> QED
        BY <3>3, <4>1 DEF Step, SecretSteps
    <3>4. ASSUME pc[q] = "identity_credentials" PROVE Ahead(q, "Credentials", 0)
      BY <3>4 DEF Ahead
    <3>5. ASSUME pc[q] = "save_credentials"
          PROVE  Ahead(q, "Credentials", 2 * Number(q) + IF loc[q].half = "Context" THEN 0 ELSE 1)
      <4>1. loc[q].todo \in Seq(UserAsked \cup TaskAsked \cup EtlAsked) /\ loc[q].todo # <<>>
        BY <3>5 DEF ApiInv, Control, Placed, CreatesTask, IsLocals
      <4>2. Number(q) \in Nat \ {0}
        BY <4>1 DEF Number
      <4>3. AheadInTask(q, "Credentials", 2 * Number(q) + IF loc[q].half = "Context" THEN 0 ELSE 1)
        <5>1. \A number \in Nat \ {0} : 2 * number \in 2 .. 2 * number + 1
                                        /\ 2 * number + 1 \in 2 .. 2 * number + 1
                                        /\ 2 * number # 2 * number + 1 /\ 2 * number + 0 = 2 * number
          OBVIOUS
        <5> QED
          BY <3>5, <4>2, <5>1 DEF AheadInTask, Number
      <4> QED
        BY <3>5, <4>3 DEF Ahead, CreatesTask
    <3> QED
      BY <3>1, <3>2, <3>3, <3>4, <3>5 DEF ApiInv, Secrets, CredentialsOf
  <2> QED
    BY <2>1, <2>2
<1> QED
  BY <1>1, <1>2 DEF Secrets, Rows

\* What is known of a request that does not move.
LEMMA Still ==
  ASSUME ApiInv, NEW r \in Request, Keeps(r), Sound', NEW q \in Request, batch' = batch,
         pc'[q] = pc[q], loc'[q] = loc[q], reply'[q] = reply[q],
         \A u \in Uuids' : u[1] = q /\ u \notin Uuids => u[2] = "TaskExecution",
         pc[q] = "rollback_row" => loc[q].undone < Len(rollbacks'[Ask(q).worker])
  PROVE  Points(q)' /\ WithdrawalOf(q)'
<1>1. Ask(q)' = Ask(q) /\ \A op : Asks(q, op)' = Asks(q, op)
  BY DEF Ask, Asks
<1>2. Points(q) /\ WithdrawalOf(q)
  BY DEF ApiInv
<1>3. \A g \in Rows("Group") : g \in Rows("Group")'
  BY DEF Keeps, Rows
<1>4. \A uuid : GroupAt(uuid) => GroupAt(uuid)'
  BY <1>3 DEF GroupAt
<1>5. pc[q] = "delete_user" => \A m \in rows' : m.uuid = loc[q].target =>
         \A g \in Rows("Group")' : g.uuid \in m.above => m.id # g.owner
  <2> SUFFICES ASSUME pc[q] = "delete_user", NEW m \in rows', m.uuid = loc[q].target,
                      NEW g \in Rows("Group")', g.uuid \in m.above
               PROVE  m.id # g.owner
    OBVIOUS
  <2>1. m.uuid \in Held /\ m.uuid[2] = "GroupUser"
    BY <1>2 DEF Held, Aimed, Points, PointsAt
  <2>2. m.table = "GroupUser"
    BY <2>1 DEF Sound, Identified
  <2>3. m \in rows
    BY <2>1, <2>2 DEF Keeps, Accounts
  <2>4. g.uuid \in Uuids
    BY <2>3 DEF ApiInv, Sound, DatabaseIntegrity
  <2>5. g \in rows
    BY <2>4 DEF Keeps, Rows, Accounts, Held
  <2> QED
    BY <1>2, <2>3, <2>5 DEF Points, PointsAt, Rows
<1>6. Points(q)'
  BY <1>1, <1>2, <1>3, <1>4, <1>5 DEF Points, PointsAt
<1>7. WithdrawalOf(q)'
  <2> SUFFICES ASSUME Asks(q, "pipelines_post"), NEW row \in rows', Own(q, row)
               PROVE  /\ loc[q].pipeline \in row.above \cup {row.uuid}
                      /\ \/ pc[q] # "done" \/ reply[q] = "ok"
                         \/ Ask(q).kind = "workflow" /\ loc[q].error = "server_error"
    BY <1>1 DEF WithdrawalOf, Own
  <2>1. row.uuid \in Uuids' /\ row.uuid[2] = row.table
    BY DEF Uuids, Sound, Identified
  <2>2. PICK old \in rows : Alike(old, row)
    BY <2>1 DEF Keeps, Own
  <2> QED
    BY <1>2, <2>2 DEF WithdrawalOf, Own, Alike
<1> QED
  BY <1>6, <1>7

LEMMA StepPoints ==
  ASSUME ApiInv, NEW r \in Request, Step(r), NEW q \in Request
  PROVE  Points(q)' /\ WithdrawalOf(q)'
<1>1. Keeps(r) /\ Sound'
  BY StepFresh
<1>2. CASE q = r
  BY <1>2 DEF Step
<1>3. CASE q # r
  <2>1. pc'[q] = pc[q] /\ loc'[q] = loc[q] /\ reply'[q] = reply[q] /\ batch' = batch
    BY <1>3 DEF Step, Frame
  <2>2. \A u \in Uuids' : u[1] = q => u \in Uuids
    BY <1>1, <1>3 DEF Keeps
  <2>3. ASSUME pc[q] = "rollback_row" PROVE loc[q].undone < Len(rollbacks'[Ask(q).worker])
    <3>1. loc[q].undone < Len(rollbacks[Ask(q).worker]) /\ loc[q].undone \in Nat
      BY <2>3 DEF ApiInv, Points, PointsAt, Control, Placed, IsLocals
    <3>2. Ask(q).worker \in Worker
      BY BatchesAssumption DEF ApiInv, Control, Ask
    <3>3. /\ Len(rollbacks[Ask(q).worker]) \in Nat /\ Len(rollbacks'[Ask(q).worker]) \in Nat
          /\ Len(rollbacks[Ask(q).worker]) <= Len(rollbacks'[Ask(q).worker])
      BY <3>2, Longer DEF Step
    <3> QED
      BY <3>1, <3>3
  <2> QED
    BY <1>1, <2>1, <2>2, <2>3, Still
<1> QED
  BY <1>2, <1>3

LEMMA StepReporting ==
  ASSUME ApiInv, NEW r \in Request, Step(r)
  PROVE  Reporting'
<1>1. DOMAIN engine' = Request /\ reports' = reports
  BY DEF Step, EngineKept
<1>2. ASSUME NEW q \in Request PROVE ReportedOf(q)'
  <2>1. ReportedOf(q)
    BY DEF ApiInv, Reporting
  <2>2. \A run \in Rows("PipelineRun")' : run.uuid = RunOf(q) /\ run.value \in Final =>
           \E old \in Rows("PipelineRun") : old.uuid = RunOf(q) /\ old.value = run.value
    BY DEF Step, RunsKept, Rows, Final
  <2>3. pc'[q] # "done" => pc[q] # "done"
    BY DEF Step, Frame, GroupSteps
  <2>4. CASE engine'[q] = engine[q]
    <3>1. /\ pc'[q] # "done" => engine'[q] = Unpublished /\ reports'[q] = {}
          /\ reports'[q] \subseteq Final \cup {"active"}
      BY <1>1, <2>1, <2>3, <2>4 DEF ReportedOf
    <3> QED
      BY <1>1, <2>1, <2>2, <2>4, <3>1 DEF ReportedOf
  <2>5. CASE engine'[q] # engine[q]
    <3>1. q = r /\ pc'[r] = "done" /\ pc[r] # "done"
      BY <2>5 DEF Step, EngineKept, GroupSteps
    <3>2. PICK rest : engine'[r] = [Unpublished EXCEPT !.stage = "queued", !.tasks = rest,
                                                        !.waiting = rest]
      BY <2>5, <3>1 DEF Step, EngineKept
    <3>3. engine'[r] = [stage |-> "queued", tasks |-> rest, waiting |-> rest, handler |-> FALSE,
                        ends |-> {}, ended |-> {}, lost |-> {}, failing |-> FALSE,
                        killed |-> FALSE]
      BY <3>2 DEF Unpublished
    <3>4. engine[r] = Unpublished /\ reports[r] = {}
      BY <2>1, <3>1 DEF ReportedOf
    <3>5. \A run \in Rows("PipelineRun") : run.uuid = RunOf(r) => run.value \notin Final
      BY <2>1, <3>1, <3>4 DEF ReportedOf, Unpublished
    <3> QED
      BY <1>1, <2>2, <3>1, <3>3, <3>4, <3>5 DEF ReportedOf, IsRun, Stages
  <2> QED
    BY <2>4, <2>5
<1> QED
  BY <1>1, <1>2 DEF ApiInv, Reporting

LEMMA StepInvariant ==
  ASSUME ApiInv, NEW r \in Request, Step(r), Marks(r)
  PROVE  ApiInv'
<1>1. Control'
  <2>1. \A q \in Request : Placed(q)'
    BY DEF Step, Frame, ApiInv, Control, Placed, Ask
  <2> QED
    BY <2>1 DEF Step, Frame, ApiInv, Control
<1> QED
  BY <1>1, StepEntries, StepFresh, StepOwned, StepSecrets, StepPoints, StepReporting DEF ApiInv
=============================================================================

---------------------------- MODULE ApiViews_proofs ----------------------------
(***************************************************************************)
(* Every step of a view, and of the engine, keeps the invariant of module  *)
(* Api_proofs, and what follows for the specification of module Api.       *)
(***************************************************************************)
EXTENDS Api_proofs

-----------------------------------------------------------------------------
(***************************************************************************)
(* The moves of a request                                                  *)
(***************************************************************************)
LEMMA OpOf ==
  ASSUME ApiInv, NEW r \in Request
  PROVE  /\ Ask(r).op \in Operation /\ Ask(r).worker \in Worker
         /\ pc[r] \in {"sent", "done", Ask(r).op} \/ <<Ask(r).op, pc[r]>> \in Flows
         /\ pc[r] = "done" <=> reply[r] # "none"
         /\ IsLocals(loc[r])
  BY BatchesAssumption DEF ApiInv, Control, Placed, Ask

\* A request that has not begun to create its pipeline has made nothing of it.
LEMMA NothingOwn ==
  ASSUME ApiInv, NEW r \in Request, pc[r] \in {"sent", "create_pipeline"} \cup Operation,
         NEW row \in rows
  PROVE  ~Own(r, row)
<1>1. row.uuid \in Held /\ row.uuid[2] = row.table
  BY DEF Held, Uuids, ApiInv, Sound, Identified
<1>2. \A n : \A table \in {"Pipeline", "PipelineArchive", "Task"} : Ahead(r, table, n)
  BY DEF Ahead, OfTask
<1> QED
  BY <1>1, <1>2 DEF ApiInv, Fresh, Own

LEMMA Unmoved ==
  ASSUME ApiInv, NEW r \in Request, UNCHANGED <<rows, secrets>>, UNCHANGED rollbacks,
         UNCHANGED <<engine, reports>>,
         pc[r] \notin {"create_admin", "create_users", "done"},
         pc'[r] \notin {"create_admin", "identity_credentials", "save_credentials"}
  PROVE  Effect(r) /\ Registers(r) /\ GroupSteps(r) /\ SecretSteps(r) /\ RunsKept /\ EngineKept(r)
<1>1. EngineKept(r) /\ Effect(r) /\ Registers(r) /\ GroupSteps(r)
  BY DEF EngineKept, Effect, Registers, GroupSteps, ApiInv, Reporting
<1>2. SecretSteps(r)
  BY DEF SecretSteps, Uuids
<1>3. RunsKept
  BY DEF RunsKept
<1> QED
  BY <1>1, <1>2, <1>3

\* An answer is the last step of a request.
LEMMA AnswerMoves ==
  ASSUME ApiInv, NEW r \in Request, NEW code \in Answers \ {"none"}, Answer(r, code),
         batch' = batch
  PROVE  /\ Frame(r) /\ Placed(r)' /\ Points(r)' /\ Aims(r)
         /\ UNCHANGED engine => Advances(r)
         /\ pc'[r] = "done" /\ reply'[r] = code /\ loc' = loc
<1>1. Frame(r) /\ pc'[r] = "done" /\ reply'[r] = code /\ loc' = loc
  BY DEF Answer, Frame, ApiInv, Control
<1>2. Placed(r)'
  BY <1>1, OpOf DEF Placed, CreatesTask
<1>3. Points(r)' /\ Aims(r)
  BY <1>1 DEF Points, PointsAt, Aims, Aimed, Creating, CreatesTask
<1>4. UNCHANGED engine => Advances(r)
  <2>1. "done" \notin {"sent"} \cup Operation
    BY DEF Operation, Reads
  <2> QED
    BY <1>1, <2>1 DEF Advances, Ahead, AheadInTask, CreatesTask
<1> QED
  BY <1>1, <1>2, <1>3, <1>4

\* The first step of a view: it answers, or goes on with what it has read.
LEMMA CheckStep ==
  ASSUME ApiInv, NEW r \in Request, NEW code \in Answers, NEW label, NEW locals,
         pc[r] \in Operation, Check(r, code, label, locals),
         UNCHANGED rollbacks, UNCHANGED <<engine, reports>>, batch' = batch,
         code = "none" =>
            /\ <<Ask(r).op, label>> \in Flows /\ IsLocals(locals)
            /\ PointsAt(r, label, locals)
            /\ label \in CreatesTask => locals.todo # <<>>
            /\ label \notin {"create_admin", "identity_credentials", "save_credentials",
                             "link_archives", "create_identity"}
            /\ label \in {"drop_secret", "delete_user"} => locals.target \in Uuids
  PROVE  Step(r)
<1>1. pc[r] \notin {"create_admin", "create_users", "done"}
  BY DEF Operation, Reads
<1>2. UNCHANGED <<rows, secrets>>
  BY DEF Check
<1>3. \A row \in rows : ~Own(r, row)
  BY NothingOwn
<1>4. WithdrawalOf(r)'
  BY <1>2, <1>3 DEF WithdrawalOf, Own
<1>5. Advances(r)
  BY DEF Advances, Ahead
<1>6. CASE code # "none"
  <2>1. Answer(r, code)
    BY <1>6 DEF Check
  <2>2. /\ Frame(r) /\ Placed(r)' /\ Points(r)' /\ Aims(r) /\ pc'[r] = "done"
    BY <1>6, <2>1, AnswerMoves
  <2> QED
    BY <1>1, <1>2, <1>4, <1>5, <2>2, Unmoved DEF Step
<1>7. CASE code = "none"
  <2>1. /\ pc' = [pc EXCEPT ![r] = label] /\ reply' = reply
        /\ loc' = [loc EXCEPT ![r] = locals]
    BY <1>7 DEF Check, Goto
  <2>2. Frame(r) /\ pc'[r] = label /\ reply'[r] = reply[r] /\ loc'[r] = locals
    BY <2>1 DEF Frame, ApiInv, Control
  <2>3. reply[r] = "none" /\ label # "done"
    BY <1>1, <1>7, OpOf DEF Flows, Creating, CreatesTask
  <2>4. Placed(r)'
    BY <1>7, <2>2, <2>3 DEF Placed, Ask, Answers
  <2>5. Points(r)'
    BY <1>2, <1>7, <2>2 DEF Points, PointsAt, GroupAt, Rows, Ask, Asks
  <2>6. Aims(r)
    BY <1>7, <2>2 DEF Aims, Aimed
  <2> QED
    BY <1>1, <1>2, <1>4, <1>5, <1>7, <2>2, <2>4, <2>5, <2>6, Unmoved DEF Step
<1> QED
  BY <1>6, <1>7

\* A request goes on somewhere in its view.
Moves(r, label, locals) ==
    Frame(r) /\ pc'[r] = label /\ reply'[r] = reply[r] /\ loc'[r] = locals

LEMMA GoMoves ==
  ASSUME ApiInv, NEW r \in Request, pc[r] # "done", NEW label, NEW locals,
         Moves(r, label, locals), <<Ask(r).op, label>> \in Flows, IsLocals(locals),
         label = "link_archives" => IsFiniteSet(locals.rest),
         label \in CreatesTask => locals.todo # <<>>
  PROVE  Placed(r)' /\ reply'[r] = "none"
<1>1. reply[r] = "none" /\ label # "done"
  BY OpOf DEF Flows, Creating, CreatesTask
<1> QED
  BY <1>1 DEF Moves, Frame, Placed, Ask, Answers

\* Whatever an answer comes with.
LEMMA AnswerStep ==
  ASSUME ApiInv, NEW r \in Request, NEW code \in Answers \ {"none"}, Answer(r, code),
         batch' = batch, UNCHANGED rollbacks, UNCHANGED <<engine, reports>>,
         pc[r] # "done", pc[r] = "create_admin" => code # "ok",
         Effect(r), SecretSteps(r), RunsKept, WithdrawalOf(r)'
  PROVE  Step(r)
<1>1. Frame(r) /\ Placed(r)' /\ Points(r)' /\ Aims(r) /\ Advances(r)
  BY AnswerMoves
<1>2. pc'[r] = "done" /\ reply'[r] = code
  BY AnswerMoves
<1>3. EngineKept(r) /\ Registers(r) /\ GroupSteps(r)
  BY <1>2 DEF EngineKept, Registers, GroupSteps, ApiInv, Reporting
<1> QED
  BY <1>1, <1>3 DEF Step

\* Who does not create a pipeline, or is told that it is there, need not withdraw any.
LEMMA NotWithdrawn ==
  ASSUME ApiInv, NEW r \in Request, batch' = batch, \/ ~Asks(r, "pipelines_post")
                                                    \/ \A row \in rows' : ~Own(r, row)
  PROVE  WithdrawalOf(r)'
  BY DEF WithdrawalOf, Asks, Ask, Own

LEMMA RowsUnchanged ==
  ASSUME ApiInv, NEW r \in Request, UNCHANGED <<rows, secrets>>,
         pc'[r] \notin {"identity_credentials", "save_credentials"}
  PROVE  Effect(r) /\ SecretSteps(r) /\ RunsKept
  BY DEF Effect, SecretSteps, Uuids, RunsKept

LEMMA RowInserted ==
  ASSUME ApiInv, NEW r \in Request, NEW table \in Table, NEW n, NEW id, NEW owner, NEW value,
         NEW keys, NEW row, row = NewRow(table, New(r, table, n), id, owner, value, keys),
         Insert(row), Ahead(r, table, n), ~Ahead(r, table, n)',
         Insertable(row) \/ (table \in Unchecked /\ Above(keys) \subseteq Uuids),
         \A k \in keys : <<table, k[2]>> \in Hangs,
         table = "Identity" => keys # {},
         table = "GroupUser" => \E g \in Rows("Group") : keys = {g.uuid},
         table = "Group" => n = 1 /\ pc[r] = "create_group" /\ pc'[r] = "create_admin",
         \A k \in keys : k[1] \in Request =>
            /\ \/ k[2] \notin {"Context", "Destination", "Credentials"}
               \/ k[2] = "Credentials" /\ k[3] = 0
               \/ k[1] = r /\ table # "Identity"
               \/ table = "TaskExecution"
            /\ k[2] = "Credentials" /\ k[3] = 0 => table = "Identity" /\ k[1] = r /\ n = 1
  PROVE  /\ Effect(r) /\ rows' = rows \cup {row} /\ Inserts(r, table, n, keys, row)
         /\ row.table = table /\ row.uuid = New(r, table, n) /\ row.id = id
         /\ row.owner = owner /\ row.value = value /\ row.above = Above(keys)
         /\ value = "submitted" => RunsKept
         /\ table # "PipelineRun" => RunsKept
         /\ /\ UNCHANGED secrets /\ table # "Credentials"
            /\ pc'[r] \notin {"identity_credentials", "save_credentials"}
            => SecretSteps(r)
<1>1. /\ IsRow(row) /\ row.table = table /\ row.uuid = New(r, table, n) /\ row.id = id
      /\ row.owner = owner /\ row.value = value /\ row.above = Above(keys)
      /\ table \in Unchecked => row.key = <<"none", "none", {row.uuid}>>
  BY RowFields
<1>2. row.above \subseteq Uuids /\ (table \in Unchecked \/ Insertable(row))
  BY <1>1 DEF Insertable
<1>3. Inserts(r, table, n, keys, row)
  BY <1>1, <1>2 DEF Inserts
<1>4. rows' = rows \cup {row}
  BY DEF Insert
<1>5. Effect(r)
  BY <1>3 DEF Effect
<1>6. row.uuid \notin Uuids
  BY <1>1 DEF ApiInv, Fresh, Held, New
<1> QED
  BY <1>1, <1>3, <1>4, <1>5, <1>6 DEF RunsKept, SecretSteps, Uuids

LEMMA RowsDeleted ==
  ASSUME ApiInv, NEW r \in Request, NEW uuids, Delete(uuids),
         \A u \in uuids : /\ u[2] # "Group"
                          /\ u[2] = "GroupUser" => pc[r] = "delete_user" /\ u = loc[r].target,
         UNCHANGED secrets, pc'[r] \notin {"identity_credentials", "save_credentials"}
  PROVE  /\ Effect(r) /\ SecretSteps(r) /\ RunsKept /\ rows' \subseteq rows
         /\ \A row \in rows' : row.uuid \notin uuids /\ row.above \cap uuids = {}
<1>1. /\ rows' \subseteq rows
      /\ \A row \in rows' : row.uuid \notin uuids /\ row.above \cap uuids = {}
  BY DeleteSound DEF ApiInv
<1>2. Effect(r)
  BY DEF Effect, Removes
<1>3. RunsKept
  BY <1>1 DEF RunsKept
<1>4. SecretSteps(r)
  BY <1>1 DEF SecretSteps, Uuids
<1> QED
  BY <1>1, <1>2, <1>3, <1>4

-----------------------------------------------------------------------------
(***************************************************************************)
(* The checks of the views                                                 *)
(***************************************************************************)

\* What the queries find are rows of their tables.
LEMMA Found ==
  ASSUME ApiInv, NEW r \in Request
  PROVE  /\ \A table : \A x \in Rows(table) :
              x \in rows /\ x.table = table /\ x.uuid[2] = table /\ x.uuid \in Uuids
         /\ Groups(r) # {} => GroupAt(GroupUuid(r))
         /\ Pipelines(r) # {} => ThePipeline(r) \in Rows("Pipeline")
         /\ \A id : Archives(r, id) \subseteq Rows("Archive")
         /\ TasksNamed(r) \subseteq Rows("Task")
<1>1. \A table : \A x \in Rows(table) :
         x \in rows /\ x.table = table /\ x.uuid[2] = table /\ x.uuid \in Uuids
  BY DEF Rows, Uuids, ApiInv, Sound, Identified
<1>2. Groups(r) # {} => GroupAt(GroupUuid(r))
  BY DEF GroupAt, GroupUuid, Groups
<1>3. Pipelines(r) # {} => ThePipeline(r) \in Pipelines(r)
  BY DEF ThePipeline
<1>4. Pipelines(r) \subseteq Rows("Pipeline")
  BY DEF Pipelines, Find, Under
<1>5. TasksNamed(r) \subseteq Rows("Task") /\ \A id : Archives(r, id) \subseteq Rows("Archive")
  BY DEF TasksNamed, Archives, Find, Under
<1> QED
  BY <1>1, <1>2, <1>3, <1>4, <1>5

LEMMA TemplateCode == ASSUME NEW r PROVE TemplateRefusal(r) \in Answers
<1>1. "server_error" \in Answers /\ "crashed" \in Answers /\ "unprocessable" \in Answers
      /\ "none" \in Answers
  BY DEF Answers
<1> QED
  BY <1>1, Zenon DEF TemplateRefusal

LEMMA SystemCode == ASSUME NEW r PROVE SystemRefusal(r) \in Answers
<1>1. "server_error" \in Answers /\ "bad_request" \in Answers /\ "forbidden" \in Answers
      /\ "none" \in Answers
  BY DEF Answers
<1> QED
  BY <1>1, Zenon DEF SystemRefusal

LEMMA Refusals ==
  ASSUME NEW r
  PROVE  /\ Refusal(r) \in Answers /\ (Refusal(r) = "none" => Groups(r) # {})
         /\ AdminRefusal(r) \in Answers /\ (AdminRefusal(r) = "none" => Groups(r) # {})
         /\ BodyRefusal(r) \in Answers
         /\ \A a, b \in Answers : /\ FirstOf(a, b) \in Answers
                                  /\ FirstOf(a, b) = "none" <=> a = "none" /\ b = "none"
  BY DEF Refusal, AdminRefusal, BodyRefusal, FirstOf, Answers

\* A view that checks leads from its operation.
LEMMA Operating ==
  ASSUME ApiInv, NEW r \in Request, pc[r] \in Operation
  PROVE  Ask(r).op = pc[r]
  BY OpOf DEF Flows, Creating, CreatesTask, Operation, Reads

LEMMA LocalsAre ==
  /\ IsLocals(Locals)
  /\ \A x, y, z : /\ IsLocals([Locals EXCEPT !.target = x])
                  /\ IsLocals([Locals EXCEPT !.pipeline = x, !.rest = y])
                  /\ IsLocals([Locals EXCEPT !.pipeline = x, !.target = y])
  /\ \A todo \in Seq(UserAsked) \cup Seq(TaskAsked) : \A x, y :
        /\ IsLocals([Locals EXCEPT !.todo = todo])
        /\ IsLocals([Locals EXCEPT !.pipeline = x, !.owner = y, !.todo = todo])
<1>1. <<>> \in Seq(UserAsked \cup TaskAsked \cup EtlAsked)
  OBVIOUS
<1>2. \A todo \in Seq(UserAsked) \cup Seq(TaskAsked) :
         todo \in Seq(UserAsked \cup TaskAsked \cup EtlAsked)
  OBVIOUS
<1>3. IsLocals(Locals)
  BY <1>1 DEF IsLocals, Locals
<1>4. ASSUME NEW l, IsLocals(l), NEW x, NEW y
      PROVE  /\ IsLocals([l EXCEPT !.target = x]) /\ [l EXCEPT !.target = x].target = x
             /\ IsLocals([l EXCEPT !.pipeline = x]) /\ IsLocals([l EXCEPT !.owner = x])
             /\ IsLocals([l EXCEPT !.rest = x])
  BY <1>4 DEF IsLocals
<1>5. ASSUME NEW l, IsLocals(l), NEW todo \in Seq(UserAsked \cup TaskAsked \cup EtlAsked)
      PROVE  IsLocals([l EXCEPT !.todo = todo])
  BY <1>5 DEF IsLocals
<1> QED
  BY <1>2, <1>3, <1>4, <1>5

LEMMA TaskLabels ==
  ASSUME NEW todo
  PROVE  /\ TaskLabel(todo) \in {"created", "authn", "make_task"}
         /\ TaskLabel(todo) # "created" => todo # <<>>
  BY DEF TaskLabel

LEMMA PostGroupStep ==
  ASSUME ApiInv, NEW r \in Request, PostGroup(r), batch' = batch, EngineUnchanged
  PROVE  Step(r)
<1>1. pc[r] = "groups_post" /\ Ask(r).op = "groups_post" /\ Ask(r).users \in Seq(UserAsked)
  BY Operating, BatchesAssumption DEF PostGroup, At, Operation, ApiInv, Control, Ask
<1>2. PointsAt(r, "create_group", [Locals EXCEPT !.todo = Ask(r).users])
  BY DEF PointsAt, Creating, CreatesTask
<1>3. IsLocals([Locals EXCEPT !.todo = Ask(r).users])
  BY <1>1, LocalsAre
<1>4. FirstOf(BodyRefusal(r), IF Groups(r) # {} THEN "conflict" ELSE "none") \in Answers
  BY Refusals DEF Answers
<1> QED
  BY <1>1, <1>2, <1>3, <1>4, CheckStep
     DEF PostGroup, Operation, EngineUnchanged, Flows, CreatesTask

LEMMA PostUserStep ==
  ASSUME ApiInv, NEW r \in Request, PostUser(r), batch' = batch, EngineUnchanged
  PROVE  Step(r)
<1> DEFINE first == FirstOf(AdminRefusal(r), BodyRefusal(r))
           code == IF first = "none" /\ IsMember(r) THEN "ok" ELSE first
           locals == [Locals EXCEPT !.target = GroupUuid(r)]
<1>1. pc[r] = "users_post" /\ Ask(r).op = "users_post"
  BY Operating DEF PostUser, At, Operation
<1>2. code \in Answers /\ (code = "none" => Groups(r) # {})
  BY Refusals DEF Answers
<1>3. code = "none" => PointsAt(r, "create_user", locals)
  BY <1>2, Found DEF PointsAt, Creating, CreatesTask, Locals
<1>4. IsLocals(locals) /\ Check(r, code, "create_user", locals) /\ UNCHANGED rollbacks
  BY LocalsAre DEF PostUser
<1> HIDE DEF code, locals
<1> QED
  BY <1>1, <1>2, <1>3, <1>4, CheckStep DEF Operation, EngineUnchanged, Flows, CreatesTask

LEMMA PostIdentityStep ==
  ASSUME ApiInv, NEW r \in Request, PostIdentity(r), batch' = batch, EngineUnchanged
  PROVE  Step(r)
<1>1. pc[r] = "identities_post" /\ Ask(r).op = "identities_post"
  BY Operating DEF PostIdentity, At, Operation
<1>2. PointsAt(r, "identity_secret", Locals)
  BY DEF PointsAt, Creating, CreatesTask
<1> QED
  BY <1>1, <1>2, LocalsAre, Refusals, CheckStep
     DEF PostIdentity, Operation, EngineUnchanged, Flows, CreatesTask

LEMMA PostArchiveStep ==
  ASSUME ApiInv, NEW r \in Request, PostArchive(r), batch' = batch, EngineUnchanged
  PROVE  Step(r)
<1> DEFINE last == IF Archives(r, Ask(r).id) # {} THEN "conflict"
                   ELSE IF Ask(r).kind # "system" THEN "bad_request" ELSE SystemRefusal(r)
           code == FirstOf(Refusal(r), FirstOf(BodyRefusal(r), last))
           locals == [Locals EXCEPT !.target = GroupUuid(r)]
<1>1. pc[r] = "archives_post" /\ Ask(r).op = "archives_post"
  BY Operating DEF PostArchive, At, Operation
<1>2. last \in Answers
  BY SystemCode DEF Answers
<1>3. code \in Answers /\ (code = "none" => Groups(r) # {})
  BY <1>2, Refusals
<1>4. code = "none" => PointsAt(r, "create_archive", locals)
  BY <1>3, Found DEF PointsAt, Creating, CreatesTask, Locals
<1>5. IsLocals(locals) /\ Check(r, code, "create_archive", locals) /\ UNCHANGED rollbacks
  BY LocalsAre DEF PostArchive
<1> HIDE DEF code, locals
<1> QED
  BY <1>1, <1>3, <1>4, <1>5, CheckStep DEF Operation, EngineUnchanged, Flows, CreatesTask

LEMMA DeleteArchiveStep ==
  ASSUME ApiInv, NEW r \in Request, DeleteArchive(r), batch' = batch, EngineUnchanged
  PROVE  Step(r)
<1> DEFINE code == FirstOf(Refusal(r), IF Archives(r, Ask(r).id) = {} THEN "not_found" ELSE "none")
           archive == CHOOSE a \in Archives(r, Ask(r).id) : TRUE
           locals == [Locals EXCEPT !.target = archive.uuid]
<1>1. pc[r] = "archive_delete" /\ Ask(r).op = "archive_delete"
  BY Operating DEF DeleteArchive, At, Operation
<1>2. code \in Answers /\ (code = "none" => Archives(r, Ask(r).id) # {})
  BY Refusals DEF Answers
<1>3. code = "none" => archive.uuid[2] = "Archive"
  BY <1>2, Found
<1>4. Check(r, code, "delete_archive", locals) /\ UNCHANGED rollbacks
  BY DEF DeleteArchive
<1> HIDE DEF code, archive
<1>5. IsLocals(locals) /\ (code = "none" => PointsAt(r, "delete_archive", locals))
  BY <1>3, LocalsAre DEF PointsAt, Creating, CreatesTask, Locals
<1> HIDE DEF locals
<1> QED
  BY <1>1, <1>2, <1>4, <1>5, CheckStep DEF Operation, EngineUnchanged, Flows, CreatesTask

\* The user who is removed is not the owner of a group that his entry is of.
LEMMA DeleteUserStep ==
  ASSUME ApiInv, NEW r \in Request, DeleteUser(r), batch' = batch, EngineUnchanged
  PROVE  Step(r)
<1> DEFINE code == FirstOf(AdminRefusal(r), FirstOf(OwnerRefusal(r),
                       IF ~IsMember(r) THEN "not_found" ELSE "none"))
           found == UNION {Members(g, Ask(r).id) : g \in Groups(r)}
           last(m) == IF m.value = "admin" /\ ~UserOwnsGroup(r, Ask(r).user)
                      THEN "forbidden" ELSE "none"
           locals(m) == [Locals EXCEPT !.target = m.uuid]
<1>1. pc[r] = "users_delete" /\ Ask(r).op = "users_delete"
  BY Operating DEF DeleteUser, At, Operation
<1>2. OwnerRefusal(r) \in Answers /\ (OwnerRefusal(r) = "none" => ~UserOwnsGroup(r, Ask(r).id))
  BY DEF OwnerRefusal, Answers
<1>3. code \in Answers /\ (code = "none" => OwnerRefusal(r) = "none")
  BY <1>2, Refusals DEF Answers
<1>4. CASE code # "none" /\ Check(r, code, "done", Locals)
  <2> HIDE DEF code
  <2>1. UNCHANGED rollbacks
    BY DEF DeleteUser
  <2> QED
    BY <1>1, <1>3, <1>4, <2>1, CheckStep DEF Operation, EngineUnchanged
<1>5. ASSUME code = "none", NEW m \in found, Check(r, last(m), "delete_user", locals(m)),
             UNCHANGED rollbacks
      PROVE  Step(r)
  <2>1. PICK g \in Groups(r) : m \in Members(g, Ask(r).id)
    OBVIOUS
  <2>2. m \in rows /\ m.table = "GroupUser" /\ m.id = Ask(r).id /\ g.uuid \in m.above
    BY <2>1 DEF Members, Under, Rows
  <2>3. m.uuid[2] = "GroupUser" /\ m.uuid \in Uuids
    BY <2>2, Found DEF Rows
  <2>4. \A h \in Rows("Group") : h.uuid \in m.above => h = g
    <3>1. PICK x \in Rows("Group") : m.above = {x.uuid}
      BY <2>2 DEF ApiInv, Owned, Rows
    <3>2. g \in Rows("Group")
      BY DEF Groups
    <3> QED
      BY <2>2, <3>1, <3>2 DEF ApiInv, Sound, Identified, Rows
  <2>5. m.id # g.owner
    BY <1>2, <1>3, <1>5, <2>1, <2>2 DEF UserOwnsGroup
  <2>6. \A x \in rows : x.uuid = m.uuid => x = m
    BY <2>2 DEF ApiInv, Sound, Identified
  <2>7. IsLocals(locals(m)) /\ locals(m).target = m.uuid
    BY LocalsAre DEF Locals
  <2>8. last(m) \in Answers
    BY DEF Answers
  <2> HIDE DEF code, last, locals
  <2>9. PointsAt(r, "delete_user", locals(m))
    BY <2>3, <2>4, <2>5, <2>6, <2>7 DEF PointsAt, Creating, CreatesTask
  <2> QED
    BY <1>1, <1>5, <2>3, <2>7, <2>8, <2>9, CheckStep
       DEF Operation, EngineUnchanged, Flows, CreatesTask
<1> QED
  BY <1>4, <1>5 DEF DeleteUser

LEMMA DeleteIdentityStep ==
  ASSUME ApiInv, NEW r \in Request, DeleteIdentity(r), batch' = batch, EngineUnchanged
  PROVE  Step(r)
<1> DEFINE code == IF ~\E i \in Rows("Identity") : i.id = Ask(r).id THEN "not_found"
                   ELSE IF TheIdentity(r).owner # Ask(r).user THEN "forbidden" ELSE "none"
           uuid == CHOOSE k \in TheIdentity(r).above : TRUE
           locals == [Locals EXCEPT !.target = uuid]
<1>1. pc[r] = "identity_delete" /\ Ask(r).op = "identity_delete"
  BY Operating DEF DeleteIdentity, At, Operation
<1>2. code \in Answers
  BY DEF Answers
<1>3. code = "none" => uuid[2] = "Credentials" /\ uuid \in Uuids
  <2> SUFFICES ASSUME code = "none" PROVE uuid[2] = "Credentials" /\ uuid \in Uuids
    OBVIOUS
  <2>1. TheIdentity(r) \in Rows("Identity")
    BY DEF TheIdentity
  <2>2. TheIdentity(r).above # {}
    BY <2>1 DEF ApiInv, Hanging
  <2>3. uuid \in TheIdentity(r).above
    BY <2>2
  <2> HIDE DEF uuid
  <2>4. <<"Identity", uuid[2]>> \in Hangs
    BY <2>1, <2>3 DEF ApiInv, Hanging, Rows
  <2>5. uuid \in Uuids
    BY <2>1, <2>3 DEF ApiInv, Sound, DatabaseIntegrity, Rows
  <2> QED
    BY <2>4, <2>5 DEF Hangs
<1>4. Check(r, code, "drop_secret", locals) /\ UNCHANGED rollbacks
  BY DEF DeleteIdentity
<1> HIDE DEF code, uuid
<1>5. IsLocals(locals) /\ locals.target = uuid
  BY LocalsAre DEF Locals
<1> HIDE DEF locals
<1>6. code = "none" => PointsAt(r, "drop_secret", locals)
  BY <1>3, <1>5 DEF PointsAt, Creating, CreatesTask
<1> QED
  BY <1>1, <1>2, <1>3, <1>4, <1>5, <1>6, CheckStep DEF Operation, EngineUnchanged, Flows, CreatesTask

LEMMA PostPipelineStep ==
  ASSUME ApiInv, NEW r \in Request, PostPipeline(r), batch' = batch, EngineUnchanged
  PROVE  Step(r)
<1> DEFINE locals == [Locals EXCEPT !.target = GroupUuid(r)]
<1>1. pc[r] = "pipelines_post" /\ Ask(r).op = "pipelines_post"
  BY Operating DEF PostPipeline, At, Operation
<1>2. PostRefusal(r) \in Answers /\ (PostRefusal(r) = "none" => Groups(r) # {})
  BY Refusals, TemplateCode DEF PostRefusal, Answers
<1>3. PostRefusal(r) = "none" => PointsAt(r, "create_pipeline", locals)
  BY <1>2, Found DEF PointsAt, Creating, CreatesTask, Locals
<1>4. IsLocals(locals) /\ Check(r, PostRefusal(r), "create_pipeline", locals) /\ UNCHANGED rollbacks
  BY LocalsAre DEF PostPipeline
<1> HIDE DEF locals
<1> QED
  BY <1>1, <1>2, <1>3, <1>4, CheckStep DEF Operation, EngineUnchanged, Flows, CreatesTask

LEMMA DeletePipelineCode ==
  ASSUME NEW r
  PROVE  /\ DeletePipelineRefusal(r) \in Answers
         /\ DeletePipelineRefusal(r) = "none" => Pipelines(r) # {} /\ Groups(r) # {}
  BY Refusals DEF DeletePipelineRefusal, Answers

LEMMA DeletePipelineStep ==
  ASSUME ApiInv, NEW r \in Request, DeletePipeline(r), batch' = batch, EngineUnchanged
  PROVE  Step(r)
<1> DEFINE code == DeletePipelineRefusal(r)
           pipeline == ThePipeline(r).uuid
           tasks == {t.uuid : t \in Under("Task", pipeline)}
           locals == [Locals EXCEPT !.pipeline = pipeline, !.rest = tasks]
<1>1. pc[r] = "pipeline_delete" /\ Ask(r).op = "pipeline_delete"
  BY Operating DEF DeletePipeline, At, Operation
<1>2. code \in Answers /\ (code = "none" => Pipelines(r) # {})
  BY DeletePipelineCode
<1>3. code = "none" => pipeline[2] = "Pipeline"
  BY <1>2, Found
<1>4. \A t \in tasks : t[2] = "Task"
  BY Found DEF Under
<1>5. Check(r, code, "delete_tasks", locals) /\ UNCHANGED rollbacks
  BY DEF DeletePipeline
<1> HIDE DEF code, pipeline, tasks
<1>6. IsLocals(locals) /\ locals.pipeline = pipeline /\ locals.rest = tasks
  BY LocalsAre DEF Locals
<1> HIDE DEF locals
<1>7. code = "none" => PointsAt(r, "delete_tasks", locals)
  BY <1>3, <1>4, <1>6 DEF PointsAt, Creating, CreatesTask
<1> QED
  BY <1>1, <1>2, <1>5, <1>6, <1>7, CheckStep DEF Operation, EngineUnchanged, Flows, CreatesTask

LEMMA ChangeOwnerStep ==
  ASSUME ApiInv, NEW r \in Request, ChangeOwner(r), batch' = batch, EngineUnchanged
  PROVE  Step(r)
<1> DEFINE locals == [Locals EXCEPT !.target = GroupUuid(r)]
<1>1. pc[r] = "change_owner" /\ Ask(r).op = "change_owner"
  BY Operating DEF ChangeOwner, At, Operation
<1>2. IsLocals(locals) /\ PointsAt(r, "set_owner", locals)
  BY LocalsAre DEF PointsAt, Creating, CreatesTask
<1>3. Check(r, DeletePipelineRefusal(r), "set_owner", locals) /\ UNCHANGED rollbacks
  BY DEF ChangeOwner
<1> HIDE DEF locals
<1> QED
  BY <1>1, <1>2, <1>3, DeletePipelineCode, CheckStep DEF Operation, EngineUnchanged, Flows, CreatesTask

LEMMA ChangeArchiveStep ==
  ASSUME ApiInv, NEW r \in Request, ChangeArchive(r), batch' = batch, EngineUnchanged
  PROVE  Step(r)
<1> DEFINE code == ArchiveRefusal(r)
           label == IF Asks(r, "add_archive") THEN "add_link" ELSE "remove_link"
           pipeline == ThePipeline(r).uuid
           archive == (CHOOSE a \in Archives(r, Ask(r).id) : TRUE).uuid
           locals == [Locals EXCEPT !.pipeline = pipeline, !.target = archive]
<1>1. pc[r] \in {"add_archive", "remove_archive"} /\ Ask(r).op = pc[r]
  BY Operating DEF ChangeArchive, At, Operation
<1>2. code \in Answers /\ (code = "none" => Pipelines(r) # {} /\ Archives(r, Ask(r).id) # {})
  BY Refusals DEF ArchiveRefusal, Answers
<1>3. code = "none" => pipeline[2] = "Pipeline" /\ archive[2] = "Archive"
  BY <1>2, Found
<1>4. label \in {"add_link", "remove_link"} /\ <<Ask(r).op, label>> \in Flows
  BY <1>1 DEF Asks, Flows
<1>5. Check(r, code, label, locals) /\ UNCHANGED rollbacks
  BY DEF ChangeArchive
<1> HIDE DEF code, label, pipeline, archive
<1>6. IsLocals(locals) /\ locals.pipeline = pipeline /\ locals.target = archive
  BY LocalsAre DEF Locals
<1> HIDE DEF locals
<1>7. code = "none" => PointsAt(r, label, locals)
  BY <1>3, <1>4, <1>6 DEF PointsAt, Creating, CreatesTask
<1>8. pc[r] \in Operation
  BY <1>1 DEF Operation
<1> QED
  BY <1>2, <1>4, <1>5, <1>6, <1>7, <1>8, CheckStep DEF EngineUnchanged, CreatesTask

LEMMA PostTaskStep ==
  ASSUME ApiInv, NEW r \in Request, PostTask(r), batch' = batch, EngineUnchanged
  PROVE  Step(r)
<1> DEFINE code == PostTaskRefusal(r)
           todo == Ask(r).tasks
           pipeline == ThePipeline(r).uuid
           owner == ThePipeline(r).owner
           locals == [Locals EXCEPT !.pipeline = pipeline, !.owner = owner, !.todo = todo]
<1>1. pc[r] = "tasks_post" /\ Ask(r).op = "tasks_post" /\ todo \in Seq(TaskAsked)
  BY Operating, BatchesAssumption DEF PostTask, At, Operation, ApiInv, Control, Ask
<1>2. code \in Answers /\ (code = "none" => Pipelines(r) # {})
  BY Refusals DEF PostTaskRefusal, Answers
<1>3. code = "none" => pipeline[2] = "Pipeline"
  BY <1>2, Found
<1>4. Check(r, code, TaskLabel(todo), locals) /\ UNCHANGED rollbacks
  BY DEF PostTask
<1> HIDE DEF code, todo, pipeline, owner
<1>5. /\ IsLocals(locals) /\ locals.pipeline = pipeline /\ locals.todo = todo
      /\ locals.authn = {} /\ locals.context = {} /\ locals.destination = {}
  BY <1>1, LocalsAre DEF Locals
<1> HIDE DEF locals
<1>6. code = "none" => PointsAt(r, TaskLabel(todo), locals)
  BY <1>1, <1>3, <1>5, TaskLabels DEF PointsAt, Creating, CreatesTask, Asks
<1>7. <<Ask(r).op, TaskLabel(todo)>> \in Flows
  BY <1>1, TaskLabels DEF Flows, Creating, CreatesTask
<1>8. pc[r] \in Operation
  BY <1>1 DEF Operation
<1> QED
  BY <1>2, <1>4, <1>5, <1>6, <1>7, <1>8, TaskLabels, CheckStep DEF EngineUnchanged, CreatesTask

LEMMA DeleteTaskStep ==
  ASSUME ApiInv, NEW r \in Request, DeleteTask(r), batch' = batch, EngineUnchanged
  PROVE  Step(r)
<1> DEFINE code == TaskRefusal(r)
           task == (CHOOSE t \in TasksNamed(r) : TRUE).uuid
           locals == [Locals EXCEPT !.target = task]
<1>1. pc[r] = "task_delete" /\ Ask(r).op = "task_delete"
  BY Operating DEF DeleteTask, At, Operation
<1>2. code \in Answers /\ (code = "none" => TasksNamed(r) # {})
  BY Refusals DEF TaskRefusal, Answers
<1>3. code = "none" => task[2] = "Task"
  BY <1>2, Found
<1>4. Check(r, code, "delete_task", locals) /\ UNCHANGED rollbacks
  BY DEF DeleteTask
<1> HIDE DEF code, task
<1>5. IsLocals(locals) /\ locals.target = task
  BY LocalsAre DEF Locals
<1> HIDE DEF locals
<1>6. code = "none" => PointsAt(r, "delete_task", locals)
  BY <1>3, <1>5 DEF PointsAt, Creating, CreatesTask
<1> QED
  BY <1>1, <1>2, <1>4, <1>5, <1>6, CheckStep DEF Operation, EngineUnchanged, Flows, CreatesTask

LEMMA RunPipelineStep ==
  ASSUME ApiInv, NEW r \in Request, RunPipeline(r), batch' = batch
  PROVE  Step(r)
<1> DEFINE code == RunRefusal(r)
           pipeline == ThePipeline(r).uuid
           tasks == DispatchedTasks(ThePipeline(r))
           locals == [Locals EXCEPT !.pipeline = pipeline, !.rest = tasks]
<1>1. pc[r] = "run" /\ Ask(r).op = "run"
  BY Operating DEF RunPipeline, At, Operation
<1>2. code \in Answers /\ (code = "none" => Pipelines(r) # {})
  BY Refusals DEF RunRefusal, Answers
<1>3. code = "none" => pipeline[2] = "Pipeline"
  BY <1>2, Found
<1>4. Check(r, code, "create_run", locals) /\ UNCHANGED rollbacks /\ UNCHANGED <<engine, reports>>
  BY DEF RunPipeline, EngineUnchanged
<1> HIDE DEF code, pipeline, tasks
<1>5. IsLocals(locals) /\ locals.pipeline = pipeline
  BY LocalsAre DEF Locals
<1> HIDE DEF locals
<1>6. code = "none" => PointsAt(r, "create_run", locals)
  BY <1>3, <1>5 DEF PointsAt, Creating, CreatesTask
<1> QED
  BY <1>1, <1>2, <1>4, <1>5, <1>6, CheckStep DEF Operation, Flows, CreatesTask

-----------------------------------------------------------------------------
(***************************************************************************)
(* Answers that leave the rows alone                                       *)
(***************************************************************************)

\* Whoever answers a request that creates a pipeline either has created it, or has
\* left nothing behind.
LEMMA WithdrawalAnswered ==
  ASSUME ApiInv, NEW r \in Request, NEW code, Answer(r, code), batch' = batch, rows' \subseteq rows,
         \/ ~Asks(r, "pipelines_post")
         \/ code = "ok"
         \/ Ask(r).kind = "workflow" /\ loc[r].error = "server_error"
         \/ \A row \in rows' : ~Own(r, row)
  PROVE  WithdrawalOf(r)'
<1>1. reply'[r] = code /\ loc' = loc /\ Ask(r)' = Ask(r)
  BY DEF Answer, ApiInv, Control, Ask
<1>2. WithdrawalOf(r)
  BY DEF ApiInv
<1> QED
  BY <1>1, <1>2 DEF WithdrawalOf, Own, Asks

LEMMA PlainAnswer ==
  ASSUME ApiInv, NEW r \in Request, NEW code \in Answers \ {"none"}, Answer(r, code),
         batch' = batch, UNCHANGED <<rows, secrets, rollbacks>>, EngineUnchanged,
         pc[r] # "done", pc[r] = "create_admin" => code # "ok",
         \/ ~Asks(r, "pipelines_post")
         \/ code = "ok"
         \/ Ask(r).kind = "workflow" /\ loc[r].error = "server_error"
         \/ \A row \in rows : ~Own(r, row)
  PROVE  Step(r)
<1>1. pc'[r] = "done" /\ rows' = rows
  BY AnswerMoves DEF EngineUnchanged
<1>2. WithdrawalOf(r)'
  BY <1>1, WithdrawalAnswered
<1>3. Effect(r) /\ SecretSteps(r) /\ RunsKept
  BY <1>1, RowsUnchanged
<1> QED
  BY <1>2, <1>3, AnswerStep DEF EngineUnchanged

LEMMA ReadCodes ==
  ASSUME NEW r
  PROVE  /\ GroupsGet(r) \in Answers \ {"none"} /\ UsersGet(r) \in Answers \ {"none"}
         /\ IdentitiesGet(r) \in Answers \ {"none"} /\ ArchivesGet(r) \in Answers \ {"none"}
         /\ PipelinesGet(r) \in Answers \ {"none"} /\ TasksGet(r) \in Answers \ {"none"}
         /\ PipelineArchivesGet(r) \in Answers \ {"none"}
         /\ PipelineRunsGet(r) \in Answers \ {"none"}
         /\ TaskExecutionsGet(r) \in Answers \ {"none"}
<1>1. \A found, code : code \in Answers \ {"none"} => OneOf(r, found, code) \in Answers \ {"none"}
  BY DEF OneOf, Answers
<1>2. \A code \in Answers \ {"none"} : PipelineOr(r, code) \in Answers
  BY DEF PipelineOr, Answers
<1>3. {"ok", "not_found", "bad_request", "crashed", "forbidden"} \subseteq Answers \ {"none"}
  BY DEF Answers
<1> HIDE DEF Answers
<1>4. GroupsGet(r) \in Answers \ {"none"} /\ IdentitiesGet(r) \in Answers \ {"none"}
  BY <1>3, Refusals DEF GroupsGet, IdentitiesGet
<1>5. UsersGet(r) \in Answers \ {"none"} /\ ArchivesGet(r) \in Answers \ {"none"}
  BY <1>1, <1>3, Refusals DEF UsersGet, ArchivesGet
<1>6. PipelinesGet(r) \in Answers \ {"none"} /\ PipelineArchivesGet(r) \in Answers \ {"none"}
  BY <1>2, <1>3, Refusals DEF PipelinesGet, PipelineArchivesGet
<1>7. TasksGet(r) \in Answers \ {"none"} /\ PipelineRunsGet(r) \in Answers \ {"none"}
  BY <1>1, <1>2, <1>3, Refusals DEF TasksGet, PipelineRunsGet
<1>8. TaskExecutionsGet(r) \in Answers \ {"none"}
  BY <1>2, <1>3, Refusals DEF TaskExecutionsGet
<1> QED
  BY <1>4, <1>5, <1>6, <1>7, <1>8

LEMMA ReadStepStep ==
  ASSUME ApiInv, NEW r \in Request, ReadStep(r), batch' = batch, EngineUnchanged
  PROVE  Step(r)
<1>1. pc[r] \in Reads /\ pc[r] # "done" /\ pc[r] # "create_admin" /\ Ask(r).op = pc[r]
  BY Operating DEF ReadStep, Operation, Reads
<1>2. ~Asks(r, "pipelines_post")
  BY <1>1 DEF Asks, Reads
<1>3. \/ Asks(r, "groups_get") \/ Asks(r, "users_get") \/ Asks(r, "identities_get")
      \/ Asks(r, "archives_get") \/ Asks(r, "pipelines_get") \/ Asks(r, "tasks_get")
      \/ Asks(r, "pipeline_archives_get") \/ Asks(r, "runs_get") \/ Asks(r, "executions_get")
  BY <1>1 DEF Asks, Reads
<1>4. ReadReply(r) \in Answers \ {"none"}
  BY <1>3, ReadCodes, Zenon DEF ReadReply
<1> QED
  BY <1>1, <1>2, <1>4, PlainAnswer DEF ReadStep

LEMMA PatchUserStep ==
  ASSUME ApiInv, NEW r \in Request, PatchUser(r), batch' = batch, EngineUnchanged
  PROVE  Step(r)
<1> DEFINE code == FirstOf(AdminRefusal(r), FirstOf(BodyRefusal(r), "crashed"))
<1>1. pc[r] = "users_patch" /\ Ask(r).op = "users_patch"
  BY Operating DEF PatchUser, At, Operation
<1>2. code \in Answers \ {"none"}
  BY Refusals DEF Answers
<1>3. Answer(r, code) /\ UNCHANGED <<rows, secrets, rollbacks>>
  BY DEF PatchUser
<1> HIDE DEF code
<1> QED
  BY <1>1, <1>2, <1>3, PlainAnswer DEF Asks

LEMMA PutTaskStep ==
  ASSUME ApiInv, NEW r \in Request, PutTask(r), batch' = batch, EngineUnchanged
  PROVE  Step(r)
<1> DEFINE code == FirstOf(TaskRefusal(r), FirstOf(BodyRefusal(r), "crashed"))
<1>1. pc[r] = "task_put" /\ Ask(r).op = "task_put"
  BY Operating DEF PutTask, At, Operation
<1>2. code \in Answers \ {"none"}
  BY Refusals DEF TaskRefusal, Answers
<1>3. Answer(r, code) /\ UNCHANGED <<rows, secrets, rollbacks>>
  BY DEF PutTask
<1> HIDE DEF code
<1> QED
  BY <1>1, <1>2, <1>3, PlainAnswer DEF Asks

LEMMA CreatedStep ==
  ASSUME ApiInv, NEW r \in Request, Created(r), batch' = batch, EngineUnchanged
  PROVE  Step(r)
<1>1. pc[r] = "created" /\ "ok" \in Answers \ {"none"}
  BY DEF Created, At, Answers
<1> QED
  BY <1>1, PlainAnswer DEF Created

LEMMA AuthenticateStep ==
  ASSUME ApiInv, NEW r \in Request, Authenticate(r), batch' = batch, UNCHANGED rollbacks,
         EngineUnchanged
  PROVE  Step(r)
<1>1. pc[r] = "sent" /\ UNCHANGED <<rows, secrets>>
  BY DEF Authenticate
<1>2. \A row \in rows : ~Own(r, row)
  BY <1>1, NothingOwn
<1>3. CASE Answer(r, "bad_request") \/ Answer(r, "unauthorized")
  <2>1. "bad_request" \in Answers \ {"none"} /\ "unauthorized" \in Answers \ {"none"}
    BY DEF Answers
  <2> QED
    BY <1>1, <1>2, <1>3, <2>1, PlainAnswer
<1>4. CASE Goto(r, Ask(r).op) /\ UNCHANGED loc
  <2>1. Frame(r) /\ pc'[r] = Ask(r).op /\ reply' = reply /\ loc' = loc
    BY <1>4 DEF Goto, Frame, ApiInv, Control
  <2>2. Ask(r).op \in Operation /\ reply[r] = "none" /\ IsLocals(loc[r])
    BY <1>1, OpOf
  <2>3. Ask(r).op \notin CreatesTask \cup {"done", "link_archives"}
    BY <2>2 DEF Operation, Reads, CreatesTask
  <2>4. Placed(r)'
    BY <2>1, <2>2, <2>3 DEF Placed, Ask, Answers
  <2>5. Points(r)' /\ Aims(r)
    BY <2>1, <2>2 DEF Points, PointsAt, Aims, Aimed, Operation, Reads, Creating, CreatesTask
  <2>6. WithdrawalOf(r)'
    BY <1>1, <1>2, NotWithdrawn
  <2>7. Advances(r)
    BY <1>1 DEF Advances, Ahead
  <2>8. pc'[r] \notin {"create_admin", "identity_credentials", "save_credentials"}
    BY <2>1, <2>2 DEF Operation, Reads
  <2> QED
    BY <1>1, <2>1, <2>4, <2>5, <2>6, <2>7, <2>8, Unmoved DEF Step, EngineUnchanged
<1> QED
  BY <1>3, <1>4 DEF Authenticate

-----------------------------------------------------------------------------
(***************************************************************************)
(* Steps that delete rows                                                  *)
(***************************************************************************)
LEMMA DeleteAnswer ==
  ASSUME ApiInv, NEW r \in Request, NEW code \in Answers \ {"none"}, Answer(r, code),
         NEW uuids, Delete(uuids),
         \A u \in uuids : /\ u[2] # "Group"
                          /\ u[2] = "GroupUser" => pc[r] = "delete_user" /\ u = loc[r].target,
         UNCHANGED <<secrets, rollbacks>>, batch' = batch, EngineUnchanged,
         pc[r] \notin {"done", "create_admin"},
         ~Asks(r, "pipelines_post") \/ uuids = {loc[r].pipeline}
  PROVE  Step(r)
<1>1. pc'[r] = "done"
  BY AnswerMoves DEF EngineUnchanged
<1>2. /\ Effect(r) /\ SecretSteps(r) /\ RunsKept /\ rows' \subseteq rows
      /\ \A row \in rows' : row.uuid \notin uuids /\ row.above \cap uuids = {}
  BY <1>1, RowsDeleted
<1>3. ASSUME Asks(r, "pipelines_post"), NEW row \in rows' PROVE ~Own(r, row)
  <2>1. row \in rows /\ loc[r].pipeline \notin row.above \cup {row.uuid}
    BY <1>2, <1>3
  <2> QED
    BY <1>3, <2>1 DEF ApiInv, WithdrawalOf
<1>4. WithdrawalOf(r)'
  BY <1>2, <1>3, WithdrawalAnswered
<1> QED
  BY <1>2, <1>4, AnswerStep DEF EngineUnchanged

LEMMA WithdrawStep ==
  ASSUME ApiInv, NEW r \in Request, NEW code \in Answers \ {"none"}, Withdraw(r, code),
         UNCHANGED <<secrets, rollbacks>>, batch' = batch, EngineUnchanged,
         pc[r] \in Creating \cup {"link_archives", "delete_tasks"}
  PROVE  Step(r)
<1>1. loc[r].pipeline[2] = "Pipeline"
  BY DEF ApiInv, Points, PointsAt
<1>2. pc[r] \notin {"done", "create_admin"}
  BY DEF Creating, CreatesTask
<1>3. Delete({loc[r].pipeline}) /\ Answer(r, code)
  BY DEF Withdraw
<1>4. \A u \in {loc[r].pipeline} : u[2] # "Group" /\ u[2] # "GroupUser"
  BY <1>1
<1> QED
  BY <1>2, <1>3, <1>4, DeleteAnswer

LEMMA RemoveUserStep ==
  ASSUME ApiInv, NEW r \in Request, RemoveUser(r), batch' = batch, EngineUnchanged
  PROVE  Step(r)
<1>1. pc[r] = "delete_user" /\ loc[r].target[2] = "GroupUser"
  BY DEF RemoveUser, At, ApiInv, Points, PointsAt
<1>2. ~Asks(r, "pipelines_post") /\ "ok" \in Answers \ {"none"}
  BY <1>1, OpOf DEF Asks, Flows, Creating, CreatesTask, Answers, Operation, Reads
<1>3. \A u \in {loc[r].target} : u[2] # "Group" /\ u = loc[r].target
  BY <1>1
<1> QED
  BY <1>1, <1>2, <1>3, DeleteAnswer DEF RemoveUser

LEMMA RemoveArchiveStep ==
  ASSUME ApiInv, NEW r \in Request, RemoveArchive(r), batch' = batch, EngineUnchanged
  PROVE  Step(r)
<1>1. pc[r] = "delete_archive" /\ loc[r].target[2] = "Archive"
  BY DEF RemoveArchive, At, ApiInv, Points, PointsAt
<1>2. ~Asks(r, "pipelines_post") /\ "ok" \in Answers \ {"none"}
  BY <1>1, OpOf DEF Asks, Flows, Creating, CreatesTask, Answers, Operation, Reads
<1>3. \A u \in {loc[r].target} : u[2] # "Group" /\ u[2] # "GroupUser"
  BY <1>1
<1> QED
  BY <1>1, <1>2, <1>3, DeleteAnswer DEF RemoveArchive

LEMMA RemoveTaskStep ==
  ASSUME ApiInv, NEW r \in Request, RemoveTask(r), batch' = batch, EngineUnchanged
  PROVE  Step(r)
<1>1. pc[r] = "delete_task" /\ loc[r].target[2] = "Task"
  BY DEF RemoveTask, At, ApiInv, Points, PointsAt
<1>2. ~Asks(r, "pipelines_post") /\ "ok" \in Answers \ {"none"} /\ "server_error" \in Answers \ {"none"}
  BY <1>1, OpOf DEF Asks, Flows, Creating, CreatesTask, Answers, Operation, Reads
<1>3. \A u \in {loc[r].target} : u[2] # "Group" /\ u[2] # "GroupUser"
  BY <1>1
<1>4. CASE Ask(r).fault = "delete"
  BY <1>1, <1>2, <1>4, PlainAnswer DEF RemoveTask
<1>5. CASE Ask(r).fault # "delete"
  BY <1>1, <1>2, <1>3, <1>5, DeleteAnswer DEF RemoveTask
<1> QED
  BY <1>4, <1>5

LEMMA RemoveLinkStep ==
  ASSUME ApiInv, NEW r \in Request, RemoveLink(r), batch' = batch, EngineUnchanged
  PROVE  Step(r)
<1> DEFINE links == {x.uuid : x \in Under("PipelineArchive", loc[r].pipeline)
                                       \cap Under("PipelineArchive", loc[r].target)}
<1>1. pc[r] = "remove_link"
  BY DEF RemoveLink, At
<1>2. ~Asks(r, "pipelines_post") /\ "ok" \in Answers \ {"none"}
  BY <1>1, OpOf DEF Asks, Flows, Creating, CreatesTask, Answers, Operation, Reads
<1>3. \A u \in links : u[2] # "Group" /\ u[2] # "GroupUser"
  BY Found DEF Under
<1>4. Delete(links) /\ Answer(r, "ok") /\ UNCHANGED <<secrets, rollbacks>>
  BY DEF RemoveLink
<1> HIDE DEF links
<1> QED
  BY <1>1, <1>2, <1>3, <1>4, DeleteAnswer

LEMMA DropRowStep ==
  ASSUME ApiInv, NEW r \in Request, DropRow(r), batch' = batch, EngineUnchanged
  PROVE  Step(r)
<1>1. pc[r] = "drop_row" /\ loc[r].target[2] = "Credentials"
  BY DEF DropRow, At, ApiInv, Points, PointsAt
<1>2. /\ ~Asks(r, "pipelines_post")
      /\ {"ok", "bad_request", "crashed"} \subseteq Answers \ {"none"}
  BY <1>1, OpOf DEF Asks, Flows, Creating, CreatesTask, Answers, Operation, Reads
<1>3. \A u \in {loc[r].target} : u[2] # "Group" /\ u[2] # "GroupUser"
  BY <1>1
<1>4. CASE Ask(r).fault = "undo_row"
  BY <1>1, <1>2, <1>4, PlainAnswer DEF DropRow
<1>5. CASE Ask(r).fault # "undo_row"
  <2>1. PICK code \in {"ok", "bad_request"} : Answer(r, code)
    BY <1>5 DEF DropRow
  <2> QED
    BY <1>1, <1>2, <1>3, <1>5, <2>1, DeleteAnswer DEF DropRow
<1> QED
  BY <1>4, <1>5

LEMMA DeleteTasksStep ==
  ASSUME ApiInv, NEW r \in Request, DeleteTasks(r), batch' = batch, EngineUnchanged
  PROVE  Step(r)
<1>1. /\ pc[r] = "delete_tasks" /\ UNCHANGED <<secrets, rollbacks>>
      /\ \A task \in loc[r].rest : task[2] = "Task"
      /\ loc[r].pipeline[2] = "Pipeline" /\ IsLocals(loc[r])
  BY OpOf DEF DeleteTasks, At, ApiInv, Points, PointsAt, Creating
<1>2. /\ Ask(r).op = "pipeline_delete" /\ ~Asks(r, "pipelines_post")
      /\ {"ok", "server_error"} \subseteq Answers \ {"none"}
  BY <1>1, OpOf DEF Asks, Flows, Creating, CreatesTask, Answers, Operation, Reads
<1>3. CASE Withdraw(r, "ok")
  BY <1>1, <1>2, <1>3, WithdrawStep
<1>4. CASE Answer(r, "server_error") /\ UNCHANGED rows
  BY <1>1, <1>2, <1>4, PlainAnswer
<1>5. ASSUME NEW task \in loc[r].rest, Delete({task}), Keep(r, "rest", loc[r].rest \ {task}),
             UNCHANGED <<pc, reply>>
      PROVE  Step(r)
  <2> DEFINE locals == [loc[r] EXCEPT !.rest = loc[r].rest \ {task}]
  <2>1. Moves(r, "delete_tasks", locals)
    BY <1>1, <1>5 DEF Keep, Moves, Frame, ApiInv, Control
  <2>2. IsLocals(locals) /\ locals.rest = loc[r].rest \ {task} /\ locals.pipeline = loc[r].pipeline
    BY <1>1 DEF IsLocals
  <2> HIDE DEF locals
  <2>3. <<Ask(r).op, "delete_tasks">> \in Flows
    BY <1>2 DEF Flows
  <2>4. Frame(r) /\ Placed(r)' /\ pc'[r] = "delete_tasks" /\ loc'[r] = locals
    BY <1>1, <2>1, <2>2, <2>3, GoMoves DEF CreatesTask, Moves
  <2>5. Effect(r) /\ SecretSteps(r) /\ RunsKept
    <3>1. \A u \in {task} : u[2] # "Group" /\ u[2] # "GroupUser"
      BY <1>1
    <3> QED
      BY <1>1, <1>5, <2>4, <3>1, RowsDeleted
  <2>6. Points(r)'
    BY <1>1, <2>2, <2>4 DEF Points, PointsAt, Creating, CreatesTask, Asks, Ask
  <2>7. Advances(r) /\ Aims(r)
    BY <1>1, <2>4 DEF Advances, Ahead, CreatesTask, Operation, Reads, Aims, Aimed, EngineUnchanged
  <2>8. Registers(r) /\ GroupSteps(r) /\ EngineKept(r)
    BY <1>1, <2>4 DEF Registers, GroupSteps, EngineKept, EngineUnchanged, ApiInv, Reporting
  <2>9. WithdrawalOf(r)'
    BY <1>2, NotWithdrawn
  <2> QED
    BY <2>4, <2>5, <2>6, <2>7, <2>8, <2>9 DEF Step
<1> QED
  BY <1>3, <1>4, <1>5 DEF DeleteTasks

-----------------------------------------------------------------------------
(***************************************************************************)
(* Steps that insert rows for accounts and archives                        *)
(***************************************************************************)
LEMMA GoStep ==
  ASSUME ApiInv, NEW r \in Request, pc[r] \notin {"done", "create_group", "create_admin", "create_users"},
         NEW label, NEW locals, Moves(r, label, locals), <<Ask(r).op, label>> \in Flows,
         IsLocals(locals), label = "link_archives" => IsFiniteSet(locals.rest),
         label \in CreatesTask => locals.todo # <<>>,
         label \notin {"create_admin", "delete_user"},
         label = "create_identity" => locals.target \in Uuids',
         label = "drop_secret" => Aimed(r) /\ locals.target = loc[r].target,
         EngineUnchanged, Effect(r), SecretSteps(r), RunsKept, Registers(r), Advances(r),
         Points(r)',
         Asks(r, "pipelines_post") =>
            \A row \in rows' : Own(r, row) => locals.pipeline \in row.above \cup {row.uuid}
  PROVE  Step(r)
<1>1. Placed(r)' /\ pc'[r] = label /\ loc'[r] = locals /\ label # "done"
  BY GoMoves DEF Moves, Flows, Creating, CreatesTask
<1>2. Aims(r) /\ GroupSteps(r) /\ EngineKept(r)
  BY <1>1 DEF Aims, Aimed, GroupSteps, EngineKept, EngineUnchanged, ApiInv, Reporting
<1>3. WithdrawalOf(r)'
  BY <1>1 DEF WithdrawalOf, Own, Moves, Frame, Asks, Ask
<1> QED
  BY <1>1, <1>2, <1>3 DEF Step, Moves

LEMMA DropSecretStep ==
  ASSUME ApiInv, NEW r \in Request, DropSecret(r), batch' = batch, EngineUnchanged
  PROVE  Step(r)
<1>1. pc[r] = "drop_secret" /\ loc[r].target[2] = "Credentials" /\ UNCHANGED <<rows, rollbacks>>
  BY DEF DropSecret, At, ApiInv, Points, PointsAt
<1>2. /\ Ask(r).op \in {"identities_post", "identity_delete"} /\ "crashed" \in Answers \ {"none"}
      /\ ~Asks(r, "pipelines_post")
  BY <1>1, OpOf DEF Asks, Flows, Creating, CreatesTask, Answers, Operation, Reads
<1>3. CASE Ask(r).fault = "undo"
  BY <1>1, <1>2, <1>3, PlainAnswer DEF DropSecret
<1>4. CASE Ask(r).fault # "undo"
  <2>1. secrets' = secrets \ {loc[r].target} /\ Goto(r, "drop_row") /\ loc' = loc
    BY <1>4 DEF DropSecret
  <2>2. Moves(r, "drop_row", loc[r])
    BY <2>1 DEF Goto, Moves, Frame, ApiInv, Control
  <2>3. pc'[r] = "drop_row" /\ loc'[r] = loc[r] /\ <<Ask(r).op, "drop_row">> \in Flows
    BY <1>2, <2>2 DEF Moves, Flows
  <2>4. Effect(r) /\ RunsKept /\ Registers(r)
    BY <1>1 DEF Effect, RunsKept, Registers
  <2>5. SecretSteps(r)
    <3>1. loc[r].target \in Held
      BY <1>1 DEF Held, Aimed
    <3>2. CutShort(r, loc[r].target)'
      BY <2>3 DEF CutShort, At
    <3> QED
      BY <1>1, <2>1, <2>3, <3>1, <3>2 DEF SecretSteps, Uuids
  <2>6. Points(r)'
    BY <1>1, <2>3 DEF Points, PointsAt, Creating, CreatesTask
  <2>7. Advances(r)
    BY <1>1, <2>3 DEF Ahead, Advances, Operation, Reads, CreatesTask, EngineUnchanged
  <2> QED
    BY <1>1, <1>2, <2>2, <2>3, <2>4, <2>5, <2>6, <2>7, OpOf, GoStep DEF CreatesTask
<1> QED
  BY <1>3, <1>4

LEMMA InsertAnswer ==
  ASSUME ApiInv, NEW r \in Request, Answer(r, "ok"), UNCHANGED <<secrets, rollbacks>>,
         batch' = batch, EngineUnchanged, pc[r] \notin {"done", "create_admin"},
         ~Asks(r, "pipelines_post"),
         NEW table \in {"GroupUser", "Identity", "Archive", "PipelineArchive"}, NEW n, NEW id,
         NEW owner, NEW value, NEW keys, NEW row,
         row = NewRow(table, New(r, table, n), id, owner, value, keys),
         Insert(row), Insertable(row), Ahead(r, table, n),
         \A k \in keys : <<table, k[2]>> \in Hangs,
         table = "Identity" => keys # {},
         table = "GroupUser" => \E g \in Rows("Group") : keys = {g.uuid},
         \A k \in keys : k[1] \in Request =>
            \/ k[2] \notin {"Context", "Destination", "Credentials"}
            \/ k[2] = "Credentials" /\ k[3] = 0 /\ table = "Identity" /\ k[1] = r /\ n = 1
  PROVE  Step(r)
<1>1. pc'[r] = "done" /\ "ok" \in Answers \ {"none"}
  BY AnswerMoves DEF EngineUnchanged, Answers
<1>2. ~Ahead(r, table, n)'
  BY <1>1 DEF Ahead, Operation, Reads, CreatesTask
<1>3. table \in Table
  BY DEF Table
<1>4. Effect(r) /\ SecretSteps(r) /\ RunsKept
  BY <1>1, <1>2, <1>3, RowInserted
<1>5. WithdrawalOf(r)'
  BY NotWithdrawn
<1> QED
  BY <1>1, <1>4, <1>5, AnswerStep DEF EngineUnchanged

LEMMA CreateGroupStep ==
  ASSUME ApiInv, NEW r \in Request, CreateGroup(r), batch' = batch, EngineUnchanged
  PROVE  Step(r)
<1> DEFINE row == NewRow("Group", New(r, "Group", 1), Ask(r).group, Ask(r).user, "none", {})
           locals == [loc[r] EXCEPT !.target = New(r, "Group", 1)]
<1>1. pc[r] = "create_group" /\ UNCHANGED <<secrets, rollbacks>>
  BY DEF CreateGroup, At
<1>2. /\ Ask(r).op = "groups_post" /\ ~Asks(r, "pipelines_post") /\ IsLocals(loc[r])
      /\ "server_error" \in Answers \ {"none"}
  BY <1>1, OpOf DEF Asks, Flows, Creating, CreatesTask, Answers, Operation, Reads
<1>3. CASE Answer(r, "server_error") /\ UNCHANGED rows
  BY <1>1, <1>2, <1>3, PlainAnswer
<1>4. CASE Insertable(row) /\ Insert(row) /\ Goto(r, "create_admin") /\ Keep(r, "target", row.uuid)
  <2>1. row.uuid = New(r, "Group", 1) /\ "Group" \in Table
    BY DEF NewRow, Table
  <2>2. Moves(r, "create_admin", locals)
    BY <1>4, <2>1 DEF Moves, Frame, Goto, Keep, ApiInv, Control
  <2>3. IsLocals(locals) /\ locals.target = New(r, "Group", 1)
    BY <1>2 DEF IsLocals
  <2>4. \A x : row = x => Insertable(x) /\ Insert(x)
    BY <1>4
  <2> HIDE DEF locals
  <2>5. <<Ask(r).op, "create_admin">> \in Flows
    BY <1>2 DEF Flows
  <2>6. Placed(r)' /\ pc'[r] = "create_admin" /\ loc'[r] = locals /\ reply'[r] = "none"
    BY <1>1, <2>2, <2>3, <2>5, GoMoves DEF CreatesTask, Moves
  <2>7. Ahead(r, "Group", 1) /\ ~Ahead(r, "Group", 1)' /\ Advances(r)
    BY <1>1, <2>6 DEF Ahead, Advances, Operation, Reads, CreatesTask, EngineUnchanged
  <2>8. PICK new : new = row
    OBVIOUS
  <2> HIDE DEF row
  <2>9. /\ Effect(r) /\ RunsKept /\ SecretSteps(r) /\ rows' = rows \cup {new}
        /\ new.table = "Group" /\ new.uuid = New(r, "Group", 1) /\ new.owner = Ask(r).user
    BY <1>1, <2>1, <2>4, <2>6, <2>7, <2>8, RowInserted DEF row
  <2>10. Points(r)'
    BY <2>3, <2>6, <2>9 DEF Points, PointsAt, Creating, CreatesTask, Rows, Moves, Frame, Ask
  <2>11. WithdrawalOf(r)'
    BY <1>2, NotWithdrawn
  <2>12. Aims(r) /\ GroupSteps(r) /\ EngineKept(r) /\ Registers(r)
    BY <1>1, <2>6
       DEF Aims, Aimed, GroupSteps, EngineKept, EngineUnchanged, ApiInv, Reporting, Registers
  <2> QED
    BY <2>2, <2>6, <2>7, <2>9, <2>10, <2>11, <2>12 DEF Step, Moves
<1> QED
  BY <1>3, <1>4 DEF CreateGroup

\* A group hangs on nothing, so what hangs on a group hangs on it alone.
LEMMA OnGroup ==
  ASSUME ApiInv, NEW g \in Rows("Group")
  PROVE  /\ g.uuid[2] = "Group" /\ g.uuid \in Uuids /\ g.above = {}
         /\ Above({g.uuid}) = {g.uuid}
<1>1. g.uuid[2] = "Group" /\ g.uuid \in Uuids /\ g \in rows /\ g.table = "Group"
  BY DEF Rows, Uuids, ApiInv, Sound, Identified
<1>2. g.above = {}
  BY <1>1 DEF ApiInv, Hanging, Hangs
<1>3. \A x \in rows : x.uuid = g.uuid => x = g
  BY <1>1 DEF ApiInv, Sound, Identified
<1> QED
  BY <1>1, <1>2, <1>3 DEF Above

LEMMA MemberInserted ==
  ASSUME ApiInv, NEW r \in Request, NEW n, NEW id, NEW value, NEW g \in Rows("Group"), NEW new,
         new = NewRow("GroupUser", New(r, "GroupUser", n), id, "none", value, {g.uuid}),
         Insert(new), Ahead(r, "GroupUser", n), ~Ahead(r, "GroupUser", n)', UNCHANGED secrets,
         pc'[r] \notin {"identity_credentials", "save_credentials"}
  PROVE  /\ Effect(r) /\ RunsKept /\ SecretSteps(r) /\ rows' = rows \cup {new}
         /\ new.table = "GroupUser" /\ new.id = id /\ new.value = value
         /\ new.above = {g.uuid}
<1>1. /\ "GroupUser" \in Unchecked /\ "GroupUser" \in Table /\ <<"GroupUser", "Group">> \in Hangs
      /\ Above({g.uuid}) = {g.uuid} /\ g.uuid[2] = "Group" /\ g.uuid \in Uuids
  BY OnGroup DEF Unchecked, Table, Hangs
<1>2. PICK keys : keys = {g.uuid}
  OBVIOUS
<1>3. /\ new = NewRow("GroupUser", New(r, "GroupUser", n), id, "none", value, keys)
      /\ Above(keys) \subseteq Uuids /\ \A k \in keys : <<"GroupUser", k[2]>> \in Hangs
      /\ \E h \in Rows("Group") : keys = {h.uuid}
      /\ \A k \in keys : k[2] = "Group"
  BY <1>1, <1>2
<1>4. /\ Effect(r) /\ RunsKept /\ SecretSteps(r) /\ rows' = rows \cup {new}
      /\ new.table = "GroupUser" /\ new.id = id /\ new.value = value
      /\ new.above = Above(keys)
  BY <1>1, <1>3, RowInserted
<1> QED
  BY <1>1, <1>2, <1>4

LEMMA CreateAdminStep ==
  ASSUME ApiInv, NEW r \in Request, CreateAdmin(r), batch' = batch, EngineUnchanged
  PROVE  Step(r)
<1>1. pc[r] = "create_admin" /\ UNCHANGED <<secrets, rollbacks>>
  BY DEF CreateAdmin, At
<1>2. /\ Ask(r).op = "groups_post" /\ ~Asks(r, "pipelines_post") /\ IsLocals(loc[r])
      /\ "server_error" \in Answers \ {"none"}
  BY <1>1, OpOf DEF Asks, Flows, Creating, CreatesTask, Answers, Operation, Reads
<1>3. CASE Answer(r, "server_error") /\ UNCHANGED rows
  BY <1>1, <1>2, <1>3, PlainAnswer
<1>4. CASE /\ Insert(Membership(r, 0, Ask(r).user, "admin"))
           /\ Goto(r, "create_users") /\ UNCHANGED loc
  <2> DEFINE name == Ask(r).user
             keys == {loc[r].target}
  <2>1. Moves(r, "create_users", loc[r])
    BY <1>4 DEF Moves, Frame, Goto, ApiInv, Control
  <2>2. <<Ask(r).op, "create_users">> \in Flows
    BY <1>2 DEF Flows
  <2>3. Placed(r)' /\ pc'[r] = "create_users" /\ loc'[r] = loc[r] /\ reply'[r] = "none"
    BY <1>1, <1>2, <2>1, <2>2, GoMoves DEF CreatesTask, Moves
  <2>4. Ahead(r, "GroupUser", 0) /\ ~Ahead(r, "GroupUser", 0)' /\ Advances(r)
    BY <1>1, <2>3 DEF Ahead, Advances, Operation, Reads, CreatesTask, EngineUnchanged
  <2>5. PICK g \in Rows("Group") : g.uuid = loc[r].target /\ g.owner = Ask(r).user
    BY <1>1 DEF ApiInv, Points, PointsAt
  <2>6. loc[r].target = New(r, "Group", 1)
    BY <1>1 DEF ApiInv, Points, PointsAt
  <2>7. PICK new : new = NewRow("GroupUser", New(r, "GroupUser", 0), name, "none", "admin", keys)
    OBVIOUS
  <2>8. Insert(new)
    BY <1>4, <2>7 DEF Membership
  <2>9. keys = {g.uuid}
    BY <2>5
  <2> HIDE DEF name, keys
  <2>10. /\ Effect(r) /\ RunsKept /\ SecretSteps(r) /\ rows' = rows \cup {new}
         /\ new.table = "GroupUser" /\ new.id = name /\ new.value = "admin"
         /\ new.above = {g.uuid}
    BY <1>1, <2>3, <2>4, <2>7, <2>8, <2>9, MemberInserted
  <2>11. Points(r)'
    BY <2>3, <2>5, <2>6, <2>10 DEF Points, PointsAt, Creating, CreatesTask, Rows, Moves, Frame, Ask
  <2>12. WithdrawalOf(r)'
    BY <1>2, NotWithdrawn
  <2>13. GroupSteps(r)
    BY <1>1, <2>3, <2>5, <2>9, <2>10 DEF GroupSteps, name
  <2>14. Aims(r) /\ EngineKept(r) /\ Registers(r)
    BY <1>1, <2>3 DEF Aims, Aimed, EngineKept, EngineUnchanged, ApiInv, Reporting, Registers
  <2> QED
    BY <2>1, <2>3, <2>4, <2>10, <2>11, <2>12, <2>13, <2>14 DEF Step, Moves
<1> QED
  BY <1>3, <1>4 DEF CreateAdmin

LEMMA CreateUsersStep ==
  ASSUME ApiInv, NEW r \in Request, CreateUsers(r), batch' = batch, EngineUnchanged
  PROVE  Step(r)
<1> DEFINE todo == loc[r].todo
           keys == {loc[r].target}
           locals == [loc[r] EXCEPT !.todo = Tail(todo)]
<1>1. pc[r] = "create_users" /\ UNCHANGED <<secrets, rollbacks>>
  BY DEF CreateUsers, At
<1>2. /\ Ask(r).op = "groups_post" /\ ~Asks(r, "pipelines_post") /\ IsLocals(loc[r])
      /\ "server_error" \in Answers \ {"none"}
      /\ "bad_request" \in Answers \ {"none"} /\ "ok" \in Answers \ {"none"}
  BY <1>1, OpOf DEF Asks, Flows, Creating, CreatesTask, Answers, Operation, Reads
<1>3. CASE (Answer(r, "ok") \/ Answer(r, "bad_request")) /\ UNCHANGED rows
  BY <1>1, <1>2, <1>3, PlainAnswer
<1>4. CASE /\ todo # <<>> /\ Keep(r, "todo", Tail(todo)) /\ UNCHANGED <<pc, reply>>
           /\ \/ UNCHANGED rows
              \/ Insert(Membership(r, Len(todo), Head(todo).id, Head(todo).value))
  <2>1. Moves(r, "create_users", locals)
    BY <1>1, <1>4 DEF Moves, Frame, Keep, ApiInv, Control
  <2>2. todo \in Seq(UserAsked \cup TaskAsked \cup EtlAsked)
    BY <1>2 DEF IsLocals
  <2>3. Tail(todo) \in Seq(UserAsked \cup TaskAsked \cup EtlAsked) /\ Len(todo) \in Nat \ {0}
        /\ Len(Tail(todo)) = Len(todo) - 1
    BY <1>4, <2>2
  <2>4. IsLocals(locals) /\ locals.todo = Tail(todo) /\ locals.target = loc[r].target
    BY <1>2, <2>3 DEF IsLocals
  <2> HIDE DEF locals
  <2>5. <<Ask(r).op, "create_users">> \in Flows
    BY <1>2 DEF Flows
  <2>6. Placed(r)' /\ pc'[r] = "create_users" /\ loc'[r] = locals /\ reply'[r] = "none"
    BY <1>1, <2>1, <2>4, <2>5, GoMoves DEF CreatesTask, Moves
  <2> PICK n : n = Len(todo)
    OBVIOUS
  <2>7. Ahead(r, "GroupUser", n) /\ ~Ahead(r, "GroupUser", n)' /\ Advances(r)
    <3>1. n \in Nat \ {0} /\ Len(loc[r].todo) = n /\ Len(loc'[r].todo) = n - 1
      BY <2>3, <2>4, <2>6
    <3> QED
      BY <1>1, <2>6, <3>1 DEF Ahead, Advances, Operation, Reads, CreatesTask, EngineUnchanged
  <2>8. PICK g \in Rows("Group") : g.uuid = loc[r].target /\ g.owner = Ask(r).user
    BY <1>1 DEF ApiInv, Points, PointsAt
  <2>9. loc[r].target = New(r, "Group", 1)
    BY <1>1 DEF ApiInv, Points, PointsAt
  <2>10. Effect(r) /\ RunsKept /\ SecretSteps(r) /\ rows \subseteq rows'
    <3>1. CASE UNCHANGED rows
      BY <1>1, <2>6, <3>1, RowsUnchanged
    <3>2. CASE Insert(Membership(r, Len(todo), Head(todo).id, Head(todo).value))
      <4> DEFINE id == Head(todo).id
                 value == Head(todo).value
      <4>1. PICK new : new = NewRow("GroupUser", New(r, "GroupUser", n), id, "none", value, keys)
        OBVIOUS
      <4>2. Insert(new)
        BY <3>2, <4>1 DEF Membership
      <4>3. keys = {g.uuid}
        BY <2>8
      <4> HIDE DEF id, value, keys, todo
      <4>5. Effect(r) /\ RunsKept /\ SecretSteps(r) /\ rows' = rows \cup {new}
        BY <1>1, <2>6, <2>7, <4>1, <4>2, <4>3, MemberInserted
      <4> QED
        BY <4>5
    <3> QED
      BY <1>4, <3>1, <3>2
  <2>11. Points(r)'
    BY <2>4, <2>6, <2>8, <2>9, <2>10, <2>1
       DEF Points, PointsAt, Creating, CreatesTask, Rows, Moves, Frame, Ask
  <2>12. WithdrawalOf(r)'
    BY <1>2, NotWithdrawn
  <2>13. Aims(r) /\ GroupSteps(r) /\ EngineKept(r) /\ Registers(r)
    BY <1>1, <2>6
       DEF Aims, Aimed, GroupSteps, EngineKept, EngineUnchanged, ApiInv, Reporting, Registers
  <2> QED
    BY <2>1, <2>6, <2>7, <2>10, <2>11, <2>12, <2>13 DEF Step, Moves
<1> QED
  BY <1>3, <1>4 DEF CreateUsers

LEMMA CreateUserStep ==
  ASSUME ApiInv, NEW r \in Request, CreateUser(r), batch' = batch, EngineUnchanged
  PROVE  Step(r)
<1> DEFINE keys == {loc[r].target}
           id == Ask(r).id
           value == Ask(r).value
<1>1. pc[r] = "create_user" /\ UNCHANGED <<secrets, rollbacks>>
  BY DEF CreateUser, At
<1>2. ~Asks(r, "pipelines_post") /\ "server_error" \in Answers \ {"none"}
  BY <1>1, OpOf DEF Asks, Flows, Creating, CreatesTask, Answers, Operation, Reads
<1>3. CASE Answer(r, "server_error") /\ UNCHANGED rows
  BY <1>1, <1>2, <1>3, PlainAnswer
<1>4. PICK row : row = NewRow("GroupUser", New(r, "GroupUser", 0), id, "none", value, keys)
  OBVIOUS
<1>5. CASE Insertable(row) /\ Insert(row) /\ Answer(r, "ok")
  <2>1. PICK g \in Rows("Group") : keys = {g.uuid}
    BY <1>1 DEF ApiInv, Points, PointsAt, GroupAt
  <2>2. \A k \in keys : k[2] = "Group" /\ <<"GroupUser", k[2]>> \in Hangs
    BY <2>1, OnGroup DEF Hangs
  <2>3. Ahead(r, "GroupUser", 0)
    BY <1>1 DEF Ahead
  <2> HIDE DEF keys, id, value
  <2> QED
    BY <1>1, <1>2, <1>4, <1>5, <2>1, <2>2, <2>3, InsertAnswer
<1> QED
  BY <1>3, <1>4, <1>5 DEF CreateUser, Membership

LEMMA IdentitySecretStep ==
  ASSUME ApiInv, NEW r \in Request, IdentitySecret(r), batch' = batch, EngineUnchanged
  PROVE  Step(r)
<1>1. pc[r] = "identity_secret" /\ UNCHANGED <<rows, rollbacks>>
  BY DEF IdentitySecret, At
<1>2. /\ Ask(r).op = "identities_post" /\ ~Asks(r, "pipelines_post") /\ IsLocals(loc[r])
      /\ "bad_request" \in Answers \ {"none"}
  BY <1>1, OpOf DEF Asks, Flows, Creating, CreatesTask, Answers, Operation, Reads
<1>3. CASE Answer(r, "bad_request") /\ UNCHANGED secrets
  BY <1>1, <1>2, <1>3, PlainAnswer
<1>4. CASE /\ secrets' = secrets \cup {New(r, "Credentials", 0)}
           /\ Goto(r, "identity_credentials") /\ UNCHANGED loc
  <2>1. Moves(r, "identity_credentials", loc[r])
    BY <1>4 DEF Moves, Frame, Goto, ApiInv, Control
  <2>2. <<Ask(r).op, "identity_credentials">> \in Flows
    BY <1>2 DEF Flows
  <2>3. pc'[r] = "identity_credentials" /\ loc'[r] = loc[r]
    BY <2>1 DEF Moves
  <2>4. Points(r)'
    BY <2>3 DEF Points, PointsAt, Creating, CreatesTask
  <2>5. Advances(r)
    BY <1>1, <2>3 DEF Ahead, Advances, Operation, Reads, CreatesTask, EngineUnchanged
  <2>6. Effect(r) /\ RunsKept /\ Registers(r)
    BY <1>1 DEF Effect, RunsKept, Registers
  <2>7. SecretSteps(r)
    BY <1>1, <1>4, <2>3 DEF SecretSteps, Uuids
  <2> QED
    BY <1>1, <1>2, <2>1, <2>2, <2>4, <2>5, <2>6, <2>7, GoStep DEF CreatesTask
<1> QED
  BY <1>3, <1>4 DEF IdentitySecret

LEMMA IdentityCredentialsStep ==
  ASSUME ApiInv, NEW r \in Request, IdentityCredentials(r), batch' = batch, EngineUnchanged
  PROVE  Step(r)
<1> DEFINE row == NewRow("Credentials", New(r, "Credentials", 0), "none", Ask(r).user, "none", {})
           locals == [loc[r] EXCEPT !.target = New(r, "Credentials", 0)]
<1>1. pc[r] = "identity_credentials" /\ UNCHANGED <<secrets, rollbacks>>
  BY DEF IdentityCredentials, At
<1>2. /\ Ask(r).op = "identities_post" /\ ~Asks(r, "pipelines_post") /\ IsLocals(loc[r])
      /\ "bad_request" \in Answers \ {"none"}
  BY <1>1, OpOf DEF Asks, Flows, Creating, CreatesTask, Answers, Operation, Reads
<1>3. CASE Answer(r, "bad_request") /\ UNCHANGED rows
  BY <1>1, <1>2, <1>3, PlainAnswer
<1>4. CASE Insert(row) /\ Goto(r, "create_identity") /\ Keep(r, "target", row.uuid)
  <2>1. row.uuid = New(r, "Credentials", 0)
    BY DEF NewRow
  <2>2. Moves(r, "create_identity", locals)
    BY <1>4, <2>1 DEF Moves, Frame, Goto, Keep, ApiInv, Control
  <2>3. IsLocals(locals) /\ locals.target = New(r, "Credentials", 0)
    BY <1>2 DEF IsLocals
  <2>4. PICK new, owner : new = row /\ owner = Ask(r).user
    OBVIOUS
  <2>5. /\ new = NewRow("Credentials", New(r, "Credentials", 0), "none", owner, "none", {})
        /\ Insert(new)
    BY <1>4, <2>4
  <2> HIDE DEF locals, row
  <2>6. <<Ask(r).op, "create_identity">> \in Flows
    BY <1>2 DEF Flows
  <2>7. pc'[r] = "create_identity" /\ loc'[r] = locals
    BY <2>2 DEF Moves
  <2>8. Ahead(r, "Credentials", 0) /\ ~Ahead(r, "Credentials", 0)' /\ Advances(r)
    BY <1>1, <2>7 DEF Ahead, Advances, Operation, Reads, CreatesTask, EngineUnchanged
  <2>9. "Credentials" \in Table /\ "Credentials" \in Unchecked /\ Above({}) \subseteq Uuids
    BY DEF Table, Unchecked, Above
  <2>10. /\ Effect(r) /\ RunsKept /\ rows' = rows \cup {new}
         /\ new.uuid = New(r, "Credentials", 0) /\ new.table = "Credentials"
    BY <2>5, <2>8, <2>9, RowInserted
  <2>11. new.uuid \in secrets /\ new.uuid \in Uuids'
    BY <1>1, <2>10 DEF ApiInv, Secrets, Uuids
  <2>12. SecretSteps(r)
    BY <1>1, <2>7, <2>10, <2>11 DEF SecretSteps, Uuids
  <2>13. Points(r)' /\ Registers(r)
    BY <1>1, <2>3, <2>7 DEF Points, PointsAt, Creating, CreatesTask, Registers
  <2> QED
    BY <1>1, <1>2, <2>2, <2>3, <2>6, <2>8, <2>10, <2>11, <2>12, <2>13, GoStep DEF CreatesTask
<1> QED
  BY <1>3, <1>4 DEF IdentityCredentials

LEMMA CreateIdentityStep ==
  ASSUME ApiInv, NEW r \in Request, CreateIdentity(r), batch' = batch, EngineUnchanged
  PROVE  Step(r)
<1> DEFINE row == NewRow("Identity", New(r, "Identity", 1), Ask(r).id, Ask(r).user, "none",
                         {loc[r].target})
<1>1. pc[r] = "create_identity" /\ loc[r].target = New(r, "Credentials", 0) /\ UNCHANGED rollbacks
  BY DEF CreateIdentity, At, ApiInv, Points, PointsAt
<1>2. /\ ~Asks(r, "pipelines_post") /\ {"bad_request", "crashed"} \subseteq Answers \ {"none"}
  BY <1>1, OpOf DEF Asks, Flows, Creating, CreatesTask, Answers, Operation, Reads
<1>3. CASE Answer(r, "crashed") /\ UNCHANGED <<rows, secrets>>
  BY <1>1, <1>2, <1>3, PlainAnswer
<1>4. CASE Goto(r, "drop_secret") /\ UNCHANGED <<loc, rows, secrets>>
  <2>1. Moves(r, "drop_secret", loc[r])
    BY <1>4 DEF Goto, Moves, Frame, ApiInv, Control
  <2>2. /\ pc'[r] = "drop_secret" /\ loc'[r] = loc[r] /\ Aimed(r)
        /\ <<Ask(r).op, "drop_secret">> \in Flows
    BY <1>1, <2>1, OpOf DEF Moves, Flows, Aimed, Creating, CreatesTask, Operation, Reads
  <2>3. Effect(r) /\ RunsKept /\ Registers(r) /\ SecretSteps(r)
    BY <1>1, <1>4, <2>2, RowsUnchanged DEF Registers
  <2>4. Points(r)'
    BY <1>1, <2>2 DEF Points, PointsAt, Creating, CreatesTask, New
  <2>5. Advances(r)
    BY <1>1, <2>2 DEF Ahead, Advances, Operation, Reads, CreatesTask, EngineUnchanged
  <2> QED
    BY <1>1, <1>2, <2>1, <2>2, <2>3, <2>4, <2>5, OpOf, GoStep DEF CreatesTask
<1>5. CASE Insertable(row) /\ Insert(row) /\ Answer(r, "ok") /\ UNCHANGED secrets
  <2>1. PICK new, id, owner, keys :
           new = row /\ id = Ask(r).id /\ owner = Ask(r).user /\ keys = {loc[r].target}
    OBVIOUS
  <2>2. /\ new = NewRow("Identity", New(r, "Identity", 1), id, owner, "none", keys)
        /\ Insert(new) /\ Insertable(new) /\ keys # {}
    BY <1>5, <2>1
  <2>3. \A k \in keys : k[1] = r /\ k[2] = "Credentials" /\ k[3] = 0
    BY <1>1, <2>1 DEF New
  <2>4. Ahead(r, "Identity", 1) /\ <<"Identity", "Credentials">> \in Hangs
    BY <1>1 DEF Ahead, Hangs
  <2> HIDE DEF row
  <2> QED
    BY <1>1, <1>2, <1>5, <2>2, <2>3, <2>4, InsertAnswer
<1> QED
  BY <1>3, <1>4, <1>5 DEF CreateIdentity

LEMMA CreateArchiveStep ==
  ASSUME ApiInv, NEW r \in Request, CreateArchive(r), batch' = batch, EngineUnchanged
  PROVE  Step(r)
<1> DEFINE row == NewRow("Archive", New(r, "Archive", 1), Ask(r).id, Ask(r).user, "none",
                         {loc[r].target})
<1>1. pc[r] = "create_archive" /\ UNCHANGED <<secrets, rollbacks>>
  BY DEF CreateArchive, At
<1>2. ~Asks(r, "pipelines_post") /\ "bad_request" \in Answers \ {"none"}
  BY <1>1, OpOf DEF Asks, Flows, Creating, CreatesTask, Answers, Operation, Reads
<1>3. CASE Answer(r, "bad_request") /\ UNCHANGED rows
  BY <1>1, <1>2, <1>3, PlainAnswer
<1>4. CASE Insertable(row) /\ Insert(row) /\ Answer(r, "ok")
  <2>1. PICK new, id, owner, keys :
           new = row /\ id = Ask(r).id /\ owner = Ask(r).user /\ keys = {loc[r].target}
    OBVIOUS
  <2>2. /\ new = NewRow("Archive", New(r, "Archive", 1), id, owner, "none", keys)
        /\ Insert(new) /\ Insertable(new)
    BY <1>4, <2>1
  <2>3. \A k \in keys : k[2] = "Group"
    <3>1. GroupAt(loc[r].target)
      BY <1>1 DEF ApiInv, Points, PointsAt
    <3> QED
      BY <2>1, <3>1, OnGroup DEF GroupAt
  <2>4. Ahead(r, "Archive", 1) /\ <<"Archive", "Group">> \in Hangs
    BY <1>1 DEF Ahead, Hangs
  <2> HIDE DEF row
  <2> QED
    BY <1>1, <1>2, <1>4, <2>2, <2>3, <2>4, InsertAnswer
<1> QED
  BY <1>3, <1>4 DEF CreateArchive

LEMMA AddLinkStep ==
  ASSUME ApiInv, NEW r \in Request, AddLink(r), batch' = batch, EngineUnchanged
  PROVE  Step(r)
<1> DEFINE row == NewRow("PipelineArchive", New(r, "PipelineArchive", 0), "none", "none", "none",
                         {loc[r].pipeline, loc[r].target})
<1>1. pc[r] = "add_link" /\ UNCHANGED <<secrets, rollbacks>>
  BY DEF AddLink, At
<1>2. ~Asks(r, "pipelines_post") /\ "bad_request" \in Answers \ {"none"}
  BY <1>1, OpOf DEF Asks, Flows, Creating, CreatesTask, Answers, Operation, Reads
<1>3. CASE Answer(r, "bad_request") /\ UNCHANGED rows
  BY <1>1, <1>2, <1>3, PlainAnswer
<1>4. CASE Insertable(row) /\ Insert(row) /\ Answer(r, "ok")
  <2>1. PICK new, keys : new = row /\ keys = {loc[r].pipeline, loc[r].target}
    OBVIOUS
  <2>2. /\ new = NewRow("PipelineArchive", New(r, "PipelineArchive", 0), "none", "none", "none", keys)
        /\ Insert(new) /\ Insertable(new)
    BY <1>4, <2>1
  <2>3. \A k \in keys : k[2] \in {"Pipeline", "Archive"}
    BY <1>1, <2>1 DEF ApiInv, Points, PointsAt
  <2>4. /\ Ahead(r, "PipelineArchive", 0)
        /\ \A k \in keys : <<"PipelineArchive", k[2]>> \in Hangs
    BY <1>1, <2>3 DEF Ahead, Hangs
  <2> HIDE DEF row
  <2> QED
    BY <1>1, <1>2, <1>4, <2>2, <2>3, <2>4, InsertAnswer
<1> QED
  BY <1>3, <1>4 DEF AddLink

-----------------------------------------------------------------------------
(***************************************************************************)
(* Steps that create tasks                                                 *)
(***************************************************************************)
LEMMA InCreation ==
  ASSUME ApiInv, NEW r \in Request, pc[r] \in Creating
  PROVE  /\ Ask(r).op \in {"pipelines_post", "tasks_post"}
         /\ \A label \in Creating : <<Ask(r).op, label>> \in Flows
         /\ IsLocals(loc[r]) /\ loc[r].pipeline[2] = "Pipeline"
         /\ Asks(r, "pipelines_post") => loc[r].pipeline = New(r, "Pipeline", 1)
         /\ pc[r] \notin {"done", "create_group", "create_admin", "create_users", "link_archives"}
         /\ pc[r] \in CreatesTask =>
               /\ loc[r].todo \in Seq(UserAsked \cup TaskAsked \cup EtlAsked) /\ loc[r].todo # <<>>
               /\ Number(r) \in Nat \ {0}
         /\ \A row \in rows : Asks(r, "pipelines_post") /\ Own(r, row) =>
               loc[r].pipeline \in row.above \cup {row.uuid}
<1>1. /\ Ask(r).op \in {"pipelines_post", "tasks_post"}
      /\ pc[r] \notin {"done", "create_group", "create_admin", "create_users", "link_archives"}
  BY OpOf DEF Flows, Creating, CreatesTask, Operation, Reads
<1>2. \A label \in Creating : <<Ask(r).op, label>> \in Flows
  BY <1>1 DEF Flows
<1>3. /\ IsLocals(loc[r]) /\ loc[r].pipeline[2] = "Pipeline"
      /\ Asks(r, "pipelines_post") => loc[r].pipeline = New(r, "Pipeline", 1)
  BY OpOf DEF ApiInv, Points, PointsAt
<1>4. ASSUME pc[r] \in CreatesTask
      PROVE  /\ loc[r].todo \in Seq(UserAsked \cup TaskAsked \cup EtlAsked) /\ loc[r].todo # <<>>
             /\ Number(r) \in Nat \ {0}
  <2>1. loc[r].todo \in Seq(UserAsked \cup TaskAsked \cup EtlAsked) /\ loc[r].todo # <<>>
    BY <1>4 DEF ApiInv, Control, Placed, IsLocals
  <2> QED
    BY <2>1 DEF Number
<1>5. \A row \in rows : Asks(r, "pipelines_post") /\ Own(r, row) =>
         loc[r].pipeline \in row.above \cup {row.uuid}
  BY DEF ApiInv, WithdrawalOf
<1> QED
  BY <1>1, <1>2, <1>3, <1>4, <1>5

LEMMA PointsInCreation ==
  ASSUME ApiInv, NEW r \in Request, pc[r] \in Creating, batch' = batch, pc'[r] \in Creating,
         loc'[r].pipeline = loc[r].pipeline, pc'[r] # "rollback_row",
         pc'[r] \in CreatesTask =>
            /\ \A u \in loc'[r].authn : \/ u[2] = "Identity"
                                        \/ u[1] = r /\ u[2] = "Credentials" /\ u[3] # 0
            /\ \A u \in loc'[r].context : u[1] = r /\ u[2] = "Context"
            /\ \A u \in loc'[r].destination : u[1] = r /\ u[2] = "Destination"
  PROVE  Points(r)'
<1>1. /\ loc[r].pipeline[2] = "Pipeline"
      /\ Asks(r, "pipelines_post") => loc[r].pipeline = New(r, "Pipeline", 1)
      /\ Asks(r, "pipelines_post")' <=> Asks(r, "pipelines_post")
  BY InCreation DEF Asks, Ask
<1> QED
  BY <1>1 DEF Points, PointsAt, Creating, CreatesTask

\* From here nothing more is made: the rollbacks are next.
LEMMA FailStep ==
  ASSUME ApiInv, NEW r \in Request, pc[r] \in CreatesTask, NEW error, NEW passes,
         Fail(r, error, passes), UNCHANGED secrets, batch' = batch, EngineUnchanged
  PROVE  Step(r)
<1> DEFINE locals == [loc[r] EXCEPT !.error = error, !.undone = 0, !.passes = passes]
<1>0. pc[r] \in Creating
  BY DEF Creating
<1>1. Moves(r, "rollback", locals)
  BY DEF Fail, Moves, Frame, Goto, ApiInv, Control
<1>2. UNCHANGED <<rows, rollbacks>>
  BY DEF Fail
<1>3. IsLocals(locals) /\ locals.pipeline = loc[r].pipeline
  BY <1>0, InCreation DEF IsLocals
<1> HIDE DEF locals
<1>4. pc'[r] = "rollback" /\ loc'[r] = locals /\ "rollback" \in Creating /\ Ask(r)' = Ask(r)
  BY <1>1 DEF Moves, Creating, Ask
<1>5. Points(r)'
  BY <1>0, <1>3, <1>4, InCreation DEF Points, PointsAt, Creating, CreatesTask, Asks
<1>6. Advances(r)
  BY <1>4 DEF Ahead, Advances, Operation, Reads, CreatesTask, EngineUnchanged
<1>7. Effect(r) /\ SecretSteps(r) /\ RunsKept /\ Registers(r)
  BY <1>2, <1>4, RowsUnchanged DEF Registers
<1> QED
  BY <1>0, <1>1, <1>2, <1>3, <1>4, <1>5, <1>6, <1>7, InCreation, GoStep DEF CreatesTask

LEMMA UseIdentityStep ==
  ASSUME ApiInv, NEW r \in Request, UseIdentity(r), batch' = batch, EngineUnchanged
  PROVE  Step(r)
<1>1. pc[r] = "authn" /\ pc[r] \in CreatesTask /\ pc[r] \in Creating /\ UNCHANGED secrets
  BY DEF UseIdentity, At, Creating, CreatesTask
<1>2. CASE Fail(r, "bad_request", 1)
  BY <1>1, <1>2, FailStep
<1>3. ASSUME NEW i \in Rows("Identity"), Keep(r, "authn", {i.uuid}), Goto(r, "make_half"),
             UNCHANGED <<rows, rollbacks>>
      PROVE  Step(r)
  <2> DEFINE locals == [loc[r] EXCEPT !.authn = {i.uuid}]
  <2>1. Moves(r, "make_half", locals)
    BY <1>3 DEF Keep, Moves, Frame, Goto, ApiInv, Control
  <2>2. /\ IsLocals(locals) /\ locals.pipeline = loc[r].pipeline /\ locals.todo = loc[r].todo
        /\ locals.context = loc[r].context /\ locals.destination = loc[r].destination
        /\ locals.authn = {i.uuid} /\ locals.half = loc[r].half
    BY <1>1, InCreation DEF IsLocals
  <2> HIDE DEF locals
  <2>3. /\ pc'[r] = "make_half" /\ loc'[r] = locals /\ "make_half" \in Creating
        /\ Ask(r)' = Ask(r) /\ i.uuid[2] = "Identity"
    BY <2>1, Found DEF Moves, Creating, CreatesTask, Ask
  <2>4. Points(r)'
    <3>1. /\ \A u \in loc[r].context : u[1] = r /\ u[2] = "Context"
          /\ \A u \in loc[r].destination : u[1] = r /\ u[2] = "Destination"
      BY <1>1 DEF ApiInv, Points, PointsAt
    <3> QED
      BY <1>1, <2>2, <2>3, <3>1, InCreation DEF Points, PointsAt, Creating, CreatesTask, Asks
  <2>5. Advances(r)
    BY <1>1, <2>2, <2>3
       DEF Ahead, AheadInTask, Advances, Operation, Reads, CreatesTask, EngineUnchanged
  <2>6. Effect(r) /\ SecretSteps(r) /\ RunsKept /\ Registers(r)
    BY <1>1, <1>3, <2>3, RowsUnchanged DEF Registers
  <2>7. locals.todo # <<>>
    BY <1>1, <2>2, InCreation
  <2>8. Asks(r, "pipelines_post") =>
           \A row \in rows' : Own(r, row) => locals.pipeline \in row.above \cup {row.uuid}
    BY <1>1, <1>3, <2>2, InCreation
  <2>9. /\ pc[r] \notin {"done", "create_group", "create_admin", "create_users"}
        /\ <<Ask(r).op, "make_half">> \in Flows
    BY <1>1, <2>3, InCreation
  <2> QED
    BY <2>1, <2>2, <2>4, <2>5, <2>6, <2>7, <2>8, <2>9, GoStep
<1> QED
  BY <1>2, <1>3 DEF UseIdentity

LEMMA WriteSecretStep ==
  ASSUME ApiInv, NEW r \in Request, WriteSecret(r), batch' = batch, EngineUnchanged
  PROVE  Step(r)
<1>1. pc[r] = "authn" /\ pc[r] \in CreatesTask /\ pc[r] \in Creating
  BY DEF WriteSecret, At, Creating, CreatesTask
<1>2. CASE Fail(r, "server_error", 1) /\ UNCHANGED secrets
  BY <1>1, <1>2, FailStep
<1>3. CASE /\ secrets' = secrets \cup {CredentialsOf(r)}
           /\ Goto(r, "save_credentials") /\ UNCHANGED <<rows, rollbacks, loc>>
  <2>1. Moves(r, "save_credentials", loc[r])
    BY <1>3 DEF Moves, Frame, Goto, ApiInv, Control
  <2>2. /\ pc'[r] = "save_credentials" /\ loc'[r] = loc[r] /\ "save_credentials" \in Creating
        /\ Ask(r)' = Ask(r) /\ CredentialsOf(r)' = CredentialsOf(r)
    BY <2>1 DEF Moves, Creating, CreatesTask, Ask, CredentialsOf, Number
  <2>3. Points(r)'
    <3>1. /\ \A u \in loc[r].authn : \/ u[2] = "Identity"
                                     \/ u[1] = r /\ u[2] = "Credentials" /\ u[3] # 0
          /\ \A u \in loc[r].context : u[1] = r /\ u[2] = "Context"
          /\ \A u \in loc[r].destination : u[1] = r /\ u[2] = "Destination"
      BY <1>1 DEF ApiInv, Points, PointsAt
    <3> QED
      BY <1>1, <2>2, <3>1, InCreation DEF Points, PointsAt, Creating, CreatesTask, Asks
  <2>4. Advances(r)
    BY <1>1, <2>2 DEF Ahead, AheadInTask, Advances, Operation, Reads, CreatesTask, EngineUnchanged
  <2>5. Effect(r) /\ RunsKept /\ Registers(r)
    BY <1>3 DEF Effect, RunsKept, Registers
  <2>6. SecretSteps(r)
    BY <1>3, <2>2 DEF SecretSteps, Uuids
  <2> QED
    BY <1>1, <1>3, <2>1, <2>2, <2>3, <2>4, <2>5, <2>6, InCreation, GoStep
<1> QED
  BY <1>2, <1>3 DEF WriteSecret

LEMMA SaveCredentialsStep ==
  ASSUME ApiInv, NEW r \in Request, SaveCredentials(r), batch' = batch, EngineUnchanged
  PROVE  Step(r)
<1> DEFINE row == NewRow("Credentials", CredentialsOf(r), "none", loc[r].owner, "none", {})
           locals == [loc[r] EXCEPT !.authn = {CredentialsOf(r)}]
<1>1. /\ pc[r] = "save_credentials" /\ pc[r] \in CreatesTask /\ pc[r] \in Creating
      /\ UNCHANGED secrets
  BY DEF SaveCredentials, At, Creating, CreatesTask
<1>2. CASE Fail(r, "server_error", 1)
  BY <1>1, <1>2, FailStep
<1>3. CASE /\ Insert(row) /\ AddRollback(r, "secret", row.uuid) /\ Keep(r, "authn", {row.uuid})
           /\ Goto(r, "make_half")
  <2>0. row.uuid = CredentialsOf(r)
    BY DEF NewRow
  <2>1. Moves(r, "make_half", locals)
    BY <1>3, <2>0 DEF Keep, Moves, Frame, Goto, ApiInv, Control
  <2>2. /\ IsLocals(locals) /\ locals.pipeline = loc[r].pipeline /\ locals.todo = loc[r].todo
        /\ locals.context = loc[r].context /\ locals.destination = loc[r].destination
        /\ locals.authn = {CredentialsOf(r)} /\ locals.half = loc[r].half
    BY <1>1, InCreation DEF IsLocals
  <2>3. PICK number, n : /\ number = Number(r)
                         /\ n = 2 * number + (IF loc[r].half = "Context" THEN 0 ELSE 1)
    OBVIOUS
  <2>4. /\ number \in Nat \ {0} /\ n \in 2 .. 2 * number + 1 /\ n # 0
        /\ n = 2 * number => loc[r].half = "Context"
        /\ n = 2 * number + 1 => loc[r].half # "Context"
        /\ n \in {2 * number, 2 * number + 1}
    <3>1. number \in Nat \ {0}
      BY <1>1, <2>3, InCreation
    <3> QED
      BY <2>3, <3>1
  <2>5. CredentialsOf(r) = New(r, "Credentials", n)
    BY <2>3 DEF CredentialsOf
  <2>6. PICK new, owner : new = row /\ owner = loc[r].owner
    OBVIOUS
  <2>7. /\ new = NewRow("Credentials", New(r, "Credentials", n), "none", owner, "none", {})
        /\ Insert(new) /\ AddRollback(r, "secret", New(r, "Credentials", n))
    BY <1>3, <2>0, <2>5, <2>6
  <2> HIDE DEF locals, row
  <2>8. /\ pc'[r] = "make_half" /\ loc'[r] = locals /\ "make_half" \in Creating
        /\ Ask(r)' = Ask(r)
    BY <2>1 DEF Moves, Creating, CreatesTask, Ask
  <2>9. Ahead(r, "Credentials", n)
    <3>1. AheadInTask(r, "Credentials", n)
      BY <1>1, <2>3, <2>4 DEF AheadInTask, Number
    <3> QED
      BY <1>1, <3>1 DEF Ahead
  <2>10. ~Ahead(r, "Credentials", n)' /\ Advances(r)
    <3>1. Len(loc'[r].todo) = number /\ Len(loc[r].todo) = number /\ loc'[r].half = loc[r].half
      BY <2>2, <2>3, <2>8 DEF Number
    <3>2. ~AheadInTask(r, "Credentials", n)'
      BY <2>4, <2>8, <3>1 DEF AheadInTask
    <3>3. \A table, k : AheadInTask(r, table, k)' => AheadInTask(r, table, k)
      BY <1>1, <2>8, <3>1 DEF AheadInTask
    <3>4. ~Ahead(r, "Credentials", n)'
      BY <2>8, <3>2 DEF Ahead, Operation, Reads, CreatesTask
    <3> QED
      BY <1>1, <2>8, <3>3, <3>4
         DEF Ahead, Advances, Operation, Reads, CreatesTask, EngineUnchanged
  <2>11. "Credentials" \in Table /\ "Credentials" \in Unchecked /\ Above({}) \subseteq Uuids
    BY DEF Table, Unchecked, Above
  <2>12. /\ Effect(r) /\ RunsKept /\ rows' = rows \cup {new}
         /\ new.uuid = New(r, "Credentials", n) /\ new.table = "Credentials"
    BY <2>7, <2>9, <2>10, <2>11, RowInserted
  <2>13. new.uuid \in secrets
    BY <1>1, <2>5, <2>12 DEF ApiInv, Secrets
  <2>14. SecretSteps(r)
    BY <1>1, <2>8, <2>12, <2>13 DEF SecretSteps, Uuids
  <2>15. Registers(r)
    BY <2>4, <2>7, <2>9, <2>10 DEF Registers
  <2>16. Points(r)'
    <3>1. /\ \A u \in loc[r].context : u[1] = r /\ u[2] = "Context"
          /\ \A u \in loc[r].destination : u[1] = r /\ u[2] = "Destination"
      BY <1>1 DEF ApiInv, Points, PointsAt
    <3>2. \A u \in {CredentialsOf(r)} : u[1] = r /\ u[2] = "Credentials" /\ u[3] # 0
      BY <2>4, <2>5 DEF New
    <3> QED
      BY <1>1, <2>2, <2>8, <3>1, <3>2, PointsInCreation
  <2>17. \A x \in rows' : ~(Own(r, x) /\ x \notin rows)
    BY <2>12 DEF Own
  <2>18. locals.todo # <<>>
    BY <1>1, <2>2, InCreation
  <2>19. Asks(r, "pipelines_post") =>
            \A x \in rows' : Own(r, x) => locals.pipeline \in x.above \cup {x.uuid}
    BY <1>1, <2>2, <2>17, InCreation
  <2>20. /\ pc[r] \notin {"done", "create_group", "create_admin", "create_users"}
         /\ <<Ask(r).op, "make_half">> \in Flows
    BY <1>1, <2>8, InCreation
  <2> QED
    BY <2>1, <2>2, <2>10, <2>12, <2>14, <2>15, <2>16, <2>18, <2>19, <2>20, GoStep
<1> QED
  BY <1>2, <1>3 DEF SaveCredentials

\* The context comes first, and then the destination.
LEMMA MakeHalfStep ==
  ASSUME ApiInv, NEW r \in Request, MakeHalf(r), batch' = batch, EngineUnchanged
  PROVE  Step(r)
<1>1. /\ pc[r] \in {"authn", "make_half"} /\ pc[r] \in CreatesTask /\ pc[r] \in Creating
      /\ UNCHANGED secrets
  BY DEF MakeHalf, At, Creating, CreatesTask
<1>2. ASSUME NEW error, NEW passes, Fail(r, error, passes) PROVE Step(r)
  BY <1>1, <1>2, FailStep
<1> DEFINE row == NewRow(loc[r].half, New(r, loc[r].half, Number(r)), "none", loc[r].owner, "none",
                         loc[r].authn)
<1>3. CASE /\ Insertable(row) /\ Insert(row) /\ AddRollback(r, "row", row.uuid)
           /\ IF loc[r].half = "Context"
              THEN /\ loc' = [loc EXCEPT ![r].context = {row.uuid}, ![r].authn = {},
                                         ![r].half = "Destination"]
                   /\ Goto(r, "authn")
              ELSE /\ loc' = [loc EXCEPT ![r].destination = {row.uuid}, ![r].authn = {}]
                   /\ Goto(r, "make_task")
  <2> DEFINE first == loc[r].half = "Context"
             label == IF first THEN "authn" ELSE "make_task"
             locals == IF first THEN [loc[r] EXCEPT !.context = {row.uuid}, !.authn = {},
                                                    !.half = "Destination"]
                       ELSE [loc[r] EXCEPT !.destination = {row.uuid}, !.authn = {}]
  <2>1. PICK n, half, new, owner, keys :
           n = Number(r) /\ half = loc[r].half /\ new = row /\ owner = loc[r].owner
           /\ keys = loc[r].authn
    OBVIOUS
  <2>2. /\ n \in Nat \ {0} /\ half \in {"Context", "Destination"} /\ IsLocals(loc[r])
        /\ \A k \in keys : \/ k[2] = "Identity"
                           \/ k[1] = r /\ k[2] = "Credentials" /\ k[3] # 0
        /\ \A u \in loc[r].context : u[1] = r /\ u[2] = "Context"
        /\ \A u \in loc[r].destination : u[1] = r /\ u[2] = "Destination"
    BY <1>1, <2>1, InCreation DEF ApiInv, Points, PointsAt, IsLocals
  <2>3. /\ new = NewRow(half, New(r, half, n), "none", owner, "none", keys)
        /\ Insertable(new) /\ Insert(new)
        /\ row.uuid = New(r, half, n) /\ AddRollback(r, "row", New(r, half, n))
    BY <1>3, <2>1 DEF NewRow
  <2>4. Moves(r, label, locals)
    BY <1>3 DEF Moves, Frame, Goto, ApiInv, Control
  <2>5. /\ IsLocals(locals) /\ locals.pipeline = loc[r].pipeline /\ locals.todo = loc[r].todo
        /\ locals.authn = {} /\ locals.half = "Destination"
    BY <2>2 DEF IsLocals
  <2>6. /\ locals.context = IF first THEN {row.uuid} ELSE loc[r].context
        /\ locals.destination = IF first THEN loc[r].destination ELSE {row.uuid}
    BY <2>2 DEF IsLocals
  <2>7. /\ half = "Context" => label = "authn"
        /\ half = "Destination" => label = "make_task" /\ loc[r].half = "Destination"
        /\ half = loc[r].half
    BY <2>1, <2>2
  <2> HIDE DEF locals, row, label, first
  <2>8. pc'[r] = label /\ loc'[r] = locals /\ label \in CreatesTask /\ Ask(r)' = Ask(r)
    BY <2>4, <2>7, <2>2 DEF Moves, CreatesTask, Ask
  <2>9. Ahead(r, half, n) /\ ~Ahead(r, half, n)' /\ Advances(r)
    <3>1. /\ Len(loc'[r].todo) = n /\ Len(loc[r].todo) = n /\ loc'[r].half = "Destination"
          /\ pc'[r] = label
      BY <2>1, <2>5, <2>8 DEF Number
    <3>2. AheadInTask(r, half, n)
      BY <1>1, <2>2, <2>7, <3>1 DEF AheadInTask
    <3>3. ~AheadInTask(r, half, n)'
      BY <2>2, <2>7, <3>1 DEF AheadInTask
    <3>4. ASSUME NEW table, NEW k, AheadInTask(r, table, k)' PROVE AheadInTask(r, table, k)
      <4>1. CASE half = "Context"
        BY <1>1, <2>7, <3>1, <3>4, <4>1 DEF AheadInTask
      <4>2. CASE half = "Destination"
        BY <1>1, <2>7, <3>1, <3>4, <4>2 DEF AheadInTask
      <4> QED
        BY <2>2, <4>1, <4>2
    <3>5. ~Ahead(r, half, n)'
      BY <2>2, <2>8, <3>3 DEF Ahead, Operation, Reads, CreatesTask
    <3>6. Advances(r)
      BY <1>1, <2>8, <3>4 DEF Ahead, Advances, Operation, Reads, CreatesTask, EngineUnchanged
    <3> QED
      BY <1>1, <3>2, <3>5, <3>6 DEF Ahead
  <2>10. half \in Table /\ half \notin {"GroupUser", "Group", "Identity", "PipelineRun", "Credentials"}
    BY <2>2 DEF Table
  <2>11. \A k \in keys : <<half, k[2]>> \in Hangs
    BY <2>2 DEF Hangs
  <2>12. label \notin {"identity_credentials", "save_credentials"}
    BY <2>2, <2>7
  <2>13. Effect(r) /\ RunsKept /\ SecretSteps(r) /\ rows' = rows \cup {new} /\ new.table = half
    BY <1>1, <2>2, <2>3, <2>8, <2>9, <2>10, <2>11, <2>12, RowInserted
  <2>14. Registers(r)
    BY <2>2, <2>3, <2>9 DEF Registers
  <2>15. Points(r)'
    <3>1. \A u \in {row.uuid} : u[1] = r /\ u[2] = half
      BY <2>3 DEF New
    <3>2. /\ \A u \in locals.context : u[1] = r /\ u[2] = "Context"
          /\ \A u \in locals.destination : u[1] = r /\ u[2] = "Destination"
      BY <2>2, <2>6, <2>7, <3>1 DEF first
    <3>3. label \in Creating /\ label # "rollback_row"
      BY <2>8 DEF Creating, CreatesTask
    <3> QED
      BY <1>1, <2>5, <2>8, <3>2, <3>3, PointsInCreation
  <2>16. \A x \in rows' : ~(Own(r, x) /\ x \notin rows)
    BY <2>2, <2>13 DEF Own
  <2>17. label \in Creating /\ label \notin {"create_admin", "drop_secret", "delete_user",
                                             "create_identity", "link_archives"}
    BY <2>8 DEF Creating, CreatesTask
  <2>18. locals.todo # <<>>
    BY <1>1, <2>5, InCreation
  <2> QED
    BY <1>1, <2>4, <2>5, <2>9, <2>13, <2>14, <2>15, <2>16, <2>17, <2>18, InCreation, GoStep
<1> QED
  BY <1>2, <1>3 DEF MakeHalf

LEMMA MakeTaskStep ==
  ASSUME ApiInv, NEW r \in Request, MakeTask(r), batch' = batch, EngineUnchanged
  PROVE  Step(r)
<1>1. /\ pc[r] = "make_task" /\ pc[r] \in CreatesTask /\ pc[r] \in Creating
      /\ UNCHANGED secrets
  BY DEF MakeTask, At, Creating, CreatesTask
<1>2. CASE Fail(r, "integrity", 1)
  BY <1>1, <1>2, FailStep
<1> DEFINE row == NewRow("Task", New(r, "Task", Number(r)), Task(r).id, loc[r].owner, Task(r).type,
                         {loc[r].pipeline} \cup loc[r].context \cup loc[r].destination)
           locals == [loc[r] EXCEPT !.todo = Tail(loc[r].todo), !.half = "Context",
                                    !.context = {}, !.destination = {}]
           label == TaskLabel(Tail(loc[r].todo))
<1>3. CASE /\ Insertable(row) /\ Insert(row) /\ Goto(r, label) /\ UNCHANGED rollbacks
           /\ loc' = [loc EXCEPT ![r].todo = Tail(@), ![r].half = "Context",
                                 ![r].context = {}, ![r].destination = {}]
  <2>1. PICK n, new, id, owner, type, keys :
           /\ n = Number(r) /\ new = row /\ id = Task(r).id /\ owner = loc[r].owner
           /\ type = Task(r).type
           /\ keys = {loc[r].pipeline} \cup loc[r].context \cup loc[r].destination
    OBVIOUS
  <2>2. /\ n \in Nat \ {0} /\ IsLocals(loc[r]) /\ loc[r].pipeline[2] = "Pipeline"
        /\ loc[r].todo \in Seq(UserAsked \cup TaskAsked \cup EtlAsked) /\ loc[r].todo # <<>>
        /\ n = Len(loc[r].todo)
    BY <1>1, <2>1, InCreation DEF Number
  <2>3. /\ new = NewRow("Task", New(r, "Task", n), id, owner, type, keys)
        /\ Insertable(new) /\ Insert(new)
    BY <1>3, <2>1
  <2>4. Moves(r, label, locals)
    BY <1>3 DEF Moves, Frame, Goto, ApiInv, Control
  <2>5. Tail(loc[r].todo) \in Seq(UserAsked \cup TaskAsked \cup EtlAsked) /\ Len(Tail(loc[r].todo)) = n - 1
    BY <2>2
  <2>6. /\ IsLocals(locals) /\ locals.pipeline = loc[r].pipeline /\ locals.todo = Tail(loc[r].todo)
        /\ locals.authn = loc[r].authn /\ locals.half = "Context"
        /\ locals.context = {} /\ locals.destination = {}
    BY <2>2, <2>5 DEF IsLocals
  <2>7. /\ label \in {"created", "authn", "make_task"} /\ (label # "created" => locals.todo # <<>>)
        /\ label \in Creating
    BY <2>6, TaskLabels DEF Creating, CreatesTask
  <2> HIDE DEF locals, row, label
  <2>8. pc'[r] = label /\ loc'[r] = locals /\ Ask(r)' = Ask(r)
    BY <2>4 DEF Moves, Ask
  <2>9. Ahead(r, "Task", n) /\ ~Ahead(r, "Task", n)' /\ Advances(r)
    <3>1. /\ Len(loc'[r].todo) = n - 1 /\ Len(loc[r].todo) = n /\ loc'[r].half = "Context"
          /\ pc'[r] = label
      BY <2>2, <2>5, <2>6, <2>8
    <3>2. AheadInTask(r, "Task", n)
      BY <1>1, <2>2, <3>1 DEF AheadInTask
    <3>3. ~AheadInTask(r, "Task", n)'
      BY <2>2, <3>1 DEF AheadInTask
    <3>4. ASSUME NEW table, NEW k, AheadInTask(r, table, k)' PROVE AheadInTask(r, table, k)
      <4>1. \A i \in 1 .. n - 1 : i \in 1 .. n /\ i # n
        BY <2>2
      <4>2. \A i \in 2 .. 2 * (n - 1) + 1 : i \in 2 .. 2 * n + 1 /\ i # 2 * n /\ i # 2 * n + 1
        BY <2>2
      <4> QED
        BY <3>1, <3>4, <4>1, <4>2 DEF AheadInTask
    <3>5. ~Ahead(r, "Task", n)'
      BY <2>7, <2>8, <3>3 DEF Ahead, Operation, Reads, CreatesTask
    <3>6. Advances(r)
      BY <1>1, <2>7, <2>8, <3>4 DEF Ahead, Advances, Operation, Reads, CreatesTask, EngineUnchanged
    <3> QED
      BY <1>1, <3>2, <3>5, <3>6 DEF Ahead
  <2>10. \A k \in keys : k = loc[r].pipeline \/ (k[1] = r /\ k[2] \in {"Context", "Destination"})
    BY <1>1, <2>1 DEF ApiInv, Points, PointsAt
  <2>11. /\ "Task" \in Table /\ \A k \in keys : <<"Task", k[2]>> \in Hangs
         /\ \A k \in keys : /\ \/ k[2] \notin {"Context", "Destination", "Credentials"}
                               \/ k[1] = r
                            /\ k[2] # "Credentials"
    BY <2>2, <2>10 DEF Hangs, Table
  <2>12. /\ Effect(r) /\ RunsKept /\ SecretSteps(r) /\ rows' = rows \cup {new}
         /\ new.above = Above(keys)
    BY <1>1, <2>3, <2>7, <2>8, <2>9, <2>11, RowInserted
  <2>13. Registers(r)
    BY <1>3 DEF Registers
  <2>14. Points(r)'
    <3>1. \A u \in locals.authn : \/ u[2] = "Identity"
                                  \/ u[1] = r /\ u[2] = "Credentials" /\ u[3] # 0
      BY <1>1, <2>6 DEF ApiInv, Points, PointsAt
    <3> QED
      BY <1>1, <2>6, <2>7, <2>8, <3>1, PointsInCreation
  <2>15. loc[r].pipeline \in new.above
    BY <2>1, <2>12 DEF Above
  <2>16. label \notin {"create_admin", "drop_secret", "delete_user", "create_identity",
                       "link_archives"}
    BY <2>7
  <2>17. <<Ask(r).op, label>> \in Flows
    BY <1>1, <2>7, InCreation
  <2>18. Asks(r, "pipelines_post") =>
            \A x \in rows' : Own(r, x) => locals.pipeline \in x.above \cup {x.uuid}
    BY <1>1, <2>6, <2>12, <2>15, InCreation
  <2> QED
    BY <1>1, <2>4, <2>6, <2>7, <2>9, <2>12, <2>13, <2>14, <2>16, <2>17, <2>18, InCreation, GoStep
       DEF CreatesTask
<1> QED
  BY <1>2, <1>3 DEF MakeTask

\* What a rollback deletes is a row of this process' requests, or is gone already.
LEMMA EntryKnown ==
  ASSUME ApiInv, NEW r \in Request, loc[r].undone < Len(rollbacks[Ask(r).worker])
  PROVE  /\ loc[r].undone + 1 \in DOMAIN rollbacks[Ask(r).worker] /\ loc[r].undone \in Nat
         /\ Entry(r).uuid \in Registered /\ Ask(Entry(r).uuid[1]).worker = Ask(r).worker
         /\ Entry(r).uuid[1] \in Request
         /\ Entry(r).uuid[2] \in {"Credentials", "Context", "Destination"}
         /\ Entry(r).kind = "secret" <=> Entry(r).uuid[2] = "Credentials"
         /\ Entry(r).uuid[2] = "Credentials" => Entry(r).uuid[3] # 0
<1> DEFINE list == rollbacks[Ask(r).worker]
           Known == [kind : {"row", "secret"},
                     uuid : Request \X {"Credentials", "Context", "Destination"} \X Nat]
<1>1. loc[r].undone \in Nat /\ Ask(r).worker \in Worker
  BY OpOf DEF IsLocals
<1>2. list \in Seq(Known)
  BY <1>1 DEF ApiInv, Entries
<1>3. /\ \A i \in 1 .. Len(list) :
            /\ Ask(list[i].uuid[1]).worker = Ask(r).worker
            /\ list[i].kind = "secret" <=> list[i].uuid[2] = "Credentials"
            /\ list[i].uuid[2] = "Credentials" => list[i].uuid[3] # 0
      /\ \A i \in 1 .. Len(list) : list[i].uuid \in Registered
  BY <1>1 DEF ApiInv, Entries, Registered
<1>4. \A e \in Known : /\ e.uuid[1] \in Request
                       /\ e.uuid[2] \in {"Credentials", "Context", "Destination"}
  OBVIOUS
<1>5. loc[r].undone < Len(list) /\ Entry(r) = list[loc[r].undone + 1]
  BY DEF Entry
<1> HIDE DEF list, Known
<1>6. /\ loc[r].undone + 1 \in DOMAIN list /\ loc[r].undone + 1 \in 1 .. Len(list)
      /\ list[loc[r].undone + 1] \in Known
  BY <1>1, <1>2, <1>5
<1> QED
  BY <1>1, <1>3, <1>4, <1>5, <1>6 DEF list

\* What an entry deletes, and on to the next one.
LEMMA UndoneStep ==
  ASSUME ApiInv, NEW r \in Request, pc[r] \in {"rollback", "rollback_row"}, Undone(r),
         loc[r].undone < Len(rollbacks[Ask(r).worker]), UNCHANGED rollbacks, batch' = batch,
         EngineUnchanged
  PROVE  Step(r)
<1> DEFINE locals == [loc[r] EXCEPT !.undone = loc[r].undone + 1]
<1>1. /\ pc[r] \in Creating /\ Goto(r, "rollback") /\ Keep(r, "undone", loc[r].undone + 1)
      /\ UNCHANGED secrets /\ IsLocals(loc[r])
  BY OpOf DEF Undone, Creating
<1>2. Moves(r, "rollback", locals)
  BY <1>1 DEF Goto, Keep, Moves, Frame, ApiInv, Control
<1>3. IsLocals(locals) /\ locals.pipeline = loc[r].pipeline
  BY <1>1 DEF IsLocals
<1> HIDE DEF locals
<1>4. pc'[r] = "rollback" /\ loc'[r] = locals
  BY <1>2 DEF Moves
<1>5. Effect(r) /\ SecretSteps(r) /\ RunsKept /\ rows' \subseteq rows
  <2>1. CASE UNCHANGED rows
    BY <1>1, <1>4, <2>1, RowsUnchanged
  <2>2. CASE Delete({Entry(r).uuid})
    <3>1. PICK uuids : uuids = {Entry(r).uuid}
      OBVIOUS
    <3>2. \A u \in uuids : u[2] # "Group" /\ u[2] # "GroupUser"
      BY <3>1, EntryKnown
    <3> QED
      BY <1>1, <1>4, <2>2, <3>1, <3>2, RowsDeleted
  <2> QED
    BY <2>1, <2>2 DEF Undone
<1>6. Points(r)'
  BY <1>1, <1>3, <1>4, PointsInCreation DEF CreatesTask, Creating
<1>7. Advances(r) /\ Registers(r)
  BY <1>1, <1>4 DEF Ahead, Advances, Operation, Reads, CreatesTask, EngineUnchanged, Registers
<1>8. <<Ask(r).op, "rollback">> \in Flows
  BY <1>1, InCreation DEF Creating
<1> QED
  BY <1>1, <1>2, <1>3, <1>5, <1>6, <1>7, <1>8, InCreation, GoStep DEF CreatesTask

LEMMA RollbackStep ==
  ASSUME ApiInv, NEW r \in Request, Rollback(r), batch' = batch, EngineUnchanged
  PROVE  Step(r)
<1>1. /\ pc[r] = "rollback" /\ pc[r] \in Creating /\ UNCHANGED rollbacks
      /\ loc[r].undone < Len(rollbacks[Ask(r).worker]) /\ IsLocals(loc[r])
  BY OpOf DEF Rollback, At, Creating
<1>2. CASE Undone(r)
  BY <1>1, <1>2, UndoneStep
<1>3. CASE /\ secrets' = secrets \ {Entry(r).uuid} /\ Goto(r, "rollback_row")
           /\ UNCHANGED <<loc, rows>>
  <2>1. Moves(r, "rollback_row", loc[r])
    BY <1>3 DEF Goto, Moves, Frame, ApiInv, Control
  <2>2. pc'[r] = "rollback_row" /\ loc'[r] = loc[r] /\ Ask(r)' = Ask(r) /\ Entry(r)' = Entry(r)
    BY <1>1, <2>1 DEF Moves, Ask, Entry
  <2>3. Effect(r) /\ RunsKept /\ Registers(r)
    BY <1>1, <1>3 DEF Effect, RunsKept, Registers
  <2>4. SecretSteps(r)
    <3>1. Entry(r).uuid \in Held
      BY <1>1, EntryKnown DEF Held
    <3>2. CutShort(r, Entry(r).uuid)'
      BY <2>2 DEF CutShort, At
    <3> QED
      BY <1>3, <2>2, <3>1, <3>2 DEF SecretSteps, Uuids
  <2>5. Points(r)'
    <3>1. /\ loc[r].pipeline[2] = "Pipeline"
          /\ Asks(r, "pipelines_post") => loc[r].pipeline = New(r, "Pipeline", 1)
          /\ Asks(r, "pipelines_post")' <=> Asks(r, "pipelines_post")
      BY <1>1, <2>2, InCreation DEF Asks
    <3>2. loc'[r].undone < Len(rollbacks'[Ask(r)'.worker])
      BY <1>1, <2>2
    <3> QED
      BY <2>2, <3>1, <3>2 DEF Points, PointsAt, Creating, CreatesTask
  <2>6. Advances(r)
    BY <1>1, <2>2 DEF Ahead, Advances, Operation, Reads, CreatesTask, EngineUnchanged
  <2>7. <<Ask(r).op, "rollback_row">> \in Flows
    BY <1>1, InCreation DEF Creating
  <2> QED
    BY <1>1, <1>3, <2>1, <2>3, <2>4, <2>5, <2>6, <2>7, InCreation, GoStep DEF CreatesTask
<1>4. CASE Keep(r, "undone", loc[r].undone + 1) /\ UNCHANGED <<pc, reply, rows, secrets>>
  <2> DEFINE locals == [loc[r] EXCEPT !.undone = loc[r].undone + 1]
  <2>1. Moves(r, "rollback", locals)
    BY <1>1, <1>4 DEF Keep, Moves, Frame, ApiInv, Control
  <2>2. IsLocals(locals) /\ locals.pipeline = loc[r].pipeline
    BY <1>1 DEF IsLocals
  <2> HIDE DEF locals
  <2>3. pc'[r] = "rollback" /\ loc'[r] = locals
    BY <2>1 DEF Moves
  <2>4. Effect(r) /\ SecretSteps(r) /\ RunsKept /\ Registers(r)
    BY <1>1, <1>4, <2>3, RowsUnchanged DEF Registers
  <2>5. Points(r)'
    BY <1>1, <2>2, <2>3, PointsInCreation DEF CreatesTask
  <2>6. Advances(r)
    BY <1>1, <2>3 DEF Ahead, Advances, Operation, Reads, CreatesTask, EngineUnchanged
  <2>7. <<Ask(r).op, "rollback">> \in Flows
    BY <1>1, InCreation
  <2> QED
    BY <1>1, <1>4, <2>1, <2>2, <2>4, <2>5, <2>6, <2>7, InCreation, GoStep DEF CreatesTask
<1> QED
  BY <1>2, <1>3, <1>4 DEF Rollback

LEMMA RollbackRowStep ==
  ASSUME ApiInv, NEW r \in Request, RollbackRow(r), batch' = batch, EngineUnchanged
  PROVE  Step(r)
<1>1. pc[r] = "rollback_row" /\ Undone(r) /\ UNCHANGED rollbacks
  BY DEF RollbackRow, At
<1>2. loc[r].undone < Len(rollbacks[Ask(r).worker])
  BY <1>1 DEF ApiInv, Points, PointsAt
<1> QED
  BY <1>1, <1>2, UndoneStep

LEMMA RollbackDoneStep ==
  ASSUME ApiInv, NEW r \in Request, RollbackDone(r), batch' = batch, EngineUnchanged
  PROVE  Step(r)
<1> DEFINE label == IF loc[r].passes = 1 THEN "failed" ELSE "rollback"
           locals == [loc[r] EXCEPT !.undone = 0, !.passes = loc[r].passes - 1]
<1>1. /\ pc[r] = "rollback" /\ pc[r] \in Creating /\ UNCHANGED <<rows, secrets, rollbacks>>
      /\ Goto(r, label) /\ loc' = [loc EXCEPT ![r].undone = 0, ![r].passes = @ - 1]
  BY DEF RollbackDone, At, Creating
<1>2. Moves(r, label, locals)
  BY <1>1 DEF Goto, Moves, Frame, ApiInv, Control
<1>3. IsLocals(locals) /\ locals.pipeline = loc[r].pipeline
  BY OpOf DEF IsLocals
<1>4. label \in {"rollback", "failed"} /\ label \in Creating /\ label \notin CreatesTask
  BY DEF Creating, CreatesTask
<1> HIDE DEF locals, label
<1>5. pc'[r] = label /\ loc'[r] = locals
  BY <1>2 DEF Moves
<1>6. Effect(r) /\ SecretSteps(r) /\ RunsKept
  BY <1>1, <1>4, <1>5, RowsUnchanged
<1>7. Points(r)'
  BY <1>1, <1>3, <1>4, <1>5, PointsInCreation
<1>8. Advances(r) /\ Registers(r)
  BY <1>1, <1>4, <1>5
     DEF Ahead, Advances, Operation, Reads, CreatesTask, EngineUnchanged, Registers
<1>9. <<Ask(r).op, label>> \in Flows
  BY <1>1, <1>4, InCreation
<1> QED
  BY <1>1, <1>2, <1>3, <1>4, <1>6, <1>7, <1>8, <1>9, InCreation, GoStep

LEMMA FailedStep ==
  ASSUME ApiInv, NEW r \in Request, Failed(r), batch' = batch, EngineUnchanged
  PROVE  Step(r)
<1>1. pc[r] = "failed" /\ pc[r] \in Creating /\ UNCHANGED <<secrets, rollbacks>>
  BY DEF Failed, At, Creating
<1>2. FailureReply(r) \in Answers \ {"none"}
  BY DEF FailureReply, Answers
<1>3. CASE Withdrawn(r)
  BY <1>1, <1>2, <1>3, WithdrawStep DEF Failed
<1>4. CASE ~Withdrawn(r)
  <2>1. ~Asks(r, "pipelines_post") \/ (Ask(r).kind = "workflow" /\ loc[r].error = "server_error")
    BY <1>4 DEF Withdrawn
  <2>2. Answer(r, FailureReply(r)) /\ UNCHANGED rows
    BY <1>4 DEF Failed
  <2> QED
    BY <1>1, <1>2, <2>1, <2>2, PlainAnswer
<1> QED
  BY <1>3, <1>4

-----------------------------------------------------------------------------
(***************************************************************************)
(* Steps that create pipelines, and those that start a run                 *)
(***************************************************************************)
LEMMA CreatePipelineStep ==
  ASSUME ApiInv, NEW r \in Request, CreatePipeline(r), batch' = batch, EngineUnchanged
  PROVE  Step(r)
<1> DEFINE row == PipelineRow(r)
           locals == [loc[r] EXCEPT !.pipeline = row.uuid, !.owner = row.owner,
                                    !.rest = Ask(r).archives]
<1>1. pc[r] = "create_pipeline" /\ UNCHANGED <<secrets, rollbacks>>
  BY DEF CreatePipeline, At
<1>2. /\ Ask(r).op = "pipelines_post" /\ IsLocals(loc[r]) /\ IsFiniteSet(Ask(r).archives)
      /\ "bad_request" \in Answers \ {"none"}
  BY <1>1, OpOf, BatchesAssumption
     DEF Asks, Flows, Creating, CreatesTask, Answers, Operation, Reads, ApiInv, Control, Ask
<1>3. \A x \in rows : ~Own(r, x)
  BY <1>1, NothingOwn
<1>4. CASE Answer(r, "bad_request") /\ UNCHANGED rows
  BY <1>1, <1>2, <1>3, <1>4, PlainAnswer
<1>5. CASE /\ Insertable(row) /\ Insert(row) /\ Goto(r, "link_archives")
           /\ loc' = [loc EXCEPT ![r].pipeline = row.uuid, ![r].owner = row.owner,
                                 ![r].rest = Ask(r).archives]
  <2>1. row.uuid = New(r, "Pipeline", 1)
    BY DEF NewRow, PipelineRow
  <2>2. Moves(r, "link_archives", locals)
    BY <1>5 DEF Moves, Frame, Goto, ApiInv, Control
  <2>3. /\ IsLocals(locals) /\ locals.pipeline = New(r, "Pipeline", 1)
        /\ locals.rest = Ask(r).archives /\ locals.authn = loc[r].authn
        /\ locals.context = loc[r].context /\ locals.destination = loc[r].destination
    BY <1>2, <2>1 DEF IsLocals
  <2>4. PICK new, id, owner, keys :
           new = row /\ id = Ask(r).pipeline /\ owner = Ask(r).user /\ keys = {loc[r].target}
    OBVIOUS
  <2>5. /\ new = NewRow("Pipeline", New(r, "Pipeline", 1), id, owner, "none", keys)
        /\ Insert(new) /\ Insertable(new)
    BY <1>5, <2>4 DEF PipelineRow
  <2> HIDE DEF locals, row
  <2>6. pc'[r] = "link_archives" /\ loc'[r] = locals /\ Ask(r)' = Ask(r)
    BY <2>2 DEF Moves, Ask
  <2>7. Ahead(r, "Pipeline", 1) /\ ~Ahead(r, "Pipeline", 1)' /\ Advances(r)
    BY <1>1, <2>6 DEF Ahead, Advances, Operation, Reads, CreatesTask, EngineUnchanged, OfTask
  <2>8. \A k \in keys : k[2] = "Group"
    <3>1. GroupAt(loc[r].target)
      BY <1>1 DEF ApiInv, Points, PointsAt
    <3> QED
      BY <2>4, <3>1, OnGroup DEF GroupAt
  <2>9. "Pipeline" \in Table /\ \A k \in keys : <<"Pipeline", k[2]>> \in Hangs
    BY <2>8 DEF Table, Hangs
  <2>10. /\ Effect(r) /\ RunsKept /\ SecretSteps(r) /\ rows' = rows \cup {new}
         /\ new.uuid = New(r, "Pipeline", 1)
    BY <1>1, <2>5, <2>6, <2>7, <2>8, <2>9, RowInserted
  <2>11. Points(r)'
    <3>1. /\ \A u \in locals.authn : \/ u[2] = "Identity"
                                     \/ u[1] = r /\ u[2] = "Credentials" /\ u[3] # 0
          /\ \A u \in locals.context : u[1] = r /\ u[2] = "Context"
          /\ \A u \in locals.destination : u[1] = r /\ u[2] = "Destination"
      BY <1>1, <2>3 DEF ApiInv, Points, PointsAt
    <3>2. locals.pipeline[2] = "Pipeline"
      BY <2>3 DEF New
    <3> QED
      BY <2>3, <2>6, <3>1, <3>2 DEF Points, PointsAt, Creating, CreatesTask
  <2>12. \A x \in rows' : Own(r, x) => locals.pipeline \in x.above \cup {x.uuid}
    BY <1>3, <2>3, <2>10
  <2>13. <<Ask(r).op, "link_archives">> \in Flows /\ Registers(r)
    BY <1>1, <1>2 DEF Flows, Registers
  <2> QED
    BY <1>1, <1>2, <2>2, <2>3, <2>7, <2>10, <2>11, <2>12, <2>13, GoStep DEF CreatesTask
<1> QED
  BY <1>4, <1>5 DEF CreatePipeline

LEMMA InLinking ==
  ASSUME ApiInv, NEW r \in Request, pc[r] = "link_archives"
  PROVE  /\ Ask(r).op = "pipelines_post" /\ IsLocals(loc[r]) /\ IsFiniteSet(loc[r].rest)
         /\ loc[r].pipeline[2] = "Pipeline" /\ loc[r].pipeline = New(r, "Pipeline", 1)
         /\ \A u \in loc[r].authn : \/ u[2] = "Identity"
                                    \/ u[1] = r /\ u[2] = "Credentials" /\ u[3] # 0
         /\ \A u \in loc[r].context : u[1] = r /\ u[2] = "Context"
         /\ \A u \in loc[r].destination : u[1] = r /\ u[2] = "Destination"
         /\ \A row \in rows : Own(r, row) => loc[r].pipeline \in row.above \cup {row.uuid}
<1>1. Ask(r).op = "pipelines_post" /\ IsLocals(loc[r])
  BY OpOf DEF Flows, Creating, CreatesTask, Operation, Reads
<1>2. IsFiniteSet(loc[r].rest)
  BY DEF ApiInv, Control, Placed
<1>3. /\ loc[r].pipeline[2] = "Pipeline" /\ loc[r].pipeline = New(r, "Pipeline", 1)
      /\ \A u \in loc[r].authn : \/ u[2] = "Identity"
                                 \/ u[1] = r /\ u[2] = "Credentials" /\ u[3] # 0
      /\ \A u \in loc[r].context : u[1] = r /\ u[2] = "Context"
      /\ \A u \in loc[r].destination : u[1] = r /\ u[2] = "Destination"
  BY <1>1 DEF ApiInv, Points, PointsAt, Asks
<1>4. \A row \in rows : Own(r, row) => loc[r].pipeline \in row.above \cup {row.uuid}
  BY <1>1 DEF ApiInv, WithdrawalOf, Asks
<1> QED
  BY <1>1, <1>2, <1>3, <1>4

LEMMA LinkArchiveStep ==
  ASSUME ApiInv, NEW r \in Request, LinkArchive(r), batch' = batch, EngineUnchanged
  PROVE  Step(r)
<1>1. pc[r] = "link_archives" /\ UNCHANGED <<secrets, rollbacks>>
  BY DEF LinkArchive, At
<1>2. "bad_request" \in Answers \ {"none"}
  BY DEF Answers
<1>3. CASE Withdraw(r, "bad_request")
  BY <1>1, <1>2, <1>3, WithdrawStep
<1>4. ASSUME NEW id \in loc[r].rest, NEW found, found = Find("Archive", id, loc[r].target),
             Insertable(LinkRow(r, found)), Insert(LinkRow(r, found)),
             Keep(r, "rest", loc[r].rest \ {id}), UNCHANGED <<pc, reply>>
      PROVE  Step(r)
  <2> DEFINE locals == [loc[r] EXCEPT !.rest = loc[r].rest \ {id}]
  <2>1. Moves(r, "link_archives", locals)
    BY <1>1, <1>4 DEF Moves, Frame, Keep, ApiInv, Control
  <2>2. /\ IsLocals(locals) /\ locals.pipeline = loc[r].pipeline
        /\ locals.rest = loc[r].rest \ {id} /\ locals.authn = loc[r].authn
        /\ locals.context = loc[r].context /\ locals.destination = loc[r].destination
    BY <1>1, InLinking DEF IsLocals
  <2>3. PICK n, new, keys :
           /\ n = Cardinality(loc[r].rest) /\ new = LinkRow(r, found)
           /\ keys = {loc[r].pipeline} \cup {a.uuid : a \in found}
    OBVIOUS
  <2>4. /\ new = NewRow("PipelineArchive", New(r, "PipelineArchive", n), "none", "none", "none", keys)
        /\ Insert(new) /\ Insertable(new)
    BY <1>4, <2>3 DEF LinkRow
  <2>5. /\ IsFiniteSet(loc[r].rest \ {id}) /\ n \in Nat \ {0}
        /\ Cardinality(loc[r].rest \ {id}) = n - 1
    <3>1. IsFiniteSet(loc[r].rest)
      BY <1>1, InLinking
    <3>2. /\ IsFiniteSet(loc[r].rest \ {id})
          /\ Cardinality(loc[r].rest \ {id}) = Cardinality(loc[r].rest) - 1
      BY <3>1, FS_RemoveElement
    <3>3. Cardinality(loc[r].rest) \in Nat /\ Cardinality(loc[r].rest \ {id}) \in Nat
      BY <3>1, <3>2, FS_CardinalityType
    <3> QED
      BY <2>3, <3>2, <3>3
  <2> HIDE DEF locals
  <2>6. pc'[r] = "link_archives" /\ loc'[r] = locals /\ Ask(r)' = Ask(r)
    BY <2>1 DEF Moves, Ask
  <2>7. /\ Ahead(r, "PipelineArchive", n) /\ ~Ahead(r, "PipelineArchive", n)' /\ Advances(r)
    <3>1. Cardinality(loc[r].rest) = n /\ Cardinality(loc'[r].rest) = n - 1
      BY <2>2, <2>3, <2>5, <2>6
    <3> QED
      BY <1>1, <2>5, <2>6, <3>1
         DEF Ahead, Advances, Operation, Reads, CreatesTask, EngineUnchanged, OfTask
  <2>8. \A k \in keys : k[2] \in {"Pipeline", "Archive"}
    <3>1. \A a \in found : a.uuid[2] = "Archive"
      BY <1>4, Found DEF Find, Under
    <3> QED
      BY <1>1, <2>3, <3>1, InLinking
  <2>9. "PipelineArchive" \in Table /\ \A k \in keys : <<"PipelineArchive", k[2]>> \in Hangs
    BY <2>8 DEF Table, Hangs
  <2>10. /\ Effect(r) /\ RunsKept /\ SecretSteps(r) /\ rows' = rows \cup {new}
         /\ new.above = Above(keys)
    BY <1>1, <2>4, <2>6, <2>7, <2>8, <2>9, RowInserted
  <2>11. Points(r)'
    BY <1>1, <2>2, <2>6, InLinking DEF Points, PointsAt, Creating, CreatesTask
  <2>12. \A x \in rows' : Own(r, x) => locals.pipeline \in x.above \cup {x.uuid}
    BY <1>1, <2>2, <2>3, <2>10, InLinking DEF Above
  <2>13. <<Ask(r).op, "link_archives">> \in Flows /\ Registers(r)
    BY <1>1, InLinking DEF Flows, Registers
  <2> QED
    BY <1>1, <2>1, <2>2, <2>5, <2>7, <2>10, <2>11, <2>12, <2>13, GoStep DEF CreatesTask
<1> QED
  BY <1>1, <1>3, <1>4 DEF LinkArchive

LEMMA EtlTaskTypes ==
  ASSUME ApiInv, NEW r \in Request
  PROVE  EtlTasks(r) \in Seq(EtlAsked)
<1>1. Ask(r).jobs \in 0 .. 2
  BY BatchesAssumption DEF ApiInv, Control, Ask
<1>2. \A id \in {"etl_job_1", "etl_job_2"} : EtlTask(id, "tapis_job") \in EtlAsked
  BY DEF EtlTask, EtlAsked
<1>3. \A i \in 1 .. Ask(r).jobs : <<"etl_job_1", "etl_job_2">>[i] \in {"etl_job_1", "etl_job_2"}
  BY <1>1
<1>4. [i \in 1 .. Ask(r).jobs |-> EtlTask(<<"etl_job_1", "etl_job_2">>[i], "tapis_job")]
         \in Seq(EtlAsked)
  BY <1>1, <1>2, <1>3
<1>5. /\ EtlTask("gen-inbound-manifests", "template") \in EtlAsked
      /\ EtlTask("inbound-status-reduce", "template") \in EtlAsked
  BY DEF EtlTask, EtlAsked
<1>6. <<EtlTask("gen-inbound-manifests", "template"), EtlTask("inbound-status-reduce", "template")>>
         \in Seq(EtlAsked)
  BY <1>5
<1>7. \A a, b \in Seq(EtlAsked) : a \o b \in Seq(EtlAsked)
  OBVIOUS
<1>8. PICK a, b \in Seq(EtlAsked) :
         /\ a = [i \in 1 .. Ask(r).jobs |-> EtlTask(<<"etl_job_1", "etl_job_2">>[i], "tapis_job")]
         /\ b = <<EtlTask("gen-inbound-manifests", "template"),
                  EtlTask("inbound-status-reduce", "template")>>
  BY <1>4, <1>6
<1>9. EtlTasks(r) = a \o b
  BY <1>8, Zenon DEF EtlTasks
<1> QED
  BY <1>7, <1>9

LEMMA BuildTasksStep ==
  ASSUME ApiInv, NEW r \in Request, BuildTasks(r), batch' = batch, EngineUnchanged
  PROVE  Step(r)
<1> DEFINE todo == IF Ask(r).kind = "etl" THEN EtlTasks(r) ELSE Ask(r).tasks
           locals == [loc[r] EXCEPT !.todo = todo]
           label == TaskLabel(todo)
           Going == Goto(r, TaskLabel(todo)) /\ Keep(r, "todo", todo) /\ UNCHANGED rows
<1>1. pc[r] = "link_archives" /\ UNCHANGED <<secrets, rollbacks>>
  BY DEF BuildTasks, At
<1>2. "bad_request" \in Answers \ {"none"} /\ "server_error" \in Answers \ {"none"}
  BY DEF Answers
<1>3. CASE Withdraw(r, "bad_request") \/ Withdraw(r, "server_error")
  BY <1>1, <1>2, <1>3, WithdrawStep
<1>4. CASE Going
  <2>1. todo \in Seq(TaskAsked) \/ todo \in Seq(EtlAsked)
    BY BatchesAssumption, EtlTaskTypes DEF ApiInv, Control, Ask
  <2>2. todo \in Seq(UserAsked \cup TaskAsked \cup EtlAsked)
    BY <2>1
  <2>3. Moves(r, label, locals)
    BY <1>4 DEF Goto, Keep, Moves, Frame, ApiInv, Control
  <2> HIDE DEF todo
  <2>4. /\ IsLocals(locals) /\ locals.pipeline = loc[r].pipeline
        /\ locals.todo = todo /\ locals.authn = loc[r].authn
        /\ locals.context = loc[r].context /\ locals.destination = loc[r].destination
    BY <1>1, <2>2, InLinking DEF IsLocals
  <2>5. label \in {"created", "authn", "make_task"} /\ (label # "created" => todo # <<>>)
    BY TaskLabels
  <2> HIDE DEF locals, label
  <2>6. pc'[r] = label /\ loc'[r] = locals /\ Ask(r)' = Ask(r)
    BY <2>3 DEF Moves, Ask
  <2>7. Points(r)'
    BY <1>1, <2>4, <2>5, <2>6, InLinking DEF Points, PointsAt, Creating, CreatesTask
  <2>8. Advances(r)
    BY <1>1, <2>5, <2>6 DEF Ahead, AheadInTask, Advances, Operation, Reads, CreatesTask,
                            EngineUnchanged, OfTask
  <2>9. Effect(r) /\ SecretSteps(r) /\ RunsKept /\ Registers(r)
    BY <1>1, <1>4, <2>5, <2>6, RowsUnchanged DEF Registers
  <2>10. <<Ask(r).op, label>> \in Flows
    BY <1>1, <2>5, InLinking DEF Flows, Creating, CreatesTask
  <2>11. \A x \in rows' : Own(r, x) => locals.pipeline \in x.above \cup {x.uuid}
    BY <1>1, <1>4, <2>4, InLinking
  <2>12. /\ label \notin {"link_archives", "create_admin", "drop_secret", "delete_user",
                          "create_identity"}
         /\ label \in CreatesTask => locals.todo # <<>>
    BY <2>4, <2>5 DEF CreatesTask
  <2> QED
    BY <1>1, <2>3, <2>4, <2>7, <2>8, <2>9, <2>10, <2>11, <2>12, GoStep
<1>5. \/ Withdraw(r, "bad_request") \/ Withdraw(r, "server_error") \/ Going
  <2> DEFINE A == Withdraw(r, "bad_request")
             B == Withdraw(r, "server_error")
             f == Ask(r).fault
  <2>1. (CASE f = "job" -> A [] f = "template" -> B [] OTHER -> Going)
    BY DEF BuildTasks
  <2> HIDE DEF A, B, f, Going
  <2>2. A \/ B \/ Going
    BY <2>1, Zenon
  <2> QED
    BY <2>2 DEF A, B
<1> QED
  BY <1>3, <1>4, <1>5

-----------------------------------------------------------------------------
(***************************************************************************)
(* Updates, and the way of a run to the engine                             *)
(***************************************************************************)
LEMMA Revised ==
  ASSUME Sound, NEW f, rows' = {f[row] : row \in rows},
         \A row \in rows : Alike(row, f[row]) /\ (row.table \in Accounts => f[row] = row)
  PROVE  Revises
<1>1. ASSUME NEW a \in rows', NEW b \in rows', a.uuid = b.uuid PROVE a = b
  <2>1. PICK x \in rows : a = f[x]
    OBVIOUS
  <2>2. PICK y \in rows : b = f[y]
    OBVIOUS
  <2>3. x.uuid = y.uuid
    BY <1>1, <2>1, <2>2 DEF Alike
  <2> QED
    BY <2>1, <2>2, <2>3 DEF Sound, Identified
<1>2. ASSUME NEW row \in rows', row.table \in Accounts PROVE row \in rows
  <2>1. PICK x \in rows : row = f[x]
    OBVIOUS
  <2> QED
    BY <1>2, <2>1 DEF Alike
<1> QED
  BY <1>1, <1>2 DEF Revises

LEMMA RowsUpdated ==
  ASSUME ApiInv, NEW r \in Request, NEW f, rows' = {f[row] : row \in rows}, UNCHANGED secrets,
         \A row \in rows : Alike(row, f[row]) /\ (row.table \in Accounts => f[row] = row),
         \A row \in rows : row.table = "PipelineRun" => f[row].value = row.value,
         pc'[r] \notin {"identity_credentials", "save_credentials"}
  PROVE  Effect(r) /\ SecretSteps(r) /\ RunsKept
<1>1. Revises
  BY Revised DEF ApiInv
<1>2. Effect(r)
  BY <1>1 DEF Effect
<1>3. SecretSteps(r)
  BY DEF SecretSteps, Alike, Uuids
<1>4. RunsKept
  BY DEF RunsKept, Alike
<1> QED
  BY <1>2, <1>3, <1>4

LEMMA SetOwnerStep ==
  ASSUME ApiInv, NEW r \in Request, SetOwner(r), batch' = batch, EngineUnchanged
  PROVE  Step(r)
<1>1. /\ pc[r] = "set_owner" /\ UNCHANGED <<secrets, rollbacks>> /\ Answer(r, "ok")
      /\ "ok" \in Answers \ {"none"}
  BY DEF SetOwner, At, Answers
<1>2. ~Asks(r, "pipelines_post") /\ pc'[r] = "done"
  BY <1>1, OpOf, AnswerMoves
     DEF Asks, Flows, Creating, CreatesTask, Operation, Reads, EngineUnchanged
<1>3. PICK found, x : found = Find("Pipeline", Ask(r).pipeline, loc[r].target) /\ x = Ask(r).target
  OBVIOUS
<1>4. \A row \in found : row.table = "Pipeline"
  BY <1>3 DEF Find, Under, Rows
<1>5. PICK f : f = [row \in rows |-> IF row \in found THEN [row EXCEPT !.owner = x] ELSE row]
  OBVIOUS
<1>6. rows' = {f[row] : row \in rows}
  BY <1>3, <1>5 DEF SetOwner
<1>7. ASSUME NEW row \in rows
      PROVE  /\ Alike(row, f[row]) /\ (row.table \in Accounts => f[row] = row)
             /\ row.table = "PipelineRun" => f[row].value = row.value
  <2>1. IsRow(row) /\ Alike(row, row)
    BY DEF ApiInv, Sound, Identified, Alike
  <2>2. CASE row \notin found
    BY <1>5, <2>1, <2>2
  <2>3. CASE row \in found
    BY <1>4, <1>5, <2>1, <2>3, FieldUpdates DEF Accounts
  <2> QED
    BY <2>2, <2>3
<1>8. Effect(r) /\ SecretSteps(r) /\ RunsKept
  BY <1>1, <1>2, <1>6, <1>7, RowsUpdated
<1> QED
  BY <1>1, <1>2, <1>8, NotWithdrawn, AnswerStep DEF EngineUnchanged

\* A request that dispatches a run.
LEMMA InDispatch ==
  ASSUME ApiInv, NEW r \in Request, pc[r] \in {"create_run", "read_current", "set_current", "publish"}
  PROVE  /\ ~Asks(r, "pipelines_post") /\ Ask(r).op = "run" /\ IsLocals(loc[r])
         /\ pc[r] # "publish" => loc[r].pipeline[2] = "Pipeline"
  BY OpOf DEF Asks, Flows, Creating, CreatesTask, Operation, Reads, ApiInv, Points, PointsAt

LEMMA CreateRunStep ==
  ASSUME ApiInv, NEW r \in Request, CreateRun(r), batch' = batch
  PROVE  Step(r)
<1> DEFINE row == NewRow("PipelineRun", RunOf(r), "none", "none", "submitted", {loc[r].pipeline})
<1>1. /\ pc[r] = "create_run" /\ UNCHANGED <<secrets, rollbacks>> /\ EngineUnchanged
      /\ "server_error" \in Answers \ {"none"}
  BY DEF CreateRun, At, Answers
<1>2. ~Asks(r, "pipelines_post") /\ Ask(r).op = "run" /\ IsLocals(loc[r])
      /\ loc[r].pipeline[2] = "Pipeline"
  BY <1>1, InDispatch
<1>3. CASE Answer(r, "server_error") /\ UNCHANGED rows
  BY <1>1, <1>2, <1>3, PlainAnswer
<1>4. CASE Insertable(row) /\ Insert(row) /\ Goto(r, "read_current") /\ UNCHANGED loc
  <2>1. Moves(r, "read_current", loc[r])
    BY <1>4 DEF Moves, Frame, Goto, ApiInv, Control
  <2>2. PICK new, keys : new = row /\ keys = {loc[r].pipeline}
    OBVIOUS
  <2>3. /\ new = NewRow("PipelineRun", New(r, "PipelineRun", 1), "none", "none", "submitted", keys)
        /\ Insert(new) /\ Insertable(new)
    BY <1>4, <2>2 DEF RunOf
  <2> HIDE DEF row
  <2>4. pc'[r] = "read_current" /\ loc'[r] = loc[r]
    BY <2>1 DEF Moves
  <2>5. Ahead(r, "PipelineRun", 1) /\ ~Ahead(r, "PipelineRun", 1)' /\ Advances(r)
    BY <1>1, <2>4 DEF Ahead, AheadInTask, Advances, Operation, Reads, CreatesTask, EngineUnchanged,
                      OfTask
  <2>6. "PipelineRun" \in Table /\ \A k \in keys : <<"PipelineRun", k[2]>> \in Hangs
    BY <1>2, <2>2 DEF Table, Hangs
  <2>7. Effect(r) /\ RunsKept /\ SecretSteps(r)
    BY <1>1, <1>2, <2>2, <2>3, <2>4, <2>5, <2>6, RowInserted
  <2>8. Points(r)' /\ Registers(r)
    BY <1>1, <1>2, <2>4 DEF Points, PointsAt, Creating, CreatesTask, Asks, Registers
  <2>9. <<Ask(r).op, "read_current">> \in Flows
    BY <1>2 DEF Flows
  <2> QED
    BY <1>1, <1>2, <2>1, <2>5, <2>7, <2>8, <2>9, GoStep DEF CreatesTask
<1> QED
  BY <1>3, <1>4 DEF CreateRun

LEMMA ReadCurrentStep ==
  ASSUME ApiInv, NEW r \in Request, ReadCurrent(r), batch' = batch
  PROVE  Step(r)
<1> DEFINE current == RowOf(loc[r].pipeline).current
<1>1. /\ pc[r] = "read_current" /\ UNCHANGED <<rows, secrets, rollbacks>> /\ EngineUnchanged
      /\ "server_error" \in Answers \ {"none"}
  BY DEF ReadCurrent, At, Answers
<1>2. ~Asks(r, "pipelines_post") /\ Ask(r).op = "run" /\ IsLocals(loc[r])
      /\ loc[r].pipeline[2] = "Pipeline"
  BY <1>1, InDispatch
<1>3. CASE Answer(r, "server_error")
  BY <1>1, <1>2, <1>3, PlainAnswer
<1>4. CASE Goto(r, "set_current") /\ Keep(r, "target", current)
  <2> HIDE DEF current
  <2>1. PICK locals : locals = [loc[r] EXCEPT !.target = current]
    OBVIOUS
  <2>2. Moves(r, "set_current", locals)
    BY <1>4, <2>1 DEF Moves, Frame, Goto, Keep, ApiInv, Control
  <2>3. IsLocals(locals) /\ locals.pipeline = loc[r].pipeline
    BY <1>2, <2>1 DEF IsLocals
  <2>4. pc'[r] = "set_current" /\ loc'[r] = locals
    BY <2>2 DEF Moves
  <2>5. Advances(r) /\ Registers(r)
    BY <1>1, <2>4 DEF Ahead, AheadInTask, Advances, Operation, Reads, CreatesTask, EngineUnchanged,
                      OfTask, Registers
  <2>6. Effect(r) /\ RunsKept /\ SecretSteps(r)
    BY <1>1, <2>4, RowsUnchanged
  <2>7. Points(r)' /\ <<Ask(r).op, "set_current">> \in Flows
    BY <1>1, <1>2, <2>3, <2>4 DEF Points, PointsAt, Creating, CreatesTask, Asks, Flows
  <2> QED
    BY <1>1, <1>2, <2>2, <2>3, <2>5, <2>6, <2>7, GoStep DEF CreatesTask
<1> QED
  BY <1>3, <1>4 DEF ReadCurrent

LEMMA SetCurrentStep ==
  ASSUME ApiInv, NEW r \in Request, SetCurrent(r), batch' = batch
  PROVE  Step(r)
<1>1. /\ pc[r] = "set_current" /\ UNCHANGED <<secrets, rollbacks>> /\ EngineUnchanged
  BY DEF SetCurrent, At
<1>2. ~Asks(r, "pipelines_post") /\ Ask(r).op = "run" /\ IsLocals(loc[r])
      /\ loc[r].pipeline[2] = "Pipeline"
  BY <1>1, InDispatch
<1>3. Moves(r, "publish", loc[r])
  BY DEF SetCurrent, Moves, Frame, Goto, ApiInv, Control
<1>4. pc'[r] = "publish" /\ loc'[r] = loc[r]
  BY <1>3 DEF Moves
<1>5. PICK pipeline, run, before :
         pipeline = loc[r].pipeline /\ run = RunOf(r) /\ before = loc[r].target
  OBVIOUS
<1>6. PICK f : f = [row \in rows |->
                       IF row.uuid = pipeline THEN Chained(row, run, before) ELSE row]
  OBVIOUS
<1>7. rows' = {f[row] : row \in rows}
  BY <1>5, <1>6 DEF SetCurrent
<1>8. ASSUME NEW row \in rows
      PROVE  /\ Alike(row, f[row]) /\ (row.table \in Accounts => f[row] = row)
             /\ row.table = "PipelineRun" => f[row].value = row.value
  <2>1. IsRow(row) /\ Alike(row, row) /\ row.uuid[2] = row.table
    BY DEF ApiInv, Sound, Identified, Alike
  <2>2. CASE row.uuid # pipeline
    BY <1>6, <2>1, <2>2
  <2>3. CASE row.uuid = pipeline
    <3>1. PICK last, new : new = f[row] /\ new = [row EXCEPT !.current = run, !.last = last]
      BY <1>6, <2>3 DEF Chained
    <3>2. new = [row EXCEPT !.current = run, !.last = last] => Alike(row, new)
      BY <2>1, FieldUpdates
    <3>3. row.table = "Pipeline"
      BY <1>2, <1>5, <2>1, <2>3
    <3> QED
      BY <3>1, <3>2, <3>3 DEF Accounts
  <2> QED
    BY <2>2, <2>3
<1>9. Effect(r) /\ SecretSteps(r) /\ RunsKept
  BY <1>1, <1>4, <1>7, <1>8, RowsUpdated
<1>10. Advances(r) /\ Registers(r)
  BY <1>1, <1>4 DEF Ahead, AheadInTask, Advances, Operation, Reads, CreatesTask, EngineUnchanged,
                    OfTask, Registers
<1>11. Points(r)' /\ <<Ask(r).op, "publish">> \in Flows
  BY <1>2, <1>4 DEF Points, PointsAt, Creating, CreatesTask, Asks, Flows
<1> QED
  BY <1>1, <1>2, <1>3, <1>9, <1>10, <1>11, GoStep DEF CreatesTask

LEMMA PublishStep ==
  ASSUME ApiInv, NEW r \in Request, Publish(r), batch' = batch
  PROVE  Step(r)
<1>1. /\ pc[r] = "publish" /\ UNCHANGED <<rows, secrets, rollbacks, reports>>
      /\ "server_error" \in Answers \ {"none"} /\ "ok" \in Answers \ {"none"}
  BY DEF Publish, At, Answers
<1>2. ~Asks(r, "pipelines_post")
  BY <1>1, InDispatch
<1>3. CASE Answer(r, "server_error") /\ UNCHANGED engine
  BY <1>1, <1>2, <1>3, PlainAnswer DEF EngineUnchanged
<1>4. ASSUME NEW rest, Answer(r, "ok"),
             engine' = [engine EXCEPT ![r] =
                [Unpublished EXCEPT !.stage = "queued", !.tasks = rest, !.waiting = rest]]
      PROVE  Step(r)
  <2>1. /\ Frame(r) /\ Placed(r)' /\ Points(r)' /\ Aims(r)
        /\ pc'[r] = "done" /\ reply'[r] = "ok" /\ loc' = loc
    BY <1>1, <1>4, AnswerMoves
  <2>2. /\ DOMAIN engine' = Request /\ \A q \in Request \ {r} : engine'[q] = engine[q]
        /\ engine'[r] = [Unpublished EXCEPT !.stage = "queued", !.tasks = rest, !.waiting = rest]
    BY <1>4 DEF ApiInv, Reporting
  <2>3. EngineKept(r)
    BY <1>1, <2>1, <2>2 DEF EngineKept
  <2>4. Advances(r)
    BY <1>1, <2>1 DEF Advances, Ahead, AheadInTask, CreatesTask, Operation, Reads
  <2>5. Effect(r) /\ SecretSteps(r) /\ RunsKept
    BY <1>1, <2>1, RowsUnchanged
  <2>6. Registers(r) /\ GroupSteps(r) /\ WithdrawalOf(r)'
    BY <1>1, <1>2, <2>1, NotWithdrawn DEF Registers, GroupSteps
  <2> QED
    BY <2>1, <2>3, <2>4, <2>5, <2>6 DEF Step
<1> QED
  BY <1>3, <1>4 DEF Publish

\* Whatever a request does in its view.
LEMMA ServeStep ==
  ASSUME ApiInv, NEW r \in Request, Serve(r)
  PROVE  Step(r)
<1>1. batch' = batch
  BY DEF Serve
<1>2. CASE Authenticate(r) /\ UNCHANGED rollbacks /\ EngineUnchanged
  BY <1>1, <1>2, AuthenticateStep
<1>3. CASE CreateTask(r) /\ EngineUnchanged
  BY <1>1, <1>3, UseIdentityStep, WriteSecretStep, SaveCredentialsStep, MakeHalfStep, MakeTaskStep,
     RollbackStep, RollbackRowStep, RollbackDoneStep DEF CreateTask
<1>4. CASE PipelineStep(r) /\ EngineUnchanged
  BY <1>1, <1>3, <1>4, PostPipelineStep, CreatePipelineStep, LinkArchiveStep, BuildTasksStep,
     CreatedStep, FailedStep, DeletePipelineStep, DeleteTasksStep, ChangeOwnerStep, SetOwnerStep,
     ChangeArchiveStep, AddLinkStep, RemoveLinkStep, PostTaskStep, PutTaskStep, DeleteTaskStep,
     RemoveTaskStep DEF PipelineStep
<1>5. CASE AccountStep(r) /\ EngineUnchanged
  BY <1>1, <1>5, PostGroupStep, CreateGroupStep, CreateAdminStep, CreateUsersStep, PostUserStep,
     CreateUserStep, PatchUserStep, DeleteUserStep, RemoveUserStep, PostIdentityStep,
     IdentitySecretStep, IdentityCredentialsStep, CreateIdentityStep, DeleteIdentityStep,
     DropSecretStep, DropRowStep, PostArchiveStep, CreateArchiveStep, DeleteArchiveStep, RemoveArchiveStep
     DEF AccountStep
<1>6. CASE ReadStep(r) /\ EngineUnchanged
  BY <1>1, <1>6, ReadStepStep
<1>7. CASE DispatchStep(r)
  BY <1>1, <1>7, RunPipelineStep, CreateRunStep, ReadCurrentStep, SetCurrentStep, PublishStep
     DEF DispatchStep
<1> QED
  BY <1>2, <1>4, <1>5, <1>6, <1>7 DEF Serve, ViewStep

\* The row of a secret that was deleted goes, unless that call fails.
LEMMA ServeMarks ==
  ASSUME ApiInv, NEW r \in Request, Serve(r)
  PROVE  Marks(r)
<1>1. CASE DropRow(r) /\ batch' = batch
  <2>1. /\ pc[r] = "drop_row" /\ pc'[r] = "done" /\ loc' = loc /\ rollbacks' = rollbacks
        /\ Ask(r)' = Ask(r)
    BY <1>1 DEF DropRow, At, Answer, ApiInv, Control, Ask
  <2>2. CASE Ask(r).fault = "undo_row"
    BY <2>1, <2>2 DEF Marks, CutShort, At
  <2>3. CASE Ask(r).fault # "undo_row"
    <3>1. \A row \in rows' : row.uuid \notin {loc[r].target}
      BY <1>1, <2>3, DeleteSound DEF DropRow, ApiInv
    <3> QED
      BY <2>1, <2>3, <3>1 DEF Marks, CutShort, At
  <2> QED
    BY <2>2, <2>3
<1>2. CASE RollbackRow(r) /\ batch' = batch
  <2>1. /\ pc[r] = "rollback_row" /\ rollbacks' = rollbacks /\ Ask(r)' = Ask(r)
        /\ loc[r].undone < Len(rollbacks[Ask(r).worker])
    BY <1>2 DEF RollbackRow, At, ApiInv, Points, PointsAt, Ask
  <2>2. loc[r].undone + 1 \in DOMAIN rollbacks[Ask(r).worker]
    BY <2>1, EntryKnown
  <2>3. CASE Ask(r).fault = "undo_row"
    BY <2>1, <2>2, <2>3 DEF Marks, CutShort, At, Entry
  <2>4. CASE Ask(r).fault # "undo_row"
    <3>1. \A row \in rows' : row.uuid \notin {Entry(r).uuid}
      BY <1>2, <2>4, DeleteSound DEF RollbackRow, Undone, ApiInv
    <3> QED
      BY <2>1, <2>4, <3>1 DEF Marks, CutShort, At
  <2> QED
    BY <2>3, <2>4
<1>3. CASE pc[r] \notin {"drop_row", "rollback_row", "done"}
  BY <1>3 DEF Marks
<1>4. CASE Authenticate(r)
  BY <1>3, <1>4 DEF Authenticate
<1>5. CASE CreateTask(r) /\ ~RollbackRow(r)
  BY <1>3, <1>5 DEF CreateTask, UseIdentity, WriteSecret, SaveCredentials, MakeHalf, MakeTask,
                    Rollback, RollbackDone, At
<1>6. CASE PipelineStep(r) /\ ~CreateTask(r)
  BY <1>3, <1>6
     DEF PipelineStep, PostPipeline, CreatePipeline, LinkArchive, BuildTasks, Created, Failed,
         DeletePipeline, DeleteTasks, ChangeOwner, SetOwner, ChangeArchive, AddLink, RemoveLink,
         PostTask, PutTask, DeleteTask, RemoveTask, At
<1>7. CASE AccountStep(r) /\ ~DropRow(r)
  BY <1>3, <1>7
     DEF AccountStep, PostGroup, CreateGroup, CreateAdmin, CreateUsers, PostUser, CreateUser,
         PatchUser, DeleteUser, RemoveUser, PostIdentity, IdentitySecret, IdentityCredentials,
         CreateIdentity, DeleteIdentity, DropSecret, PostArchive, CreateArchive, DeleteArchive,
         RemoveArchive, At
<1>8. CASE ReadStep(r)
  BY <1>3, <1>8 DEF ReadStep, Reads
<1>9. CASE DispatchStep(r)
  BY <1>3, <1>9 DEF DispatchStep, RunPipeline, CreateRun, ReadCurrent, SetCurrent, Publish, At
<1> QED
  BY <1>1, <1>2, <1>4, <1>5, <1>6, <1>7, <1>8, <1>9 DEF Serve, ViewStep, PipelineStep, CreateTask

-----------------------------------------------------------------------------
(***************************************************************************)
(* Steps of the engine                                                     *)
(***************************************************************************)

\* The engine moves no request; it makes executions of tasks, and the status of runs
\* and executions is all it changes.
EngineMoves(r) ==
    /\ ApiUnchanged /\ batch' = batch
    /\ DOMAIN engine' = Request /\ DOMAIN reports' = Request
    /\ \A q \in Request \ {r} : engine'[q] = engine[q] /\ reports'[q] = reports[q]
    /\ engine'[r].waiting \subseteq engine[r].waiting
    /\ Effect(r)

LEMMA EngineKeeps ==
  ASSUME ApiInv, NEW r \in Request, EngineMoves(r)
  PROVE  /\ Control' /\ Sound' /\ Fresh' /\ Entries' /\ Hanging' /\ Owned' /\ Secrets' /\ Lineage'
         /\ \A q \in Request : Points(q)' /\ WithdrawalOf(q)'
<1>1. Keeps(r) /\ Sound' /\ Hanging' /\ Lineage'
  BY EffectKeeps DEF ApiInv, EngineMoves
<1>2. UNCHANGED <<pc, reply, loc, secrets, rollbacks, batch>>
  BY DEF EngineMoves, ApiUnchanged
<1>3. Control' /\ Entries'
  <2>1. \A q \in Request : Placed(q) => Placed(q)'
    BY <1>2 DEF Placed, Ask
  <2>2. Control'
    BY <1>2, <2>1 DEF ApiInv, Control
  <2>3. Entries'
    BY <1>2 DEF ApiInv, Entries, Ask
  <2> QED
    BY <2>2, <2>3
<1>4. \A q \in Request : \A table, n : Ahead(q, table, n)' => Ahead(q, table, n)
  BY <1>2 DEF EngineMoves, Ahead, AheadInTask
<1>5. \A u \in Uuids' : u \in Uuids \/ (u[1] = r /\ ~Ahead(r, u[2], u[3])')
  BY <1>1 DEF Keeps
<1>6. Held' \subseteq Uuids' \cup Held
  BY <1>2 DEF Held, Registered, Aimed
<1>7. Fresh'
  <2> SUFFICES ASSUME NEW u \in Held', u[1] \in Request, Ahead(u[1], u[2], u[3])' PROVE FALSE
    BY DEF Fresh
  <2>1. Ahead(u[1], u[2], u[3]) /\ u \in Held
    BY <1>4, <1>5, <1>6 DEF Held
  <2> QED
    BY <2>1 DEF ApiInv, Fresh
<1>8. \A u \in Uuids' : u \notin Uuids => u[2] = "TaskExecution"
  BY <1>1, <1>2 DEF Keeps, Ahead, AheadInTask
<1>9. Owned'
  <2>1. \A m \in Rows("GroupUser")' : \E g \in Rows("Group")' : m.above = {g.uuid}
    BY <1>1 DEF Keeps, Rows
  <2>2. ASSUME NEW g \in rows', g.table = "Group" PROVE g \in Rows("Group")
    BY <1>1, <1>2, <2>2 DEF Keeps, Rows
  <2>3. \A g \in Rows("Group") : HasOwner(g) => HasOwner(g)'
    BY <1>1, OwnerKept
  <2> QED
    BY <1>2, <2>1, <2>2, <2>3 DEF ApiInv, Owned, Rows
<1>10. Secrets'
  <2>1. ASSUME NEW k \in rows', k.table = "Credentials"
        PROVE  k.uuid \in secrets \/ \E q \in Request : CutShort(q, k.uuid)
    <3>1. k.uuid \in Uuids
      BY <1>1, <1>8, <2>1 DEF Uuids, Sound, Identified
    <3>2. PICK old \in rows : Alike(old, k)
      BY <1>1, <3>1 DEF Keeps
    <3> QED
      BY <2>1, <3>2 DEF Alike, ApiInv, Secrets, Rows
  <2>2. \A q \in Request : CredentialsOf(q)' = CredentialsOf(q)
    BY <1>2 DEF CredentialsOf, Number
  <2>3. \A q \in Request : \A u : CutShort(q, u)' <=> CutShort(q, u)
    BY <1>2 DEF CutShort, At, Ask, Entry
  <2> QED
    BY <1>2, <2>1, <2>2, <2>3 DEF ApiInv, Secrets, Rows
<1>11. \A q \in Request : Points(q)' /\ WithdrawalOf(q)'
  <2>1. \A q \in Request : pc[q] = "rollback_row" =>
           loc[q].undone < Len(rollbacks'[Ask(q).worker])
    BY <1>2 DEF ApiInv, Points, PointsAt
  <2> QED
    BY <1>1, <1>2, <1>8, <2>1, Still
<1> QED
  BY <1>1, <1>3, <1>7, <1>9, <1>10, <1>11

\* The status of a run changes when a call about it is handled, to what is reported.
RunsReported(r) ==
    \A run \in rows' : run.table = "PipelineRun" =>
        \/ \E old \in rows : old.table = "PipelineRun" /\ old.uuid = run.uuid /\ old.value = run.value
        \/ run.uuid = RunOf(r) /\ run.value \in reports[r]

\* What is reported has been published.
Tells(e, calls) ==
    /\ IsRun(e) /\ calls \subseteq Final \cup {"active"}
    /\ ~e.killed =>
          /\ e.ends \subseteq {"completed", "failed"} /\ calls \subseteq e.ends \cup {"active"}
          /\ e.stage \notin {"rejected", "running"} => e.ends = {}
          /\ "active" \in calls => e.stage = "starting"

LEMMA EngineReports ==
  ASSUME ApiInv, NEW r \in Request, EngineMoves(r), RunsReported(r), pc[r] = "done",
         Tells(engine'[r], reports'[r]), engine[r].killed => engine'[r].killed,
         ~engine'[r].killed => engine[r].ends \subseteq engine'[r].ends
  PROVE  ApiInv'
<1>1. pc' = pc
  BY DEF EngineMoves, ApiUnchanged
<1>2. ASSUME NEW q \in Request, NEW run \in rows', run.table = "PipelineRun", run.uuid = RunOf(q),
             run.value \in Final, ~engine'[q].killed
      PROVE  run.value \in engine'[q].ends
  <2>1. CASE \E old \in rows : /\ old.table = "PipelineRun" /\ old.uuid = run.uuid
                               /\ old.value = run.value
    <3>1. engine[q].killed \/ run.value \in engine[q].ends
      BY <1>2, <2>1 DEF ApiInv, Reporting, ReportedOf, Rows
    <3> QED
      BY <1>2, <3>1 DEF EngineMoves
  <2>2. CASE run.uuid = RunOf(r) /\ run.value \in reports[r]
    <3>1. q = r
      BY <1>2, <2>2 DEF RunOf, New
    <3>2. ~engine[r].killed
      BY <1>2, <3>1
    <3>3. run.value \in engine[r].ends
      BY <1>2, <2>2, <3>2 DEF ApiInv, Reporting, ReportedOf, Final
    <3> QED
      BY <1>2, <3>1, <3>3
  <2> QED
    BY <1>2, <2>1, <2>2 DEF RunsReported
<1>3. ASSUME NEW q \in Request PROVE ReportedOf(q)'
  <2>1. CASE q = r
    BY <1>1, <1>2, <2>1 DEF ReportedOf, Rows, Tells
  <2>2. CASE q # r
    <3>1. engine'[q] = engine[q] /\ reports'[q] = reports[q]
      BY <2>2 DEF EngineMoves
    <3> QED
      BY <1>1, <1>2, <3>1 DEF ApiInv, Reporting, ReportedOf, Rows
  <2> QED
    BY <2>1, <2>2
<1>4. Reporting'
  BY <1>3 DEF EngineMoves, Reporting
<1> QED
  BY <1>4, EngineKeeps DEF ApiInv

\* Where every step of the engine begins.
LEMMA EngineAt ==
  ASSUME ApiInv, NEW r \in Request
  PROVE  /\ DOMAIN engine = Request /\ DOMAIN reports = Request /\ ReportedOf(r)
         /\ Tells(engine[r], reports[r]) /\ IsRun(engine[r])
         /\ engine[r] # Unpublished \/ reports[r] # {} => pc[r] = "done"
  BY DEF ApiInv, Reporting, ReportedOf, Tells

LEMMA TakeStep ==
  ASSUME ApiInv, NEW r \in Request, Take(r), batch' = batch
  PROVE  ApiInv' /\ RunsReported(r)
<1> DEFINE e == engine[r]
<1>1. /\ e.stage = "queued" /\ rows' = rows /\ ApiUnchanged
      /\ DOMAIN engine = Request /\ DOMAIN reports = Request /\ Tells(e, reports[r]) /\ IsRun(e)
  BY EngineAt DEF Take, Stage
<1>2. pc[r] = "done"
  BY <1>1, EngineAt DEF Unpublished
<1> HIDE DEF e
<1>3. PICK stage, calls, f :
         /\ \/ f = [e EXCEPT !.stage = "over"] /\ calls = reports[r] /\ stage = "over"
            \/ /\ f = [e EXCEPT !.stage = "rejected", !.handler = TRUE, !.ends = {"failed"}]
               /\ calls = reports[r] \cup {"failed"} /\ stage = "rejected"
            \/ /\ f = [e EXCEPT !.stage = "starting", !.handler = TRUE]
               /\ calls = reports[r] \cup {"active"} /\ stage = "starting"
         /\ engine' = [engine EXCEPT ![r] = f] /\ reports'[r] = calls
         /\ DOMAIN reports' = Request /\ \A q \in Request \ {r} : reports'[q] = reports[q]
  <2>1. CASE Move(r, "over") /\ UNCHANGED reports
    <3>1. PICK f : f = [e EXCEPT !.stage = "over"]
      OBVIOUS
    <3>2. engine' = [engine EXCEPT ![r] = f]
      BY <1>1, <2>1, <3>1 DEF Move, e
    <3>3. PICK calls : calls = reports[r]
      OBVIOUS
    <3> QED
      BY <1>1, <2>1, <3>1, <3>2, <3>3
  <2>2. CASE /\ engine' = [engine EXCEPT ![r].stage = "rejected", ![r].handler = TRUE,
                                         ![r].ends = {"failed"}]
             /\ Report(r, "failed")
    BY <1>1, <2>2 DEF Report, e
  <2>3. CASE /\ engine' = [engine EXCEPT ![r].stage = "starting", ![r].handler = TRUE]
             /\ Report(r, "active")
    BY <1>1, <2>3 DEF Report, e
  <2> QED
    BY <2>1, <2>2, <2>3 DEF Take
<1>4. /\ IsRun(f) /\ f.stage = stage /\ f.killed = e.killed /\ f.waiting = e.waiting
      /\ stage = "rejected" => f.ends = {"failed"}
      /\ stage # "rejected" => f.ends = e.ends
  BY <1>1, <1>3 DEF IsRun, Stages
<1>5. Tells(f, calls) /\ (~e.killed => e.ends \subseteq f.ends)
  BY <1>1, <1>3, <1>4 DEF Tells, Final
<1>6. EngineMoves(r) /\ RunsReported(r) /\ engine'[r] = f /\ reports'[r] = calls
  BY <1>1, <1>3, <1>4 DEF EngineMoves, Effect, RunsReported, e
<1> QED
  BY <1>2, <1>4, <1>5, <1>6, EngineReports DEF e

\* An update writes what is reported, to the run or to nothing.
LEMMA StatusWritten ==
  ASSUME ApiInv, NEW r \in Request, NEW status \in reports[r],
         rows' = WithStatus(r, status) \/ UNCHANGED rows
  PROVE  Effect(r) /\ RunsReported(r)
<1>1. CASE UNCHANGED rows
  BY <1>1 DEF Effect, RunsReported
<1>2. CASE rows' = WithStatus(r, status)
  <2>1. PICK run : run = RunOf(r)
    OBVIOUS
  <2>2. PICK f : f = [x \in rows |-> IF x \in Updated(run) THEN [x EXCEPT !.value = status] ELSE x]
    OBVIOUS
  <2>3. rows' = {f[x] : x \in rows}
    BY <1>2, <2>1, <2>2 DEF WithStatus
  <2>4. ASSUME NEW x \in rows
        PROVE  /\ Alike(x, f[x]) /\ (x.table \in Accounts => f[x] = x)
               /\ f[x] = x \/ (x.uuid = run /\ f[x].value = status)
    <3>1. IsRow(x) /\ Alike(x, x)
      BY DEF ApiInv, Sound, Identified, Alike
    <3>2. CASE x \notin Updated(run)
      BY <2>2, <3>1, <3>2
    <3>3. CASE x \in Updated(run)
      <4>1. x.table = "PipelineRun" /\ x.uuid = run
        BY <3>3 DEF Updated, Rows
      <4>2. f[x].value = status
        BY <2>2, <3>1, <3>3 DEF IsRow
      <4> QED
        BY <2>2, <3>1, <3>3, <4>1, <4>2, FieldUpdates DEF Accounts
    <3> QED
      BY <3>2, <3>3
  <2>5. Effect(r)
    BY <2>3, <2>4, Revised DEF ApiInv, Effect
  <2>6. RunsReported(r)
    BY <2>1, <2>3, <2>4 DEF RunsReported, Alike
  <2> QED
    BY <2>5, <2>6
<1> QED
  BY <1>1, <1>2

LEMMA RunActiveStep ==
  ASSUME ApiInv, NEW r \in Request, RunActive(r), batch' = batch
  PROVE  ApiInv' /\ RunsReported(r)
<1> DEFINE e == engine[r]
<1>1. /\ "active" \in reports[r] /\ ApiUnchanged /\ reports' = [reports EXCEPT ![r] = @ \ {"active"}]
      /\ DOMAIN engine = Request /\ DOMAIN reports = Request /\ Tells(e, reports[r]) /\ IsRun(e)
  BY EngineAt DEF RunActive
<1>2. pc[r] = "done"
  BY <1>1, EngineAt
<1>3. Effect(r) /\ RunsReported(r)
  BY <1>1, StatusWritten DEF RunActive
<1> HIDE DEF e
<1>4. PICK stage, waiting, lost, f :
         /\ f = [e EXCEPT !.stage = stage, !.waiting = waiting, !.lost = lost]
         /\ stage \in {"running", "creating"} /\ waiting \subseteq e.waiting
         /\ engine' = [engine EXCEPT ![r] = f]
  <2>1. CASE Move(r, IF e.waiting = {} THEN "running" ELSE "creating")
    <3>1. PICK stage \in {"running", "creating"} : Move(r, stage)
      BY <2>1
    <3>2. [e EXCEPT !.stage = stage] = [e EXCEPT !.stage = stage, !.waiting = e.waiting, !.lost = e.lost]
      BY <1>1 DEF IsRun
    <3>3. engine' = [engine EXCEPT ![r] = [e EXCEPT !.stage = stage]]
      BY <1>1, <3>1 DEF Move, e
    <3> QED
      BY <3>2, <3>3
  <2>2. CASE engine' = [engine EXCEPT ![r].stage = "running", ![r].waiting = {},
                                      ![r].lost = @ \cup engine[r].tasks]
    <3>1. PICK f : f = [e EXCEPT !.stage = "running", !.waiting = {}, !.lost = @ \cup e.tasks]
      OBVIOUS
    <3>2. engine' = [engine EXCEPT ![r] = f]
      BY <1>1, <2>2, <3>1 DEF e
    <3>3. PICK stage, waiting, lost :
             stage = "running" /\ waiting = {} /\ lost = e.lost \cup e.tasks
      OBVIOUS
    <3>4. f = [e EXCEPT !.stage = stage, !.waiting = waiting, !.lost = lost]
      BY <1>1, <3>1, <3>3 DEF IsRun
    <3>5. stage \in {"running", "creating"} /\ waiting \subseteq e.waiting
      BY <3>3
    <3> QED
      BY <3>2, <3>4, <3>5, Zenon
  <2> QED
    BY <2>1, <2>2 DEF RunActive, e
<1>5. /\ IsRun(f) /\ f.stage = stage /\ f.killed = e.killed /\ f.waiting = waiting
      /\ f.ends = e.ends
  BY <1>1, <1>4 DEF IsRun, Stages
<1>6. Tells(f, reports'[r])
  BY <1>1, <1>4, <1>5 DEF Tells
<1>7. EngineMoves(r) /\ engine'[r] = f
  BY <1>1, <1>3, <1>4, <1>5 DEF EngineMoves, e
<1> QED
  BY <1>2, <1>3, <1>5, <1>6, <1>7, EngineReports DEF e

LEMMA UpdateRunStep ==
  ASSUME ApiInv, NEW r \in Request, NEW status \in Final, UpdateRun(r, status), batch' = batch
  PROVE  ApiInv' /\ RunsReported(r)
<1> DEFINE e == engine[r]
<1>1. /\ status \in reports[r] /\ ApiUnchanged /\ reports' = [reports EXCEPT ![r] = @ \ {status}]
      /\ engine' = [engine EXCEPT ![r].handler = FALSE]
      /\ DOMAIN engine = Request /\ DOMAIN reports = Request /\ Tells(e, reports[r]) /\ IsRun(e)
  BY EngineAt DEF UpdateRun
<1>2. pc[r] = "done"
  BY <1>1, EngineAt
<1>3. Effect(r) /\ RunsReported(r)
  BY <1>1, StatusWritten DEF UpdateRun
<1> HIDE DEF e
<1>4. PICK f : f = [e EXCEPT !.handler = FALSE] /\ engine' = [engine EXCEPT ![r] = f]
  BY <1>1 DEF e
<1>5. /\ IsRun(f) /\ f.stage = e.stage /\ f.killed = e.killed /\ f.waiting = e.waiting
      /\ f.ends = e.ends
  BY <1>1, <1>4 DEF IsRun
<1>6. Tells(f, reports'[r])
  BY <1>1, <1>5 DEF Tells
<1>7. EngineMoves(r) /\ engine'[r] = f
  BY <1>1, <1>3, <1>4, <1>5 DEF EngineMoves, e
<1> QED
  BY <1>2, <1>3, <1>5, <1>6, <1>7, EngineReports DEF e

LEMMA CreateExecutionStep ==
  ASSUME ApiInv, NEW r \in Request, CreateExecution(r), batch' = batch
  PROVE  ApiInv' /\ RunsReported(r)
<1> DEFINE e == engine[r]
<1>1. /\ e.stage = "creating" /\ ApiUnchanged /\ reports' = reports
      /\ DOMAIN engine = Request /\ DOMAIN reports = Request /\ Tells(e, reports[r]) /\ IsRun(e)
  BY EngineAt DEF CreateExecution, Stage
<1>2. pc[r] = "done"
  BY <1>1, EngineAt DEF Unpublished
<1>3. PICK task, lost, found, keys, new :
         /\ task \in e.waiting
         /\ found = IF RunOf(r) \in Uuids
                    THEN UNION {Find("Task", task, p) : p \in PipelineOf(RowOf(RunOf(r)))} ELSE {}
         /\ keys = {RunOf(r)} \cup {t.uuid : t \in found}
         /\ new = NewRow("TaskExecution", ExecutionOf(r, task), "none", "none", "pending", keys)
         /\ IF lost = {} /\ found # {} /\ Insertable(new) THEN Insert(new) ELSE UNCHANGED rows
         /\ engine' = [engine EXCEPT ![r].waiting = @ \ {task}, ![r].lost = @ \cup lost,
                           ![r].stage = IF engine[r].waiting = {task} THEN "running" ELSE @]
  BY DEF CreateExecution
<1> HIDE DEF e
<1>4. PICK stage, f :
         /\ stage = IF e.waiting = {task} THEN "running" ELSE e.stage
         /\ f = [e EXCEPT !.waiting = @ \ {task}, !.lost = @ \cup lost, !.stage = stage]
         /\ engine' = [engine EXCEPT ![r] = f]
  BY <1>1, <1>3 DEF e
<1>5. /\ IsRun(f) /\ f.stage = stage /\ f.killed = e.killed /\ f.ends = e.ends
      /\ f.waiting = e.waiting \ {task} /\ stage \in {"running", "creating"}
  BY <1>1, <1>4 DEF IsRun, Stages
<1>6. /\ engine'[r] = f /\ DOMAIN engine' = Request
      /\ \A q \in Request \ {r} : engine'[q] = engine[q]
  BY <1>1, <1>4
<1>7. Ahead(r, "TaskExecution", task) /\ ~Ahead(r, "TaskExecution", task)'
  <2>1. Ahead(r, "TaskExecution", task)
    BY <1>3 DEF Ahead, e
  <2>2. pc'[r] = "done"
    BY <1>1, <1>2 DEF ApiUnchanged
  <2> QED
    BY <1>5, <1>6, <2>1, <2>2 DEF Ahead, Operation, Reads, CreatesTask
<1>8. ASSUME Insertable(new), Insert(new) PROVE Effect(r) /\ RunsReported(r)
  <2>1. \A k \in keys : k[2] \in {"PipelineRun", "Task"}
    <3>1. \A t \in found : t.uuid[2] = "Task"
      BY <1>3, Found DEF Find, Under
    <3> QED
      BY <1>3, <3>1 DEF RunOf, New
  <2>2. "TaskExecution" \in Table /\ \A k \in keys : <<"TaskExecution", k[2]>> \in Hangs
    BY <2>1 DEF Table, Hangs
  <2>3. new = NewRow("TaskExecution", New(r, "TaskExecution", task), "none", "none", "pending", keys)
    BY <1>3 DEF ExecutionOf
  <2>4. Effect(r) /\ rows' = rows \cup {new} /\ new.table = "TaskExecution"
    BY <1>7, <1>8, <2>1, <2>2, <2>3, RowInserted
  <2> QED
    BY <2>4 DEF RunsReported
<1>9. ASSUME UNCHANGED rows PROVE Effect(r) /\ RunsReported(r)
  BY <1>9 DEF Effect, RunsReported
<1>10. Effect(r) /\ RunsReported(r)
  BY <1>3, <1>8, <1>9
<1>11. EngineMoves(r)
  BY <1>1, <1>5, <1>6, <1>10 DEF EngineMoves, e
<1>12. Tells(f, reports'[r])
  BY <1>1, <1>5 DEF Tells
<1> QED
  BY <1>2, <1>5, <1>6, <1>10, <1>11, <1>12, EngineReports DEF e

\* The status of an execution is that of no run.
LEMMA ExecutionUpdated ==
  ASSUME ApiInv, NEW r \in Request, NEW task, NEW status, UpdateExecution(r, task, status)
  PROVE  Effect(r) /\ RunsReported(r)
<1>1. CASE ~Listening(r)
  <2>1. rows' = rows
    BY <1>1 DEF UpdateExecution
  <2> QED
    BY <2>1 DEF Effect, RunsReported
<1>2. CASE Listening(r)
  <2>1. PICK execution : execution = ExecutionOf(r, task)
    OBVIOUS
  <2>2. PICK f : f = [x \in rows |-> IF x.uuid = execution THEN [x EXCEPT !.value = status] ELSE x]
    OBVIOUS
  <2>3. rows' = {f[x] : x \in rows}
    BY <1>2, <2>1, <2>2 DEF UpdateExecution
  <2>4. ASSUME NEW x \in rows
        PROVE  /\ Alike(x, f[x]) /\ (x.table \in Accounts => f[x] = x)
               /\ (x.table = "PipelineRun" => f[x] = x)
    <3>1. IsRow(x) /\ Alike(x, x) /\ x.uuid[2] = x.table /\ execution[2] = "TaskExecution"
      BY <2>1 DEF ApiInv, Sound, Identified, Alike, ExecutionOf, New
    <3>2. CASE x.uuid # execution
      BY <2>2, <3>1, <3>2
    <3>3. CASE x.uuid = execution
      BY <2>2, <3>1, <3>3, FieldUpdates DEF Accounts
    <3> QED
      BY <3>2, <3>3
  <2>5. Effect(r)
    BY <2>3, <2>4, Revised DEF ApiInv, Effect
  <2>6. RunsReported(r)
    BY <2>3, <2>4 DEF RunsReported, Alike
  <2> QED
    BY <2>5, <2>6
<1> QED
  BY <1>1, <1>2

LEMMA TaskActiveStep ==
  ASSUME ApiInv, NEW r \in Request, TaskActive(r), batch' = batch
  PROVE  ApiInv' /\ RunsReported(r)
<1>1. /\ engine[r].stage = "running" /\ ApiUnchanged /\ engine' = engine /\ reports' = reports
      /\ DOMAIN engine = Request /\ DOMAIN reports = Request /\ Tells(engine[r], reports[r])
  BY EngineAt DEF TaskActive, Stage
<1>2. pc[r] = "done"
  BY <1>1, EngineAt DEF Unpublished
<1>3. PICK task : UpdateExecution(r, task, "active")
  BY DEF TaskActive
<1>4. Effect(r) /\ RunsReported(r)
  BY <1>3, ExecutionUpdated
<1>5. EngineMoves(r)
  BY <1>1, <1>4 DEF EngineMoves
<1> QED
  BY <1>1, <1>2, <1>4, <1>5, EngineReports

LEMMA TaskEndsStep ==
  ASSUME ApiInv, NEW r \in Request, TaskEnds(r), batch' = batch
  PROVE  ApiInv' /\ RunsReported(r)
<1> DEFINE e == engine[r]
<1>1. /\ e.stage = "running" /\ ApiUnchanged /\ reports' = reports
      /\ DOMAIN engine = Request /\ DOMAIN reports = Request /\ Tells(e, reports[r]) /\ IsRun(e)
  BY EngineAt DEF TaskEnds, Stage
<1>2. pc[r] = "done"
  BY <1>1, EngineAt DEF Unpublished
<1>3. PICK task, status, lost :
         /\ IF lost = {} THEN UpdateExecution(r, task, status) ELSE UNCHANGED rows
         /\ engine' = [engine EXCEPT ![r].ended = @ \cup {task}, ![r].lost = @ \cup lost,
                                     ![r].failing = @ \/ status = "failed"]
  BY DEF TaskEnds
<1>4. PICK failing : failing = (e.failing \/ status = "failed")
  OBVIOUS
<1>5. failing \in BOOLEAN
  BY <1>4, Zenon
<1> HIDE DEF e
<1>6. PICK f : f = [e EXCEPT !.ended = @ \cup {task}, !.lost = @ \cup lost, !.failing = failing]
  OBVIOUS
<1>7. engine' = [engine EXCEPT ![r] = f]
  <2>1. engine' = [engine EXCEPT ![r].ended = @ \cup {task}, ![r].lost = @ \cup lost,
                                 ![r].failing = failing]
    BY <1>3, <1>4, Zenon DEF e
  <2> QED
    BY <1>1, <1>6, <2>1 DEF e
<1>8. /\ IsRun(f) /\ f.stage = e.stage /\ f.killed = e.killed /\ f.waiting = e.waiting
      /\ f.ends = e.ends
  BY <1>1, <1>5, <1>6 DEF IsRun
<1>9. Effect(r) /\ RunsReported(r)
  <2>1. CASE lost = {}
    BY <1>3, <2>1, ExecutionUpdated
  <2>2. CASE lost # {}
    BY <1>3, <2>2 DEF Effect, RunsReported
  <2> QED
    BY <2>1, <2>2
<1>10. EngineMoves(r) /\ engine'[r] = f
  BY <1>1, <1>7, <1>8, <1>9 DEF EngineMoves, e
<1>11. Tells(f, reports'[r])
  BY <1>1, <1>8 DEF Tells
<1> QED
  BY <1>2, <1>8, <1>9, <1>10, <1>11, EngineReports DEF e

LEMMA RunEndsStep ==
  ASSUME ApiInv, NEW r \in Request, RunEnds(r), batch' = batch
  PROVE  ApiInv' /\ RunsReported(r)
<1> DEFINE e == engine[r]
<1>1. /\ e.stage = "running" /\ ApiUnchanged /\ rows' = rows
      /\ DOMAIN engine = Request /\ DOMAIN reports = Request /\ Tells(e, reports[r]) /\ IsRun(e)
  BY EngineAt DEF RunEnds, Stage
<1>2. pc[r] = "done"
  BY <1>1, EngineAt DEF Unpublished
<1>3. PICK end \in {"completed", "failed"} :
         engine' = [engine EXCEPT ![r].ends = @ \cup {end}] /\ Report(r, end)
  BY DEF RunEnds
<1> HIDE DEF e
<1>4. PICK f : f = [e EXCEPT !.ends = @ \cup {end}] /\ engine' = [engine EXCEPT ![r] = f]
  BY <1>1, <1>3 DEF e
<1>5. /\ IsRun(f) /\ f.stage = e.stage /\ f.killed = e.killed /\ f.waiting = e.waiting
      /\ f.ends = e.ends \cup {end}
  BY <1>1, <1>4 DEF IsRun
<1>6. reports' = [reports EXCEPT ![r] = @ \cup {end}]
  BY <1>3 DEF Report
<1>7. EngineMoves(r) /\ RunsReported(r) /\ engine'[r] = f
  BY <1>1, <1>4, <1>5, <1>6 DEF EngineMoves, Effect, RunsReported, e
<1>8. Tells(f, reports'[r])
  BY <1>1, <1>3, <1>5, <1>6 DEF Tells, Final
<1> QED
  BY <1>2, <1>5, <1>7, <1>8, EngineReports DEF e

LEMMA TerminateStep ==
  ASSUME ApiInv, NEW r \in Request, Terminate(r), batch' = batch
  PROVE  ApiInv' /\ RunsReported(r)
<1> DEFINE e == engine[r]
<1>1. /\ e.handler /\ ApiUnchanged /\ rows' = rows
      /\ DOMAIN engine = Request /\ DOMAIN reports = Request /\ Tells(e, reports[r]) /\ IsRun(e)
      /\ engine' = [engine EXCEPT ![r].killed = TRUE] /\ Report(r, "terminated")
  BY EngineAt DEF Terminate
<1>2. pc[r] = "done"
  BY <1>1, EngineAt DEF Unpublished
<1> HIDE DEF e
<1>3. PICK f : f = [e EXCEPT !.killed = TRUE] /\ engine' = [engine EXCEPT ![r] = f]
  BY <1>1 DEF e
<1>4. IsRun(f) /\ f.killed /\ f.waiting = e.waiting
  BY <1>1, <1>3 DEF IsRun
<1>5. reports' = [reports EXCEPT ![r] = @ \cup {"terminated"}]
  BY <1>1 DEF Report
<1>6. EngineMoves(r) /\ RunsReported(r) /\ engine'[r] = f
  BY <1>1, <1>3, <1>4, <1>5 DEF EngineMoves, Effect, RunsReported, e
<1>7. Tells(f, reports'[r])
  BY <1>1, <1>4, <1>5 DEF Tells, Final
<1> QED
  BY <1>2, <1>4, <1>6, <1>7, EngineReports DEF e

LEMMA RunStep ==
  ASSUME ApiInv, NEW r \in Request, Run(r)
  PROVE  ApiInv' /\ RunsReported(r)
  BY TakeStep, RunActiveStep, UpdateRunStep, CreateExecutionStep, TaskActiveStep, TaskEndsStep, RunEndsStep,
     TerminateStep DEF Run, EngineStep

-----------------------------------------------------------------------------
(***************************************************************************)
(* The invariant                                                           *)
(***************************************************************************)
LEMMA InitInvariant ==
  ASSUME Init
  PROVE  ApiInv
<1>1. /\ batch \in Batches /\ pc = [r \in Request |-> "sent"] /\ reply = [r \in Request |-> "none"]
      /\ loc = [r \in Request |-> Locals] /\ rows = Seed
      /\ secrets = {row.uuid : row \in {x \in Seed : x.table = "Credentials"}}
      /\ rollbacks = [w \in Worker |-> <<>>]
      /\ engine = [r \in Request |-> Unpublished] /\ reports = [r \in Request |-> {}]
  BY DEF Init, HandlingInit, CreationInit, RunInit
<1>2. Control
  <2>1. \A r \in Request : Placed(r)
    BY <1>1, LocalsAre DEF Placed, CreatesTask, Answers
  <2> QED
    BY <1>1, <2>1 DEF Control
<1>3. Sound
  <2>1. DatabaseIntegrity /\ Transitive
    BY <1>1, SeedAssumption DEF DatabaseIntegrity, Transitive, Uuids
  <2>2. Identified
    BY <1>1, SeedAssumption DEF Identified, Unchecked
  <2> QED
    BY <2>1, <2>2 DEF Sound
<1>4. \A u \in Uuids : u[1] \notin Request
  BY <1>1, SeedAssumption DEF Uuids
<1>5. Registered = {} /\ \A r \in Request : ~Aimed(r)
  BY <1>1 DEF Registered, Aimed
<1>6. Fresh /\ Entries
  BY <1>1, <1>4, <1>5 DEF Fresh, Held, Entries
<1>7. Hanging /\ Lineage
  <2>1. Hanging
    BY <1>1, SeedAssumption DEF Hanging, Rows
  <2>2. Lineage
    BY <1>3, <1>4 DEF Lineage, Sound, DatabaseIntegrity
  <2> QED
    BY <2>1, <2>2
<1>8. Owned /\ Secrets
  <2>1. Owned
    BY <1>1, SeedAssumption DEF Owned, HasOwner, Rows
  <2>2. Secrets
    BY <1>1 DEF Secrets, Rows
  <2> QED
    BY <2>1, <2>2
<1>9. Reporting
  <2>1. IsRun(Unpublished)
    BY DEF IsRun, Unpublished, Stages
  <2>2. \A r \in Request : ReportedOf(r)
    BY <1>1, <1>4, <2>1 DEF ReportedOf, Unpublished, RunOf, New, Rows, Uuids
  <2> QED
    BY <1>1, <2>2 DEF Reporting
<1>10. \A r \in Request : Points(r) /\ WithdrawalOf(r)
  <2>1. \A r \in Request : Points(r)
    BY <1>1 DEF Points, PointsAt, Creating, CreatesTask
  <2>2. \A r \in Request : WithdrawalOf(r)
    BY <1>4 DEF WithdrawalOf, Own, Uuids
  <2> QED
    BY <2>1, <2>2
<1> QED
  BY <1>2, <1>3, <1>6, <1>7, <1>8, <1>9, <1>10 DEF ApiInv

LEMMA Invariance ==
  ASSUME ApiInv, [Next]_vars
  PROVE  ApiInv'
<1>1. CASE UNCHANGED vars
  <2> USE <1>1 DEF vars
  <2>1. Control'
    BY DEF ApiInv, Control, Placed, Ask
  <2>2. Sound'
    BY DEF ApiInv, Sound, DatabaseIntegrity, Transitive, Identified, Uuids
  <2>3. Fresh'
    <3>1. \A q, table, n : Ahead(q, table, n)' <=> Ahead(q, table, n)
      BY DEF Ahead, AheadInTask
    <3>2. Held' = Held
      BY DEF Held, Uuids, Registered, Aimed
    <3> QED
      BY <3>1, <3>2 DEF ApiInv, Fresh
  <2>4. Entries' /\ Hanging' /\ Lineage'
    BY DEF ApiInv, Entries, Hanging, Lineage, Rows, Ask
  <2>5. Owned' /\ Secrets'
    <3>1. Owned'
      BY DEF ApiInv, Owned, HasOwner, Rows
    <3>2. \A q : Entry(q)' = Entry(q) /\ Ask(q)' = Ask(q) /\ CredentialsOf(q)' = CredentialsOf(q)
      BY DEF Entry, Ask, CredentialsOf, Number
    <3>3. \A q, u : CutShort(q, u)' <=> CutShort(q, u)
      BY <3>2 DEF CutShort, At
    <3>4. Secrets'
      BY <3>2, <3>3 DEF ApiInv, Secrets, Rows
    <3> QED
      BY <3>1, <3>4
  <2>6. Reporting'
    BY DEF ApiInv, Reporting, ReportedOf, Rows
  <2>7. \A r \in Request : Points(r)' /\ WithdrawalOf(r)'
    BY DEF ApiInv, Points, PointsAt, GroupAt, WithdrawalOf, Own, Asks, Ask, Rows
  <2> QED
    BY <2>1, <2>2, <2>3, <2>4, <2>5, <2>6, <2>7 DEF ApiInv
<1>2. ASSUME NEW r \in Request, Serve(r) PROVE ApiInv'
  BY <1>2, ServeStep, ServeMarks, StepInvariant
<1>3. ASSUME NEW r \in Request, Run(r) PROVE ApiInv'
  BY <1>3, RunStep
<1> QED
  BY <1>1, <1>2, <1>3 DEF Next

\* Every request is at a place its operation leads to and points to what it takes it for;
\* rows keep their keys and secrets, are made once and by whom they name; the rollbacks of
\* a process are of its own requests; and the engine reports in the order of its threads.
THEOREM Invariant == Spec => []ApiInv
<1>1. Init => ApiInv
  BY InitInvariant
<1>2. ApiInv /\ [Next]_vars => ApiInv'
  BY Invariance
<1> QED
  BY <1>1, <1>2, PTL DEF Spec

-----------------------------------------------------------------------------
(***************************************************************************)
(* What follows from it                                                    *)
(***************************************************************************)

\* The database never breaks a foreign key or a unique constraint, and every request is
\* at a place, with a reply once it is done, whatever views and rollbacks interleave
\* (models.py and the control flow of the views).
THEOREM DatabaseKept == Spec => []TypeOK
<1>1. ApiInv => TypeOK
  <2> SUFFICES ASSUME ApiInv PROVE TypeOK
    OBVIOUS
  <2>1. DatabaseIntegrity /\ \A row \in rows : row.table \in Table
    BY DEF ApiInv, Sound, Identified, IsRow
  <2>2. reply \in [Request -> Answers]
    BY DEF ApiInv, Control, Placed
  <2>3. \A r \in Request : pc[r] = "done" <=> reply[r] # "none"
    BY DEF ApiInv, Control, Placed
  <2>4. \A r \in Request : reports[r] \subseteq Final \cup {"active"}
    BY DEF ApiInv, Reporting, ReportedOf
  <2> QED
    BY <2>1, <2>2, <2>3, <2>4 DEF TypeOK
<1> QED
  BY <1>1, Invariant, PTL

\* Credentials have their secret in the Security Kernel at every step of a save, a delete
\* or a rollback, but where one request has deleted the secret and not, or not yet, the row
\* (SecretService.save and delete).
THEOREM SecretsKept == Spec => []CredentialsResolve
<1>1. ApiInv => CredentialsResolve
  BY DEF ApiInv, Secrets, CredentialsResolve
<1> QED
  BY <1>1, Invariant, PTL

\* The owner of a group whose creation was answered with success is an admin of it for
\* ever (Groups.post and Users.delete).
THEOREM OwnersKept == Spec => []OwnerStaysAdmin
<1>1. ApiInv => OwnerStaysAdmin
  BY DEF ApiInv, Owned, HasOwner, OwnerStaysAdmin, Acknowledged, Maker, Members, Under, Rows
<1> QED
  BY <1>1, Invariant, PTL

\* A pipeline whose creation was refused has left no pipeline, link or task, at whichever
\* of its writes it failed (Pipelines.post and ETLPipelines.post).
THEOREM RefusalsLeaveNothing == Spec => []RefusedLeavesNothing
<1>1. ApiInv => RefusedLeavesNothing
  BY DEF ApiInv, WithdrawalOf, Own, RefusedLeavesNothing, Maker
<1> QED
  BY <1>1, Invariant, PTL

\* The value of a run with a final status is not overwritten unless the run is terminated,
\* or has published two ends, which may then replace each other: no other call about it is
\* under way any more (UpdatePipelineRunStatus.patch).
THEOREM StatusFinal == Spec => FinalStatusStays
<1> DEFINE StatusKept ==
      \A run \in Rows("PipelineRun") : \A r \in Request :
         run.uuid = RunOf(r) /\ run.value \in Final /\ ~engine[r].killed =>
             \A after \in rows' : after.uuid = run.uuid =>
                 after.value = run.value \/ {run.value, after.value} = engine[r].ends
<1>1. ApiInv /\ ApiInv' /\ [Next]_vars => [StatusKept]_vars
  <2> SUFFICES ASSUME ApiInv, ApiInv', Next, NEW run \in Rows("PipelineRun"), NEW r \in Request,
                      run.uuid = RunOf(r), run.value \in Final, ~engine[r].killed,
                      NEW after \in rows', after.uuid = run.uuid
               PROVE  after.value = run.value \/ {run.value, after.value} = engine[r].ends
    BY DEF Rows
  <2>1. run \in rows /\ run.uuid \in Uuids /\ run.table = "PipelineRun"
    BY DEF Rows, Uuids
  <2>2. after.table = "PipelineRun"
    BY <2>1 DEF ApiInv, Sound, Identified
  <2>3. \A old \in rows : old.uuid = run.uuid => old = run
    BY <2>1 DEF ApiInv, Sound, Identified
  <2>4. /\ run.value \in engine[r].ends /\ engine[r].ends \subseteq {"completed", "failed"}
        /\ reports[r] \subseteq engine[r].ends \cup {"active"}
        /\ "active" \notin reports[r]
    BY DEF ApiInv, Reporting, ReportedOf
  <2>5. ASSUME NEW q \in Request, Serve(q) PROVE after.value = run.value
    <3>1. RunsKept
      BY <2>5, ServeStep DEF Step
    <3> QED
      BY <2>1, <2>2, <2>3, <3>1 DEF RunsKept
  <2>6. ASSUME NEW q \in Request, Run(q)
        PROVE  after.value = run.value \/ {run.value, after.value} = engine[r].ends
    <3>1. RunsReported(q)
      BY <2>6, RunStep
    <3>2. RunOf(q) = RunOf(r) => q = r
      BY DEF RunOf, New
    <3>3. after.value = run.value \/ after.value \in reports[r]
      BY <2>2, <2>3, <3>1, <3>2 DEF RunsReported
    <3> QED
      BY <2>4, <3>3
  <2> QED
    BY <2>5, <2>6 DEF Next
<1> QED
  BY <1>1, Invariant, PTL DEF Spec, FinalStatusStays

-----------------------------------------------------------------------------
(***************************************************************************)
(* What a request may take away                                            *)
(***************************************************************************)
Stays == \A row \in rows : \E new \in rows' : new.uuid = row.uuid

\* Rows go when a request asks for it, ...
Takes(r) ==
    \/ Stays
    \/ Deletes(r)
    \/ \E uuids :
          /\ Delete(uuids)
          /\ \A u \in uuids : u[2] \in {"GroupUser", "Archive", "PipelineArchive"}
    \* ... when the creation of a pipeline is refused, ...
    \/ /\ Delete({loc[r].pipeline}) /\ loc[r].pipeline[2] = "Pipeline"
       /\ StepOf(r) /\ Asks(r, "pipelines_post") /\ reply'[r] # "ok"
    \* ... and with the rollbacks of a process.
    \/ \E i \in 1 .. Len(rollbacks[Ask(r).worker]) :
          /\ Delete({rollbacks[Ask(r).worker][i].uuid})
          /\ StepOf(r) /\ pc[r] \in {"rollback", "rollback_row"}

LEMMA ImageStays ==
  ASSUME NEW f, rows' = {f[row] : row \in rows}, \A row \in rows : f[row].uuid = row.uuid
  PROVE  Stays
<1>1. \A row \in rows : f[row] \in rows'
  OBVIOUS
<1> QED
  BY <1>1 DEF Stays

LEMMA TakesBack ==
  ASSUME ApiInv, NEW r \in Request, NEW code \in Answers \ {"none", "ok"},
         pc[r] \in Creating \cup {"link_archives"}, Withdraw(r, code), Asks(r, "pipelines_post")
  PROVE  Takes(r)
<1>1. loc[r].pipeline[2] = "Pipeline"
  BY DEF ApiInv, Points, PointsAt
<1>2. pc[r] # "done"
  BY DEF Creating, CreatesTask
<1>3. pc'[r] = "done" /\ reply'[r] = code
  BY DEF Withdraw, Answer, ApiInv, Control
<1>4. StepOf(r)
  BY <1>2, <1>3 DEF StepOf
<1> QED
  BY <1>1, <1>3, <1>4 DEF Takes, Withdraw

LEMMA Losses ==
  ASSUME ApiInv, NEW r \in Request, Serve(r)
  PROVE  Takes(r)
<1>0. rows \subseteq rows' => Takes(r)
  BY DEF Takes, Stays
<1>1. CASE rows \subseteq rows'
  BY <1>0, <1>1
<1>2. CASE \/ Authenticate(r) \/ ReadStep(r) \/ PostGroup(r) \/ PostUser(r) \/ PatchUser(r)
           \/ PostIdentity(r) \/ PostArchive(r) \/ DeleteArchive(r)
           \/ DeleteIdentity(r) \/ PostPipeline(r) \/ DeletePipeline(r) \/ ChangeOwner(r)
           \/ ChangeArchive(r) \/ PostTask(r) \/ PutTask(r) \/ DeleteTask(r) \/ RunPipeline(r)
  <2>1. rows' = rows
    BY <1>2 DEF Authenticate, ReadStep, PostGroup, PostUser, PatchUser, PostIdentity, PostArchive,
                DeleteArchive, DeleteIdentity, PostPipeline, DeletePipeline,
                ChangeOwner, ChangeArchive, PostTask, PutTask, DeleteTask, RunPipeline, Check
  <2> QED
    BY <1>0, <2>1
<1>3. CASE DeleteUser(r)
  <2>1. rows' = rows
    BY <1>3 DEF DeleteUser, Check
  <2> QED
    BY <1>0, <2>1
<1>4. CASE \/ CreateGroup(r) \/ CreateAdmin(r) \/ CreateUsers(r) \/ CreateUser(r)
           \/ IdentitySecret(r) \/ IdentityCredentials(r) \/ CreateArchive(r)
           \/ CreatePipeline(r) \/ AddLink(r) \/ Created(r) \/ CreateRun(r) \/ ReadCurrent(r)
           \/ Publish(r)
  <2>1. rows \subseteq rows'
    BY <1>4 DEF CreateGroup, CreateAdmin, CreateUsers, CreateUser, IdentitySecret,
                IdentityCredentials, CreateArchive, CreatePipeline, AddLink, Created, CreateRun,
                ReadCurrent, Publish, Insert
  <2> QED
    BY <1>0, <2>1
<1>5. CASE UseIdentity(r) \/ WriteSecret(r) \/ SaveCredentials(r) \/ MakeHalf(r) \/ MakeTask(r)
           \/ RollbackDone(r)
  <2>1. rows \subseteq rows'
    BY <1>5 DEF UseIdentity, WriteSecret, SaveCredentials, MakeHalf, MakeTask, RollbackDone, Fail,
                Insert
  <2> QED
    BY <1>0, <2>1
<1>6. CASE SetOwner(r) \/ SetCurrent(r)
  <2>1. \A row \in rows : \A x, y :
           /\ [row EXCEPT !.owner = x].uuid = row.uuid
           /\ [row EXCEPT !.current = x, !.last = y].uuid = row.uuid
    BY DEF ApiInv, Sound, Identified, IsRow
  <2>2. ASSUME SetOwner(r) PROVE Stays
    <3>1. PICK found, x : found = Find("Pipeline", Ask(r).pipeline, loc[r].target) /\ x = Ask(r).target
      OBVIOUS
    <3>2. PICK f : f = [row \in rows |-> IF row \in found THEN [row EXCEPT !.owner = x] ELSE row]
      OBVIOUS
    <3>3. rows' = {f[row] : row \in rows}
      BY <2>2, <3>1, <3>2 DEF SetOwner
    <3>4. \A row \in rows : f[row].uuid = row.uuid
      BY <2>1, <3>2
    <3> QED
      BY <3>3, <3>4, ImageStays
  <2>3. ASSUME SetCurrent(r) PROVE Stays
    <3>1. PICK pipeline, run, before :
             pipeline = loc[r].pipeline /\ run = RunOf(r) /\ before = loc[r].target
      OBVIOUS
    <3>2. PICK f : f = [row \in rows |->
                           IF row.uuid = pipeline THEN Chained(row, run, before) ELSE row]
      OBVIOUS
    <3>3. rows' = {f[row] : row \in rows}
      BY <2>3, <3>1, <3>2 DEF SetCurrent
    <3>4. ASSUME NEW row \in rows PROVE f[row].uuid = row.uuid
      <4>1. CASE row.uuid # pipeline
        BY <3>2, <4>1
      <4>2. CASE row.uuid = pipeline
        <5>1. PICK last, new : new = f[row] /\ new = [row EXCEPT !.current = run, !.last = last]
          BY <3>2, <4>2 DEF Chained
        <5> QED
          BY <2>1, <5>1
      <4> QED
        BY <4>1, <4>2
    <3> QED
      BY <3>3, <3>4, ImageStays
  <2> QED
    BY <1>6, <2>2, <2>3 DEF Takes
<1>7. CASE RemoveUser(r) \/ RemoveArchive(r)
  <2>1. Delete({loc[r].target}) /\ loc[r].target[2] \in {"GroupUser", "Archive"}
    BY <1>7 DEF RemoveUser, RemoveArchive, At, ApiInv, Points, PointsAt
  <2> QED
    BY <2>1 DEF Takes
<1>8. CASE RemoveLink(r)
  <2>1. PICK uuids : uuids = {x.uuid : x \in Under("PipelineArchive", loc[r].pipeline)
                                             \cap Under("PipelineArchive", loc[r].target)}
    OBVIOUS
  <2>2. \A u \in uuids : u[2] = "PipelineArchive"
    BY <2>1 DEF Under, Rows, ApiInv, Sound, Identified
  <2>3. Delete(uuids)
    BY <1>8, <2>1 DEF RemoveLink
  <2> QED
    BY <2>2, <2>3 DEF Takes
<1>9. CASE CreateIdentity(r) \/ DropSecret(r)
  <2>1. rows \subseteq rows'
    BY <1>9 DEF CreateIdentity, DropSecret, Insert
  <2> QED
    BY <1>0, <2>1
<1>10. CASE DropRow(r) \/ RemoveTask(r)
  <2>1. pc[r] \in {"drop_row", "delete_task"} /\ pc'[r] = "done"
    BY <1>10 DEF DropRow, RemoveTask, At, Answer, ApiInv, Control
  <2> QED
    BY <2>1 DEF Takes, Deletes, StepOf
<1>11. CASE DeleteTasks(r)
  <2>1. pc[r] = "delete_tasks"
    BY <1>11 DEF DeleteTasks, At
  <2>2. CASE pc'[r] = "done"
    BY <2>1, <2>2 DEF Takes, Deletes, StepOf
  <2>3. ASSUME NEW task \in loc[r].rest, Keep(r, "rest", loc[r].rest \ {task}) PROVE Takes(r)
    <3>1. loc'[r].rest = loc[r].rest \ {task}
      BY <2>3, OpOf DEF Keep, ApiInv, Control, IsLocals
    <3>2. loc'[r] # loc[r]
      BY <2>3, <3>1
    <3> QED
      BY <2>1, <3>2 DEF Takes, Deletes, StepOf
  <2>4. ASSUME NEW code, Answer(r, code) PROVE Takes(r)
    <3>1. pc'[r] = "done"
      BY <2>4 DEF Answer, ApiInv, Control
    <3> QED
      BY <2>2, <3>1
  <2>5. \/ \E task \in loc[r].rest : Keep(r, "rest", loc[r].rest \ {task})
        \/ Answer(r, "server_error")
        \/ Answer(r, "ok")
    BY <1>11, Zenon DEF DeleteTasks, Withdraw
  <2> QED
    BY <2>3, <2>4, <2>5, Zenon
<1>12. CASE LinkArchive(r)
  <2>1. pc[r] = "link_archives" /\ Asks(r, "pipelines_post") /\ "bad_request" \in Answers \ {"none", "ok"}
    BY <1>12, InLinking DEF LinkArchive, At, Asks, Answers
  <2>2. rows \subseteq rows' \/ Withdraw(r, "bad_request")
    BY <1>12 DEF LinkArchive, Insert
  <2> QED
    BY <1>0, <2>1, <2>2, TakesBack
<1>13. CASE BuildTasks(r)
  <2>1. /\ pc[r] = "link_archives" /\ Asks(r, "pipelines_post")
        /\ "bad_request" \in Answers \ {"none", "ok"} /\ "server_error" \in Answers \ {"none", "ok"}
    BY <1>13, InLinking DEF BuildTasks, At, Asks, Answers
  <2>2. UNCHANGED rows \/ Withdraw(r, "bad_request") \/ Withdraw(r, "server_error")
    BY <1>13, Zenon DEF BuildTasks
  <2> QED
    BY <1>0, <2>1, <2>2, TakesBack
<1>14. CASE Failed(r)
  <2>1. pc[r] = "failed" /\ pc[r] \in Creating
    BY <1>14 DEF Failed, At, Creating
  <2>2. UNCHANGED rows \/ (Asks(r, "pipelines_post") /\ Withdraw(r, FailureReply(r)))
    BY <1>14 DEF Failed, Withdrawn
  <2>3. FailureReply(r) \in Answers \ {"none", "ok"}
    BY DEF FailureReply, Answers
  <2> QED
    BY <1>0, <2>1, <2>2, <2>3, TakesBack
<1>15. ASSUME Undone(r), pc[r] \in {"rollback", "rollback_row"},
              loc[r].undone < Len(rollbacks[Ask(r).worker])
       PROVE  Takes(r)
  <2>1. Keep(r, "undone", loc[r].undone + 1)
    BY <1>15 DEF Undone
  <2>2. loc[r].undone \in Nat /\ Ask(r).worker \in Worker
    BY OpOf DEF IsLocals
  <2>3. loc'[r].undone = loc[r].undone + 1
    BY <2>1, OpOf DEF Keep, ApiInv, Control, IsLocals
  <2>4. StepOf(r)
    BY <2>2, <2>3 DEF StepOf
  <2>5. Len(rollbacks[Ask(r).worker]) \in Nat
    BY <2>2 DEF ApiInv, Entries
  <2>6. PICK i : i = loc[r].undone + 1
    OBVIOUS
  <2>7. i \in 1 .. Len(rollbacks[Ask(r).worker])
    BY <1>15, <2>2, <2>5, <2>6
  <2>8. UNCHANGED rows \/ Delete({rollbacks[Ask(r).worker][i].uuid})
    BY <1>15, <2>6 DEF Undone, Entry
  <2> QED
    BY <1>0, <1>15, <2>4, <2>7, <2>8 DEF Takes
<1>16. CASE Rollback(r)
  <2>1. pc[r] = "rollback" /\ loc[r].undone < Len(rollbacks[Ask(r).worker])
    BY <1>16 DEF Rollback, At
  <2>2. UNCHANGED rows \/ Undone(r)
    BY <1>16 DEF Rollback
  <2> QED
    BY <1>0, <1>15, <2>1, <2>2
<1>17. CASE RollbackRow(r)
  <2>1. pc[r] = "rollback_row" /\ Undone(r)
    BY <1>17 DEF RollbackRow, At
  <2>2. loc[r].undone < Len(rollbacks[Ask(r).worker])
    BY <2>1 DEF ApiInv, Points, PointsAt
  <2> QED
    BY <1>15, <2>1, <2>2
<1> QED
  BY <1>2, <1>3, <1>4, <1>5, <1>6, <1>7, <1>8, <1>9, <1>10, <1>11, <1>12, <1>13, <1>14, <1>16,
     <1>17 DEF Serve, ViewStep, PipelineStep, AccountStep, CreateTask, DispatchStep

LEMMA EntryOf ==
  ASSUME ApiInv, NEW r \in Request, NEW i \in 1 .. Len(rollbacks[Ask(r).worker])
  PROVE  LET x == rollbacks[Ask(r).worker][i].uuid IN
         /\ x[1] \in Request /\ x[2] \in {"Credentials", "Context", "Destination"}
         /\ x[2] = "Credentials" => x[3] # 0
         /\ Ask(x[1]).worker = Ask(r).worker
<1> DEFINE Known == [kind : {"row", "secret"},
                     uuid : Request \X {"Credentials", "Context", "Destination"} \X Nat]
           list == rollbacks[Ask(r).worker]
           entry == list[i]
<1>1. Ask(r).worker \in Worker
  BY OpOf
<1>2. /\ list \in Seq(Known)
      /\ Ask(entry.uuid[1]).worker = Ask(r).worker
      /\ entry.uuid[2] = "Credentials" => entry.uuid[3] # 0
  BY <1>1 DEF ApiInv, Entries
<1>3. entry \in Known
  <2> HIDE DEF Known
  <2> QED
    BY <1>2
<1> HIDE DEF entry
<1>4. entry.uuid[1] \in Request /\ entry.uuid[2] \in {"Credentials", "Context", "Destination"}
  BY <1>3
<1> QED
  BY <1>2, <1>4 DEF entry

LEMMA RunStays ==
  ASSUME ApiInv, NEW r \in Request, Run(r)
  PROVE  Stays
<1>1. \A row \in rows : \A x : [row EXCEPT !.value = x].uuid = row.uuid
  BY DEF ApiInv, Sound, Identified, IsRow
<1>2. CASE \/ Take(r) \/ CreateExecution(r) \/ RunEnds(r) \/ Terminate(r)
  <2>1. rows \subseteq rows'
    BY <1>2 DEF Take, CreateExecution, RunEnds, Terminate, Insert
  <2> QED
    BY <2>1 DEF Stays
<1>3. ASSUME NEW status, rows' = WithStatus(r, status) PROVE Stays
  <2>1. PICK updated : updated = Updated(RunOf(r))
    OBVIOUS
  <2>2. PICK f : f = [x \in rows |-> IF x \in updated THEN [x EXCEPT !.value = status] ELSE x]
    OBVIOUS
  <2>3. rows' = {f[x] : x \in rows}
    BY <1>3, <2>1, <2>2 DEF WithStatus
  <2>4. \A x \in rows : f[x].uuid = x.uuid
    BY <1>1, <2>2
  <2> QED
    BY <2>3, <2>4, ImageStays
<1>4. ASSUME NEW task, NEW status, UpdateExecution(r, task, status) PROVE Stays
  <2>1. PICK execution : execution = ExecutionOf(r, task)
    OBVIOUS
  <2>2. PICK f : f = [x \in rows |-> IF x.uuid = execution THEN [x EXCEPT !.value = status] ELSE x]
    OBVIOUS
  <2>3. rows' = rows \/ rows' = {f[x] : x \in rows}
    BY <1>4, <2>1, <2>2 DEF UpdateExecution
  <2>4. \A x \in rows : f[x].uuid = x.uuid
    BY <1>1, <2>2
  <2> QED
    BY <2>3, <2>4, ImageStays DEF Stays
<1>5. CASE TaskActive(r) \/ TaskEnds(r)
  BY <1>4, <1>5 DEF TaskActive, TaskEnds, Stays
<1>6. CASE RunActive(r)
  BY <1>3, <1>6 DEF RunActive, Stays
<1>7. CASE \E status \in Final : UpdateRun(r, status)
  BY <1>3, <1>7 DEF UpdateRun, Stays
<1> QED
  BY <1>2, <1>5, <1>6, <1>7 DEF Run, EngineStep

\* A task that its client was told of goes only with a request to delete it, its pipeline
\* or its identity, with a pipeline whose creation is refused, or by a rollback of a
\* request that the process serves which has made it (TaskService.create and
\* Service.rollback).
THEOREM DamageContained == Spec => DamageStaysInProcess
<1> DEFINE Contained ==
      \A row \in Rows("Task") : Acknowledged(row) /\ Gone(row) =>
         \E r \in Request :
            \/ Deletes(r) \/ Withdraws(r, row)
            \/ /\ StepOf(r) /\ pc[r] \in {"rollback", "rollback_row"} /\ Maker(row) \in Request
               /\ Ask(r).worker = Ask(Maker(row)).worker
<1>1. ApiInv /\ [Next]_vars => [Contained]_vars
  <2> SUFFICES ASSUME ApiInv, Next, NEW row \in rows, row.table = "Task", Gone(row)
               PROVE  \E r \in Request :
                         \/ Deletes(r) \/ Withdraws(r, row)
                         \/ /\ StepOf(r) /\ pc[r] \in {"rollback", "rollback_row"} /\ Maker(row) \in Request
                            /\ Ask(r).worker = Ask(Maker(row)).worker
    BY DEF Rows
  <2>1. \A new \in rows' : new.uuid # row.uuid
    BY DEF Gone
  <2>2. /\ row.uuid[2] = "Task" /\ row.above \subseteq Uuids
        /\ \A x \in row.above : x[2] \in {"Pipeline", "Group", "Context", "Destination",
                                          "Identity", "Credentials"}
    BY DEF ApiInv, Sound, DatabaseIntegrity, Identified, Hanging, Hangs
  <2>3. \A uuids : Delete(uuids) => row.uuid \in uuids \/ row.above \cap uuids # {}
    BY <2>1, DeleteSound DEF ApiInv
  <2>4. ASSUME NEW r \in Request, Run(r) PROVE FALSE
    <3>1. Stays
      BY <2>4, RunStays
    <3> QED
      BY <2>1, <3>1 DEF Stays
  <2>5. ASSUME NEW r \in Request, Serve(r)
        PROVE  \/ Deletes(r) \/ Withdraws(r, row)
               \/ /\ StepOf(r) /\ pc[r] \in {"rollback", "rollback_row"} /\ Maker(row) \in Request
                  /\ Ask(r).worker = Ask(Maker(row)).worker
    <3>1. CASE Stays
      BY <2>1, <3>1 DEF Stays
    <3>2. ASSUME NEW uuids, Delete(uuids),
                 \A u \in uuids : u[2] \in {"GroupUser", "Archive", "PipelineArchive"}
          PROVE  FALSE
      BY <2>2, <2>3, <3>2
    <3>3. CASE /\ Delete({loc[r].pipeline}) /\ loc[r].pipeline[2] = "Pipeline"
               /\ StepOf(r) /\ Asks(r, "pipelines_post") /\ reply'[r] # "ok"
      BY <2>2, <2>3, <3>3 DEF Withdraws
    <3>4. ASSUME NEW i \in 1 .. Len(rollbacks[Ask(r).worker]),
                 Delete({rollbacks[Ask(r).worker][i].uuid}), StepOf(r),
                 pc[r] \in {"rollback", "rollback_row"}
          PROVE  Maker(row) \in Request /\ Ask(r).worker = Ask(Maker(row)).worker
      <4>1. PICK x : x = rollbacks[Ask(r).worker][i].uuid
        OBVIOUS
      <4>2. /\ x[1] \in Request /\ x[2] \in {"Credentials", "Context", "Destination"}
            /\ x[2] = "Credentials" => x[3] # 0
            /\ Ask(x[1]).worker = Ask(r).worker
        BY <3>4, <4>1, EntryOf
      <4>3. x \in row.above
        BY <2>2, <2>3, <3>4, <4>1, <4>2
      <4>4. x[1] = row.uuid[1]
        BY <4>2, <4>3 DEF ApiInv, Lineage
      <4> QED
        BY <4>2, <4>4 DEF Maker
    <3> QED
      BY <2>5, <3>1, <3>2, <3>3, <3>4, Losses DEF Takes
  <2> QED
    BY <2>4, <2>5 DEF Next
<1> QED
  BY <1>1, Invariant, PTL DEF Spec, DamageStaysInProcess

-----------------------------------------------------------------------------
(***************************************************************************)
(* What becomes of a row                                                   *)
(***************************************************************************)

\* A view leaves the rows as they are, makes one, which is no execution, deletes some with
\* what hangs on them, or changes owners and the runs of a pipeline.
Renewed(r, row, new) ==
    /\ Alike(row, new) /\ new.id = row.id /\ new.value = row.value
    /\ SetCurrent(r) \/ (new.current = row.current /\ new.last = row.last)
MakesRow(r, table, keys, row) ==
    /\ Insert(row) /\ row.above = Above(keys) /\ row.table = table
    /\ table # "TaskExecution"
    /\ table = "PipelineRun" => CreateRun(r) /\ keys = {loc[r].pipeline}
    /\ table = "Task" =>
          /\ row.key = <<row.id, "none", {k \in keys : k[2] = "Pipeline"}>>
          /\ loc[r].pipeline \in keys /\ loc[r].pipeline[2] = "Pipeline"
          /\ \A k \in keys : k = loc[r].pipeline \/ k[2] \in {"Context", "Destination"}
Rewrites(r) ==
    \/ UNCHANGED rows
    \/ \E table, keys, row : MakesRow(r, table, keys, row)
    \/ \E uuids : Delete(uuids) /\ \A u \in uuids : u[2] # "TaskExecution"
    \/ \E f : rows' = {f[row] : row \in rows} /\ \A row \in rows : Renewed(r, row, f[row])

LEMMA TaskKey ==
  ASSUME NEW uuid, NEW id, NEW owner, NEW keys
  PROVE  /\ UniqueKey("Task", uuid, id, owner, keys) = <<id, "none", {k \in keys : k[2] = "Pipeline"}>>
         /\ UniqueKey("TaskExecution", uuid, id, owner, keys) = <<"none", "none", {uuid}>>
  BY Zenon DEF UniqueKey

LEMMA PlainRow ==
  ASSUME NEW r, NEW table \in Table \ {"Task", "TaskExecution"}, NEW uuid, NEW id, NEW owner, NEW value,
         NEW keys, table = "PipelineRun" => CreateRun(r) /\ keys = {loc[r].pipeline},
         Insert(NewRow(table, uuid, id, owner, value, keys))
  PROVE  Rewrites(r)
<1>1. PICK row : row = NewRow(table, uuid, id, owner, value, keys)
  OBVIOUS
<1>2. row.table = table /\ row.above = Above(keys) /\ Insert(row)
  BY <1>1, RowFields
<1>3. MakesRow(r, table, keys, row)
  BY <1>2 DEF MakesRow
<1> QED
  BY <1>3 DEF Rewrites

\* None of these deletes anything but what it says.
LEMMA Deleted ==
  ASSUME NEW r, NEW u, u[2] # "TaskExecution", Delete({u})
  PROVE  Rewrites(r)
<1>1. PICK uuids : uuids = {u}
  OBVIOUS
<1> QED
  BY <1>1 DEF Rewrites

LEMMA Withdrawal ==
  ASSUME ApiInv, NEW r \in Request, NEW code, pc[r] \in Creating \cup {"link_archives", "delete_tasks"},
         Withdraw(r, code)
  PROVE  Rewrites(r)
<1>1. loc[r].pipeline[2] = "Pipeline"
  BY DEF ApiInv, Points, PointsAt
<1> QED
  BY <1>1, Deleted DEF Withdraw

LEMMA TaskRewrites ==
  ASSUME ApiInv, NEW r \in Request, CreateTask(r)
  PROVE  Rewrites(r)
<1>1. CASE UseIdentity(r) \/ WriteSecret(r) \/ RollbackDone(r)
  BY <1>1 DEF UseIdentity, WriteSecret, RollbackDone, Fail, Rewrites
<1>2. CASE SaveCredentials(r)
  <2>1. UNCHANGED rows \/ Insert(NewRow("Credentials", CredentialsOf(r), "none", loc[r].owner, "none", {}))
    BY <1>2 DEF SaveCredentials, Fail
  <2> QED
    BY <2>1, PlainRow DEF Rewrites, Table
<1>3. CASE MakeHalf(r)
  <2>1. loc[r].half \in {"Context", "Destination"}
    BY OpOf DEF IsLocals
  <2>2. \/ UNCHANGED rows
        \/ Insert(NewRow(loc[r].half, New(r, loc[r].half, Number(r)), "none", loc[r].owner, "none",
                         loc[r].authn))
    BY <1>3 DEF MakeHalf, Fail
  <2> QED
    BY <2>1, <2>2, PlainRow DEF Rewrites, Table
<1>4. CASE MakeTask(r)
  <2>1. PICK keys, row :
           /\ keys = {loc[r].pipeline} \cup loc[r].context \cup loc[r].destination
           /\ row = NewRow("Task", New(r, "Task", Number(r)), Task(r).id, loc[r].owner, Task(r).type, keys)
    OBVIOUS
  <2>2. /\ row.above = Above(keys) /\ row.table = "Task" /\ row.id = Task(r).id
        /\ row.key = UniqueKey("Task", New(r, "Task", Number(r)), Task(r).id, loc[r].owner, keys)
    <3>1. "Task" \in Table
      BY DEF Table
    <3>2. row.above = Above(keys) /\ row.table = "Task" /\ row.id = Task(r).id
      BY <2>1, <3>1, RowFields
    <3>3. row.key = UniqueKey("Task", New(r, "Task", Number(r)), Task(r).id, loc[r].owner, keys)
      BY <2>1 DEF NewRow
    <3> QED
      BY <3>2, <3>3
  <2>3. row.key = <<row.id, "none", {k \in keys : k[2] = "Pipeline"}>>
    BY <2>2, TaskKey
  <2>4. /\ loc[r].pipeline[2] = "Pipeline"
        /\ \A k \in loc[r].context \cup loc[r].destination : k[2] \in {"Context", "Destination"}
    BY <1>4 DEF MakeTask, At, ApiInv, Points, PointsAt, Creating, CreatesTask
  <2>5. UNCHANGED rows \/ Insert(row)
    BY <1>4, <2>1 DEF MakeTask, Fail
  <2>6. Insert(row) => MakesRow(r, "Task", keys, row)
    BY <2>1, <2>2, <2>3, <2>4 DEF MakesRow
  <2> QED
    BY <2>5, <2>6 DEF Rewrites
<1>5. ASSUME Undone(r), loc[r].undone < Len(rollbacks[Ask(r).worker]) PROVE Rewrites(r)
  <2>1. loc[r].undone \in Nat /\ Ask(r).worker \in Worker
    BY OpOf DEF IsLocals
  <2>2. Len(rollbacks[Ask(r).worker]) \in Nat
    BY <2>1 DEF ApiInv, Entries
  <2>3. PICK i : i = loc[r].undone + 1
    OBVIOUS
  <2>4. i \in 1 .. Len(rollbacks[Ask(r).worker])
    BY <1>5, <2>1, <2>2, <2>3
  <2>5. UNCHANGED rows \/ Delete({rollbacks[Ask(r).worker][i].uuid})
    BY <1>5, <2>3 DEF Undone, Entry
  <2>6. rollbacks[Ask(r).worker][i].uuid[2] # "TaskExecution"
    BY <2>4, EntryOf
  <2> QED
    BY <2>5, <2>6, Deleted DEF Rewrites
<1>6. CASE Rollback(r)
  <2>1. loc[r].undone < Len(rollbacks[Ask(r).worker]) /\ (UNCHANGED rows \/ Undone(r))
    BY <1>6 DEF Rollback
  <2> QED
    BY <1>5, <2>1 DEF Rewrites
<1>7. CASE RollbackRow(r)
  <2>1. pc[r] = "rollback_row" /\ Undone(r)
    BY <1>7 DEF RollbackRow, At
  <2>2. loc[r].undone < Len(rollbacks[Ask(r).worker])
    BY <2>1 DEF ApiInv, Points, PointsAt
  <2> QED
    BY <1>5, <2>1, <2>2
<1> QED
  BY <1>1, <1>2, <1>3, <1>4, <1>6, <1>7 DEF CreateTask

LEMMA ServeRewrites ==
  ASSUME ApiInv, NEW r \in Request, Serve(r)
  PROVE  Rewrites(r)
<1>0. UNCHANGED rows => Rewrites(r)
  BY DEF Rewrites
<1>1. CASE \/ Authenticate(r) \/ ReadStep(r) \/ PostGroup(r) \/ PostUser(r) \/ PatchUser(r)
           \/ PostIdentity(r) \/ PostArchive(r) \/ DeleteArchive(r) \/ IdentitySecret(r)
           \/ DeleteIdentity(r) \/ PostPipeline(r) \/ DeletePipeline(r) \/ ChangeOwner(r)
           \/ ChangeArchive(r) \/ PostTask(r) \/ PutTask(r) \/ DeleteTask(r) \/ RunPipeline(r)
  <2>1. rows' = rows
    BY <1>1 DEF Authenticate, ReadStep, PostGroup, PostUser, PatchUser, PostIdentity, PostArchive,
                DeleteArchive, DeleteIdentity, PostPipeline, DeletePipeline, IdentitySecret,
                ChangeOwner, ChangeArchive, PostTask, PutTask, DeleteTask, RunPipeline, Check
  <2> QED
    BY <1>0, <2>1
<1>2. CASE DeleteUser(r) \/ Created(r) \/ ReadCurrent(r) \/ Publish(r)
  <2>1. rows' = rows
    BY <1>2 DEF DeleteUser, Check, Created, ReadCurrent, Publish
  <2> QED
    BY <1>0, <2>1
<1>3. CASE CreateTask(r)
  BY <1>3, TaskRewrites
<1>4. CASE CreateGroup(r) \/ CreateArchive(r) \/ CreatePipeline(r) \/ AddLink(r)
           \/ IdentityCredentials(r)
  <2>1. \/ UNCHANGED rows
        \/ \E table \in {"Group", "Archive", "Pipeline", "PipelineArchive", "Credentials"} :
              \E uuid, id, owner, value, keys : Insert(NewRow(table, uuid, id, owner, value, keys))
    BY <1>4 DEF CreateGroup, CreateArchive, CreatePipeline, PipelineRow, AddLink,
                IdentityCredentials
  <2> QED
    BY <1>0, <2>1, PlainRow DEF Table
<1>15. ASSUME CreateRun(r) PROVE Rewrites(r)
  <2>1. \/ UNCHANGED rows
        \/ \E uuid, id, owner, value :
              Insert(NewRow("PipelineRun", uuid, id, owner, value, {loc[r].pipeline}))
    BY <1>15 DEF CreateRun
  <2> QED
    BY <1>0, <1>15, <2>1, PlainRow DEF Table
<1>5. CASE CreateAdmin(r) \/ CreateUsers(r) \/ CreateUser(r)
  <2>1. \/ UNCHANGED rows
        \/ \E uuid, id, owner, value, keys : Insert(NewRow("GroupUser", uuid, id, owner, value, keys))
    BY <1>5 DEF CreateAdmin, CreateUsers, CreateUser, Membership
  <2> QED
    BY <1>0, <2>1, PlainRow DEF Table
<1>6. CASE CreateIdentity(r) \/ DropSecret(r)
  <2>1. \/ UNCHANGED rows
        \/ \E uuid, id, owner, value, keys : Insert(NewRow("Identity", uuid, id, owner, value, keys))
    BY <1>6 DEF CreateIdentity, DropSecret
  <2> QED
    BY <1>0, <2>1, PlainRow DEF Table
<1>7. CASE DropRow(r) \/ RemoveUser(r) \/ RemoveArchive(r) \/ RemoveTask(r)
  <2>1. loc[r].target[2] # "TaskExecution"
    BY <1>7 DEF DropRow, RemoveUser, RemoveArchive, RemoveTask, At, ApiInv, Points, PointsAt
  <2>2. UNCHANGED rows \/ Delete({loc[r].target})
    BY <1>7 DEF DropRow, RemoveUser, RemoveArchive, RemoveTask
  <2> QED
    BY <1>0, <2>1, <2>2, Deleted
<1>8. CASE RemoveLink(r)
  <2>1. PICK uuids : uuids = {x.uuid : x \in Under("PipelineArchive", loc[r].pipeline)
                                             \cap Under("PipelineArchive", loc[r].target)}
    OBVIOUS
  <2>2. \A u \in uuids : u[2] # "TaskExecution"
    BY <2>1 DEF Under, Rows, ApiInv, Sound, Identified
  <2>3. Delete(uuids)
    BY <1>8, <2>1 DEF RemoveLink
  <2> QED
    BY <2>2, <2>3 DEF Rewrites
<1>9. CASE DeleteTasks(r)
  <2>1. pc[r] = "delete_tasks"
    BY <1>9 DEF DeleteTasks, At
  <2>2. \A task \in loc[r].rest : task[2] # "TaskExecution"
    BY <2>1 DEF ApiInv, Points, PointsAt
  <2>3. \/ UNCHANGED rows \/ Withdraw(r, "ok")
        \/ \E task \in loc[r].rest : Delete({task})
    BY <1>9 DEF DeleteTasks
  <2> QED
    BY <1>0, <2>1, <2>2, <2>3, Deleted, Withdrawal
<1>10. CASE LinkArchive(r)
  <2>1. pc[r] = "link_archives"
    BY <1>10 DEF LinkArchive, At
  <2>2. \/ \E uuid, id, owner, value, keys :
              Insert(NewRow("PipelineArchive", uuid, id, owner, value, keys))
        \/ Withdraw(r, "bad_request")
    BY <1>10 DEF LinkArchive, LinkRow
  <2> QED
    BY <2>1, <2>2, PlainRow, Withdrawal DEF Table
<1>11. CASE BuildTasks(r)
  <2>1. pc[r] = "link_archives"
    BY <1>11 DEF BuildTasks, At
  <2>2. UNCHANGED rows \/ Withdraw(r, "bad_request") \/ Withdraw(r, "server_error")
    BY <1>11, Zenon DEF BuildTasks
  <2> QED
    BY <1>0, <2>1, <2>2, Withdrawal
<1>12. CASE Failed(r)
  <2>1. pc[r] = "failed" /\ pc[r] \in Creating
    BY <1>12 DEF Failed, At, Creating
  <2>2. UNCHANGED rows \/ Withdraw(r, FailureReply(r))
    BY <1>12 DEF Failed
  <2> QED
    BY <1>0, <2>1, <2>2, Withdrawal
<1>13. ASSUME SetOwner(r) PROVE Rewrites(r)
  <2>1. PICK found, x : found = Find("Pipeline", Ask(r).pipeline, loc[r].target) /\ x = Ask(r).target
    OBVIOUS
  <2>2. PICK f : f = [row \in rows |-> IF row \in found THEN [row EXCEPT !.owner = x] ELSE row]
    OBVIOUS
  <2>3. rows' = {f[row] : row \in rows}
    BY <1>13, <2>1, <2>2 DEF SetOwner
  <2>4. ASSUME NEW row \in rows PROVE Renewed(r, row, f[row])
    <3>1. IsRow(row) /\ Alike(row, row)
      BY DEF ApiInv, Sound, Identified, Alike
    <3>2. CASE row \notin found
      BY <2>2, <3>1, <3>2 DEF Renewed
    <3>3. CASE row \in found
      <4>1. PICK new : new = [row EXCEPT !.owner = x]
        OBVIOUS
      <4>2. Alike(row, new) /\ new.id = row.id
        BY <3>1, <4>1, FieldUpdates
      <4>3. new.value = row.value /\ new.current = row.current /\ new.last = row.last
        BY <3>1, <4>1 DEF IsRow
      <4> QED
        BY <2>2, <3>3, <4>1, <4>2, <4>3 DEF Renewed
    <3> QED
      BY <3>2, <3>3
  <2> QED
    BY <2>3, <2>4 DEF Rewrites
<1>14. ASSUME SetCurrent(r) PROVE Rewrites(r)
  <2>1. PICK pipeline, run, before :
           pipeline = loc[r].pipeline /\ run = RunOf(r) /\ before = loc[r].target
    OBVIOUS
  <2>2. PICK f : f = [row \in rows |->
                         IF row.uuid = pipeline THEN Chained(row, run, before) ELSE row]
    OBVIOUS
  <2>3. rows' = {f[row] : row \in rows}
    BY <1>14, <2>1, <2>2 DEF SetCurrent
  <2>4. ASSUME NEW row \in rows PROVE Renewed(r, row, f[row])
    <3>1. IsRow(row) /\ Alike(row, row)
      BY DEF ApiInv, Sound, Identified, Alike
    <3>2. CASE row.uuid # pipeline
      BY <2>2, <3>1, <3>2 DEF Renewed
    <3>3. CASE row.uuid = pipeline
      <4>1. PICK last, new : new = f[row] /\ new = [row EXCEPT !.current = run, !.last = last]
        BY <2>2, <3>3 DEF Chained
      <4>2. new = [row EXCEPT !.current = run, !.last = last] => Alike(row, new)
        BY <3>1, FieldUpdates
      <4>3. new.id = row.id /\ new.value = row.value
        BY <3>1, <4>1 DEF IsRow
      <4> QED
        BY <1>14, <4>1, <4>2, <4>3 DEF Renewed
    <3> QED
      BY <3>2, <3>3
  <2> QED
    BY <2>3, <2>4 DEF Rewrites
<1> QED
  BY <1>1, <1>2, <1>3, <1>4, <1>5, <1>6, <1>7, <1>8, <1>9, <1>10, <1>11, <1>12, <1>13, <1>14, <1>15
     DEF Serve, ViewStep, PipelineStep, AccountStep, DispatchStep

\* Executions have no unique constraint; a task is unique by its id in its only pipeline.
Keyed ==
    /\ \A x \in Rows("TaskExecution") : x.key = <<"none", "none", {x.uuid}>>
    /\ \A t \in Rows("Task") :
          \E p \in t.above : /\ t.key = <<t.id, "none", {p}>>
                             /\ {u \in t.above : u[2] = "Pipeline"} = {p}

LEMMA OldRow ==
  ASSUME Sound', NEW row, row \in rows, row \in rows', NEW new \in rows', new.uuid = row.uuid
  PROVE  new = row
  BY DEF Sound, Identified

LEMMA ServeRows ==
  ASSUME ApiInv, Keyed, NEW r \in Request, Serve(r)
  PROVE  /\ Keeps(r) /\ Sound' /\ Hanging' /\ Keyed'
         /\ \A new \in rows' : new.uuid \in Uuids => \E row \in rows : Renewed(r, row, new)
         /\ \A x \in rows : x.table = "TaskExecution" /\ x.above \subseteq Uuids' => x.uuid \in Uuids'
         /\ \A new \in rows' : new.table = "TaskExecution" => new.uuid \in Uuids
         /\ \A new \in rows' : new.table = "PipelineRun" /\ new.uuid \notin Uuids =>
               CreateRun(r) /\ new.above = Above({loc[r].pipeline})
<1>0. Step(r)
  BY ServeStep
<1>1. Keeps(r) /\ Sound' /\ Hanging'
  BY <1>0, StepFresh
<1>2. \A row \in rows : Renewed(r, row, row)
  BY DEF Renewed, ApiInv, Sound, Identified, Alike
<1>3. \A row, new : Renewed(r, row, new) =>
         /\ new.uuid = row.uuid /\ new.table = row.table /\ new.id = row.id /\ new.key = row.key
         /\ new.above = row.above
  BY DEF Renewed, Alike
<1>4. CASE UNCHANGED rows
  BY <1>1, <1>2, <1>4 DEF Keyed, Rows, Uuids
<1>5. ASSUME NEW table, NEW keys, NEW row, MakesRow(r, table, keys, row)
      PROVE  /\ Keyed'
             /\ \A new \in rows' : new.uuid \in Uuids => \E old \in rows : Renewed(r, old, new)
             /\ \A x \in rows : x.uuid \in Uuids'
             /\ \A new \in rows' : new.table = "TaskExecution" => new.uuid \in Uuids
             /\ \A new \in rows' : new.table = "PipelineRun" /\ new.uuid \notin Uuids =>
                   CreateRun(r) /\ new.above = Above({loc[r].pipeline})
  <2>1. rows' = rows \cup {row} /\ row.table = table /\ table # "TaskExecution"
    BY <1>5 DEF MakesRow, Insert
  <2>2. row.uuid \in Uuids => row \in rows
    <3> SUFFICES ASSUME NEW old \in rows, old.uuid = row.uuid PROVE row = old
      BY DEF Uuids
    <3> QED
      BY <1>1, <2>1, OldRow
  <2>3. \A new \in rows' : new.uuid \in Uuids => \E old \in rows : Renewed(r, old, new)
    BY <1>2, <2>1, <2>2
  <2>4. ASSUME table = "Task"
        PROVE  \E p \in row.above : /\ row.key = <<row.id, "none", {p}>>
                                    /\ {u \in row.above : u[2] = "Pipeline"} = {p}
    <3>1. PICK p : p = loc[r].pipeline
      OBVIOUS
    <3>2. /\ row.above = Above(keys) /\ p \in keys /\ p[2] = "Pipeline"
          /\ row.key = <<row.id, "none", {k \in keys : k[2] = "Pipeline"}>>
          /\ \A k \in keys : k = p \/ k[2] \in {"Context", "Destination"}
      BY <1>5, <2>4, <3>1 DEF MakesRow
    <3>3. {k \in keys : k[2] = "Pipeline"} = {p}
      BY <3>2
    <3>4. ASSUME NEW u \in row.above, u[2] = "Pipeline" PROVE u = p
      <4>1. CASE u \in keys
        BY <3>2, <3>4, <4>1
      <4>2. ASSUME NEW parent \in rows, parent.uuid \in keys, u \in parent.above PROVE FALSE
        <5>1. <<parent.uuid[2], u[2]>> \in Hangs
          BY <4>2 DEF ApiInv, Hanging, Sound, Identified
        <5>2. parent.uuid[2] \in {"Pipeline", "Context", "Destination"}
          BY <3>2, <4>2
        <5> QED
          BY <3>4, <5>1, <5>2 DEF Hangs
      <4> QED
        BY <3>2, <4>1, <4>2 DEF Above
    <3>5. p \in row.above
      BY <3>2 DEF Above
    <3>6. {u \in row.above : u[2] = "Pipeline"} = {p}
      BY <3>2, <3>4, <3>5
    <3> QED
      BY <3>2, <3>3, <3>5, <3>6
  <2>5. Keyed'
    BY <2>1, <2>4 DEF Keyed, Rows
  <2>6. row.table = "PipelineRun" => CreateRun(r) /\ row.above = Above({loc[r].pipeline})
    BY <1>5 DEF MakesRow
  <2> QED
    BY <2>1, <2>3, <2>5, <2>6 DEF Uuids
<1>6. ASSUME NEW uuids, Delete(uuids), \A u \in uuids : u[2] # "TaskExecution"
      PROVE  /\ Keyed'
             /\ \A new \in rows' : new.uuid \in Uuids => \E old \in rows : Renewed(r, old, new)
             /\ \A x \in rows : x.table = "TaskExecution" /\ x.above \subseteq Uuids' => x.uuid \in Uuids'
             /\ \A new \in rows' : new.uuid \in Uuids
  <2>1. /\ rows' \subseteq rows
        /\ \A row \in rows : row.uuid \notin uuids /\ row.above \cap uuids = {} => row \in rows'
        /\ \A row \in rows' : row.uuid \notin uuids
    BY <1>6, DeleteSound DEF ApiInv
  <2>2. ASSUME NEW x \in rows, x.table = "TaskExecution", x.above \subseteq Uuids'
        PROVE  x \in rows'
    BY <1>6, <2>1, <2>2 DEF ApiInv, Sound, Identified, Uuids
  <2>3. Keyed'
    BY <2>1 DEF Keyed, Rows
  <2> QED
    BY <1>2, <2>1, <2>2, <2>3 DEF Uuids
<1>7. ASSUME NEW f, rows' = {f[row] : row \in rows}, \A row \in rows : Renewed(r, row, f[row])
      PROVE  /\ Keyed'
             /\ \A new \in rows' : new.uuid \in Uuids => \E old \in rows : Renewed(r, old, new)
             /\ \A x \in rows : x.uuid \in Uuids'
             /\ \A new \in rows' : new.uuid \in Uuids
  <2>1. \A new \in rows' : \E row \in rows : Renewed(r, row, new)
    BY <1>7
  <2>2. Keyed'
    <3>1. ASSUME NEW new \in rows', new.table = "TaskExecution"
          PROVE  new.key = <<"none", "none", {new.uuid}>>
      <4>1. PICK row \in rows : Renewed(r, row, new)
        BY <2>1
      <4> QED
        BY <1>3, <3>1, <4>1 DEF Keyed, Rows
    <3>2. ASSUME NEW new \in rows', new.table = "Task"
          PROVE  \E p \in new.above : /\ new.key = <<new.id, "none", {p}>>
                                      /\ {u \in new.above : u[2] = "Pipeline"} = {p}
      <4>1. PICK row \in rows : Renewed(r, row, new)
        BY <2>1
      <4>2. row \in Rows("Task")
        BY <1>3, <3>2, <4>1 DEF Rows
      <4> QED
        BY <1>3, <4>1, <4>2 DEF Keyed
    <3> QED
      BY <3>1, <3>2 DEF Keyed, Rows
  <2>3. \A x \in rows : x.uuid \in Uuids'
    <3> SUFFICES ASSUME NEW x \in rows PROVE x.uuid \in Uuids'
      OBVIOUS
    <3>1. f[x] \in rows' /\ f[x].uuid = x.uuid
      BY <1>3, <1>7
    <3> QED
      BY <3>1 DEF Uuids
  <2>4. \A new \in rows' : new.uuid \in Uuids
    BY <1>3, <2>1 DEF Uuids
  <2> QED
    BY <2>1, <2>2, <2>3, <2>4
<1> QED
  BY <1>1, <1>4, <1>5, <1>6, <1>7, ServeRewrites DEF Rewrites

\* The engine changes the status of its run and of its executions.
Reported(r, row, new) ==
    /\ Alike(row, new) /\ new.id = row.id /\ new.current = row.current /\ new.last = row.last
    /\ \/ new.value = row.value
       \/ row.uuid = RunOf(r)
       \/ \E task : row.uuid = ExecutionOf(r, task)

LEMMA ReportedImage ==
  ASSUME ApiInv, Keyed, NEW r \in Request, NEW S, NEW status,
         \A row \in S : row.uuid = RunOf(r) \/ \E task : row.uuid = ExecutionOf(r, task),
         rows' = {IF row \in S THEN [row EXCEPT !.value = status] ELSE row : row \in rows}
  PROVE  /\ Keyed'
         /\ \A new \in rows' : \E row \in rows : Reported(r, row, new)
<1>1. PICK f : f = [row \in rows |-> IF row \in S THEN [row EXCEPT !.value = status] ELSE row]
  OBVIOUS
<1>2. rows' = {f[row] : row \in rows}
  BY <1>1
<1>3. ASSUME NEW row \in rows PROVE Reported(r, row, f[row])
  <2>1. IsRow(row) /\ Alike(row, row)
    BY DEF ApiInv, Sound, Identified, Alike
  <2>2. CASE row \notin S
    BY <1>1, <2>1, <2>2 DEF Reported
  <2>3. CASE row \in S
    <3>1. PICK new : new = [row EXCEPT !.value = status]
      OBVIOUS
    <3>2. Alike(row, new)
      BY <2>1, <3>1, FieldUpdates
    <3>3. new.id = row.id /\ new.current = row.current /\ new.last = row.last
      BY <2>1, <3>1 DEF IsRow
    <3> QED
      BY <1>1, <2>3, <3>1, <3>2, <3>3 DEF Reported
  <2> QED
    BY <2>2, <2>3
<1>4. \A new \in rows' : \E row \in rows : Reported(r, row, new)
  BY <1>2, <1>3
<1>5. Keyed'
  <2>1. ASSUME NEW new \in rows', new.table = "TaskExecution"
        PROVE  new.key = <<"none", "none", {new.uuid}>>
    <3>1. PICK row \in rows : Reported(r, row, new)
      BY <1>4
    <3>2. row \in Rows("TaskExecution")
      BY <2>1, <3>1 DEF Reported, Alike, Rows
    <3> QED
      BY <3>1, <3>2 DEF Keyed, Reported, Alike
  <2>2. ASSUME NEW new \in rows', new.table = "Task"
        PROVE  \E p \in new.above : /\ new.key = <<new.id, "none", {p}>>
                                    /\ {u \in new.above : u[2] = "Pipeline"} = {p}
    <3>1. PICK row \in rows : Reported(r, row, new)
      BY <1>4
    <3>2. row \in Rows("Task")
      BY <2>2, <3>1 DEF Reported, Alike, Rows
    <3>3. /\ new.key = row.key /\ new.above = row.above /\ new.id = row.id
      BY <3>1 DEF Reported, Alike
    <3> QED
      BY <3>2, <3>3 DEF Keyed
  <2> QED
    BY <2>1, <2>2 DEF Keyed, Rows
<1> QED
  BY <1>4, <1>5

LEMMA ExecutionImage ==
  ASSUME ApiInv, Keyed, NEW r \in Request, NEW task, NEW status, UpdateExecution(r, task, status)
  PROVE  /\ Keyed'
         /\ \A new \in rows' : \E row \in rows : Reported(r, row, new)
<1>1. CASE ~Listening(r)
  <2>1. rows' = rows
    BY <1>1 DEF UpdateExecution
  <2>2. \A row \in rows : Reported(r, row, row)
    BY DEF Reported, ApiInv, Sound, Identified, Alike
  <2> QED
    BY <2>1, <2>2 DEF Keyed, Rows
<1>2. CASE Listening(r)
  <2>1. PICK S : S = {x \in rows : x.uuid = ExecutionOf(r, task)}
    OBVIOUS
  <2>2. \A row \in S : \E t : row.uuid = ExecutionOf(r, t)
    BY <2>1
  <2>3. rows' = {IF row \in S THEN [row EXCEPT !.value = status] ELSE row : row \in rows}
    BY <1>2, <2>1 DEF UpdateExecution
  <2> QED
    BY <2>2, <2>3, ReportedImage
<1> QED
  BY <1>1, <1>2

LEMMA EngineRows ==
  ASSUME ApiInv, Keyed, NEW r \in Request, Run(r)
  PROVE  /\ Sound' /\ Keyed' /\ Uuids \subseteq Uuids'
         /\ \A new \in rows' : new.uuid \in Uuids => \E row \in rows : Reported(r, row, new)
         /\ \A new \in rows' : new.uuid \in Uuids \/ (new.table = "TaskExecution" /\ new.uuid[1] = r)
<1>1. Sound'
  BY RunStep DEF ApiInv
<1>2. Uuids \subseteq Uuids'
  BY RunStays DEF Stays, Uuids
<1>3. \A row \in rows : Reported(r, row, row)
  BY DEF Reported, ApiInv, Sound, Identified, Alike
<1>4. (\A new \in rows' : \E row \in rows : Reported(r, row, new)) =>
         /\ \A new \in rows' : new.uuid \in Uuids
  BY DEF Reported, Alike, Uuids
<1>5. CASE Take(r) \/ RunEnds(r) \/ Terminate(r)
  <2>1. rows' = rows
    BY <1>5 DEF Take, RunEnds, Terminate
  <2>2. Keyed'
    BY <2>1 DEF Keyed, Rows
  <2> QED
    BY <1>1, <1>2, <1>3, <2>1, <2>2 DEF Uuids
<1>6. ASSUME NEW status, rows' = WithStatus(r, status)
      PROVE  Keyed' /\ \A new \in rows' : \E row \in rows : Reported(r, row, new)
  <2>1. PICK S : S = Updated(RunOf(r))
    OBVIOUS
  <2>2. \A row \in S : row.uuid = RunOf(r)
    BY <2>1 DEF Updated
  <2>3. rows' = {IF row \in S THEN [row EXCEPT !.value = status] ELSE row : row \in rows}
    BY <1>6, <2>1 DEF WithStatus
  <2> QED
    BY <2>2, <2>3, ReportedImage
<1>7. CASE \/ TaskActive(r) \/ TaskEnds(r) \/ RunActive(r)
           \/ \E status \in Final : UpdateRun(r, status)
  <2>1. \/ UNCHANGED rows \/ \E task, status : UpdateExecution(r, task, status)
        \/ \E status : rows' = WithStatus(r, status)
    BY <1>7 DEF TaskActive, TaskEnds, RunActive, UpdateRun
  <2>2. Keyed' /\ \A new \in rows' : \E row \in rows : Reported(r, row, new)
    <3>1. UNCHANGED rows => Keyed'
      BY DEF Keyed, Rows
    <3> QED
      BY <1>3, <1>6, <2>1, <3>1, ExecutionImage
  <2> QED
    BY <1>1, <1>2, <1>4, <2>2
<1>8. CASE CreateExecution(r)
  <2>1. \/ UNCHANGED rows
        \/ \E task, keys : Insert(NewRow("TaskExecution", ExecutionOf(r, task), "none", "none", "pending", keys))
    BY <1>8 DEF CreateExecution
  <2>2. CASE UNCHANGED rows
    <3>1. Keyed'
      BY <2>2 DEF Keyed, Rows
    <3> QED
      BY <1>1, <1>2, <1>3, <2>2, <3>1 DEF Uuids
  <2>3. ASSUME NEW task, NEW keys, NEW x,
               x = NewRow("TaskExecution", ExecutionOf(r, task), "none", "none", "pending", keys),
               Insert(x)
        PROVE  /\ Keyed'
               /\ \A new \in rows' : new.uuid \in Uuids => \E row \in rows : Reported(r, row, new)
               /\ \A new \in rows' : new.uuid \in Uuids \/ (new.table = "TaskExecution" /\ new.uuid[1] = r)
    <3>1. rows' = rows \cup {x}
      BY <2>3 DEF Insert
    <3>2. x.table = "TaskExecution" /\ x.uuid = ExecutionOf(r, task)
      <4>1. "TaskExecution" \in Table
        BY DEF Table
      <4> QED
        BY <2>3, <4>1, RowFields
    <3>3. x.key = <<"none", "none", {x.uuid}>>
      BY <2>3, <3>2, TaskKey DEF NewRow
    <3>4. Keyed'
      BY <3>1, <3>2, <3>3 DEF Keyed, Rows
    <3>5. x.uuid \in Uuids => x \in rows
      <4> SUFFICES ASSUME NEW old \in rows, old.uuid = x.uuid PROVE x = old
        BY DEF Uuids
      <4> QED
        BY <1>1, <3>1, OldRow
    <3>6. x.uuid[1] = r
      BY <3>2 DEF ExecutionOf, New
    <3> QED
      BY <1>3, <3>1, <3>2, <3>4, <3>5, <3>6 DEF Uuids
  <2> QED
    BY <1>1, <1>2, <2>1, <2>2, <2>3
<1> QED
  BY <1>5, <1>7, <1>8 DEF Run, EngineStep

-----------------------------------------------------------------------------
(***************************************************************************)
(* Requests for a run                                                      *)
(***************************************************************************)

\* Where a request that asks for a run can be, and whose steps those of dispatching are.
LEMMA RunPlaces ==
  ASSUME ApiInv, NEW r \in Request
  PROVE  /\ Asks(r, "run") => pc[r] \in {"sent", "done", "run", "create_run", "read_current",
                                         "set_current", "publish"}
         /\ pc[r] \in {"run", "create_run", "read_current", "set_current", "publish"} => Asks(r, "run")
         /\ reply[r] = "ok" => pc[r] = "done"
<1>1. pc[r] \in {"run", "create_run", "read_current", "set_current", "publish"} => Asks(r, "run")
  BY InDispatch, Operating DEF Operation, Asks
<1>2. Asks(r, "run") => pc[r] \in {"sent", "done", "run", "create_run", "read_current",
                                   "set_current", "publish"}
  BY OpOf DEF Asks, Flows, Creating, CreatesTask
<1>3. reply[r] = "ok" => pc[r] = "done"
  BY DEF ApiInv, Control, Placed
<1> QED
  BY <1>1, <1>2, <1>3

LEMMA RunRequest ==
  ASSUME ApiInv, NEW r \in Request, Serve(r), Asks(r, "run")
  PROVE  Authenticate(r) \/ DispatchStep(r)
<1> DEFINE Places == {"sent", "done", "run", "create_run", "read_current", "set_current", "publish"}
<1>1. pc[r] \in Places
  BY RunPlaces
<1>2. CASE PipelineStep(r)
  <2>1. \/ PostPipeline(r) \/ CreatePipeline(r) \/ LinkArchive(r) \/ BuildTasks(r)
        \/ Created(r) \/ Failed(r)
        => FALSE
    BY <1>1 DEF PostPipeline, CreatePipeline, LinkArchive, BuildTasks, Created, Failed, At
  <2>2. DeletePipeline(r) \/ DeleteTasks(r) \/ ChangeOwner(r) \/ SetOwner(r)
        \/ ChangeArchive(r) \/ AddLink(r) \/ RemoveLink(r) => FALSE
    BY <1>1 DEF DeletePipeline, DeleteTasks, ChangeOwner, SetOwner, ChangeArchive, AddLink, RemoveLink, At
  <2>3. PostTask(r) \/ PutTask(r) \/ DeleteTask(r) \/ RemoveTask(r) => FALSE
    BY <1>1 DEF PostTask, PutTask, DeleteTask, RemoveTask, At
  <2>4. CreateTask(r) => FALSE
    BY <1>1 DEF CreateTask, UseIdentity, WriteSecret, SaveCredentials, MakeHalf, MakeTask, Rollback,
                RollbackRow, RollbackDone, At
  <2> QED
    BY <1>2, <2>1, <2>2, <2>3, <2>4 DEF PipelineStep
<1>3. CASE AccountStep(r)
  <2>1. PostGroup(r) \/ CreateGroup(r) \/ CreateAdmin(r) \/ CreateUsers(r) \/ PostUser(r)
        \/ CreateUser(r) \/ PatchUser(r) \/ DeleteUser(r) \/ RemoveUser(r) => FALSE
    BY <1>1 DEF PostGroup, CreateGroup, CreateAdmin, CreateUsers, PostUser, CreateUser, PatchUser,
                DeleteUser, RemoveUser, At
  <2>2. PostIdentity(r) \/ IdentitySecret(r) \/ IdentityCredentials(r) \/ CreateIdentity(r)
        \/ DeleteIdentity(r) \/ DropSecret(r) \/ DropRow(r) => FALSE
    BY <1>1 DEF PostIdentity, IdentitySecret, IdentityCredentials, CreateIdentity, DeleteIdentity,
                DropSecret, DropRow, At
  <2>3. PostArchive(r) \/ CreateArchive(r) \/ DeleteArchive(r) \/ RemoveArchive(r) => FALSE
    BY <1>1 DEF PostArchive, CreateArchive, DeleteArchive, RemoveArchive, At
  <2> QED
    BY <1>3, <2>1, <2>2, <2>3 DEF AccountStep
<1>4. CASE ReadStep(r)
  BY <1>1, <1>4 DEF ReadStep, Reads
<1> QED
  BY <1>2, <1>3, <1>4 DEF Serve, ViewStep

LEMMA RefusalOfRun ==
  ASSUME NEW r \in Request
  PROVE  RunRefusal(r) # "ok"
  BY DEF RunRefusal, FirstOf, BodyRefusal, Refusal

\* The steps of a run request, one after the other.
LEMMA Dispatching ==
  ASSUME ApiInv, NEW r \in Request, Serve(r), Asks(r, "run")
  PROVE  \/ /\ pc[r] = "sent" /\ pc'[r] \in {"run", "done"} /\ reply'[r] # "ok"
            /\ loc'[r] = loc[r] /\ \A q \in Ask(r).after : pc[q] = "done"
         \/ /\ pc[r] = "run" /\ reply'[r] # "ok"
            /\ \/ pc'[r] = "done" /\ loc'[r] = loc[r]
               \/ pc'[r] = "create_run" /\ loc'[r].pipeline \in Uuids
         \/ /\ pc[r] = "create_run" /\ pc'[r] \in {"read_current", "done"} /\ reply'[r] # "ok"
            /\ loc'[r] = loc[r]
         \/ /\ pc[r] = "read_current" /\ reply'[r] # "ok" /\ loc'[r].pipeline = loc[r].pipeline
            /\ \/ pc'[r] = "done"
               \/ /\ pc'[r] = "set_current" /\ loc[r].pipeline \in Uuids
                  /\ loc'[r].target = RowOf(loc[r].pipeline).current
         \/ /\ pc[r] = "set_current" /\ pc'[r] = "publish" /\ reply'[r] # "ok" /\ loc'[r] = loc[r]
            /\ SetCurrent(r)
         \/ pc[r] = "publish" /\ pc'[r] = "done" /\ loc'[r] = loc[r]
<1>1. /\ DOMAIN pc = Request /\ DOMAIN reply = Request /\ DOMAIN loc = Request
      /\ pc[r] = "done" <=> reply[r] # "none"
  BY DEF ApiInv, Control, Placed
<1>2. \A code : Answer(r, code) => pc'[r] = "done" /\ reply'[r] = code /\ loc'[r] = loc[r]
  BY <1>1 DEF Answer
<1>3. \A label : Goto(r, label) => pc'[r] = label /\ reply'[r] = reply[r]
  BY <1>1 DEF Goto
<1>4. CASE Authenticate(r)
  BY <1>1, <1>2, <1>3, <1>4 DEF Authenticate, Asks
<1>5. CASE RunPipeline(r)
  <2>1. pc[r] = "run"
    BY <1>5 DEF RunPipeline, At
  <2>2. PICK code, rest : code = RunRefusal(r) /\ rest = DispatchedTasks(ThePipeline(r))
    OBVIOUS
  <2>3. PICK locals : locals = [Locals EXCEPT !.pipeline = ThePipeline(r).uuid, !.rest = rest]
    OBVIOUS
  <2>4. Check(r, code, "create_run", locals)
    BY <1>5, <2>2, <2>3 DEF RunPipeline
  <2>5. CASE code # "none"
    BY <1>2, <2>1, <2>2, <2>4, <2>5, RefusalOfRun DEF Check
  <2>6. CASE code = "none"
    <3>1. pc'[r] = "create_run" /\ reply'[r] = reply[r] /\ loc'[r] = locals
      BY <1>1, <1>3, <2>4, <2>6 DEF Check
    <3>2. locals.pipeline = ThePipeline(r).uuid
      BY <2>3 DEF Locals
    <3>3. Pipelines(r) # {}
      BY <2>2, <2>6 DEF RunRefusal, FirstOf
    <3>4. ThePipeline(r).uuid \in Uuids
      BY <3>3, Found
    <3> QED
      BY <1>1, <2>1, <3>1, <3>2, <3>4
  <2> QED
    BY <2>5, <2>6
<1>6. CASE CreateRun(r)
  BY <1>1, <1>2, <1>3, <1>6 DEF CreateRun, At
<1>7. CASE ReadCurrent(r)
  <2>1. pc[r] = "read_current"
    BY <1>7 DEF ReadCurrent, At
  <2>2. CASE Answer(r, "server_error")
    BY <1>2, <2>1, <2>2
  <2>3. CASE /\ loc[r].pipeline \in Uuids /\ Goto(r, "set_current")
             /\ Keep(r, "target", RowOf(loc[r].pipeline).current)
    <3>1. PICK current : current = RowOf(loc[r].pipeline).current
      OBVIOUS
    <3>2. loc'[r] = [loc[r] EXCEPT !.target = current]
      BY <1>1, <2>3, <3>1 DEF Keep
    <3>3. loc'[r].pipeline = loc[r].pipeline /\ loc'[r].target = current
      BY <2>1, <3>2, InDispatch DEF IsLocals
    <3> QED
      BY <1>1, <1>3, <2>1, <2>3, <3>1, <3>3
  <2> QED
    BY <1>7, <2>2, <2>3 DEF ReadCurrent
<1>8. CASE SetCurrent(r)
  BY <1>1, <1>3, <1>8 DEF SetCurrent, At
<1>9. CASE Publish(r)
  BY <1>1, <1>2, <1>9 DEF Publish, At
<1> QED
  BY <1>4, <1>5, <1>6, <1>7, <1>8, <1>9, RunRequest DEF DispatchStep

\* A request has read no pipeline before its view looks for one; the requests that it waits
\* for are done; the pipeline that it has read is nothing a request is still to make; and
\* its run hangs on no other pipeline.
Unread(r) == Asks(r, "run") /\ pc[r] \in {"sent", "run"} => loc[r].pipeline = NoRow
InTurn(r) ==
    Asks(r, "run") /\ pc[r] # "sent" => \A q \in Request \cap Ask(r).after : q # r /\ pc[q] = "done"
Settled(r) ==
    LET p == loc[r].pipeline IN
    Asks(r, "run") /\ p[2] = "Pipeline" /\ p[1] \in Request => ~Ahead(p[1], p[2], p[3])
RunAt(r) ==
    \A run \in rows : run.uuid = RunOf(r) =>
        Asks(r, "run") /\ {u \in run.above : u[2] = "Pipeline"} = {loc[r].pipeline}
DispatchInv == Keyed /\ \A r \in Request : Unread(r) /\ InTurn(r) /\ Settled(r) /\ RunAt(r)

LEMMA DispatchInit ==
  ASSUME Init
  PROVE  DispatchInv
<1>1. /\ pc = [r \in Request |-> "sent"] /\ loc = [r \in Request |-> Locals] /\ rows = Seed
  BY DEF Init, HandlingInit
<1>2. Locals.pipeline = NoRow /\ NoRow[2] # "Pipeline"
  BY NoRowAssumption DEF Locals, Table
<1>3. Keyed
  BY <1>1, SeedAssumption DEF Keyed, Rows
<1>4. \A r \in Request : RunAt(r)
  BY <1>1, SeedAssumption DEF RunAt, RunOf, New
<1>5. \A r \in Request : loc[r].pipeline = NoRow /\ pc[r] = "sent"
  BY <1>1, <1>2
<1> QED
  BY <1>2, <1>3, <1>4, <1>5 DEF DispatchInv, Unread, InTurn, Settled

\* What was read stays, and what was made stays on its pipeline.
LEMMA PipelineKept ==
  ASSUME ApiInv, NEW r \in Request, NEW s \in Request, Serve(s), Asks(r, "run"), s # r \/ pc[r] # "run"
  PROVE  loc'[r].pipeline = loc[r].pipeline
<1>1. CASE s # r
  BY <1>1, ServeStep DEF Step, Frame
<1>2. CASE s = r
  BY <1>2, Dispatching
<1> QED
  BY <1>1, <1>2

LEMMA StillDone ==
  ASSUME ApiInv, NEW q \in Request, NEW s \in Request, Serve(s), pc[q] = "done"
  PROVE  q # s /\ pc'[q] = "done" /\ reply'[q] = reply[q] /\ loc'[q] = loc[q]
  BY ServeStep DEF Step, Frame, GroupSteps

LEMMA DispatchServed ==
  ASSUME ApiInv, DispatchInv, NEW s \in Request, Serve(s)
  PROVE  DispatchInv'
<1>1. /\ Step(s) /\ batch' = batch /\ Keeps(s) /\ Sound' /\ Hanging' /\ Keyed
  BY ServeStep, StepFresh DEF Step, Frame, DispatchInv
<1>2. /\ \A new \in rows' : new.uuid \in Uuids => \E row \in rows : Renewed(s, row, new)
      /\ \A new \in rows' : new.table = "PipelineRun" /\ new.uuid \notin Uuids =>
            CreateRun(s) /\ new.above = Above({loc[s].pipeline})
      /\ Keyed'
  BY <1>1, ServeRows
<1>3. \A q \in Request \ {s} : pc'[q] = pc[q] /\ reply'[q] = reply[q] /\ loc'[q] = loc[q]
  BY <1>1 DEF Step, Frame
<1>4. \A r \in Request : Ask(r)' = Ask(r) /\ (Asks(r, "run")' <=> Asks(r, "run"))
  BY <1>1 DEF Ask, Asks
<1>5. ASSUME NEW r \in Request PROVE Unread(r)'
  <2>1. CASE r # s
    BY <1>3, <1>4, <2>1 DEF DispatchInv, Unread
  <2>2. CASE r = s
    BY <1>4, <2>2, Dispatching DEF DispatchInv, Unread
  <2> QED
    BY <2>1, <2>2
<1>6. ASSUME NEW r \in Request PROVE InTurn(r)'
  <2> SUFFICES ASSUME Asks(r, "run"), pc'[r] # "sent", NEW q \in Request, q \in Ask(r).after
               PROVE  q # r /\ pc'[q] = "done"
    BY <1>4 DEF InTurn
  <2>1. q # r /\ pc[q] = "done"
    <3>1. CASE pc[r] # "sent"
      BY <3>1 DEF DispatchInv, InTurn
    <3>2. CASE pc[r] = "sent"
      <4>1. r = s
        BY <1>3, <3>2
      <4> QED
        BY <3>2, <4>1, Dispatching
    <3> QED
      BY <3>1, <3>2
  <2> QED
    BY <2>1, StillDone
<1>7. \A q \in Request : \A table, n : Ahead(q, table, n)' => Ahead(q, table, n)
  BY <1>1, AheadOfOthers DEF Step, Advances
<1>8. ASSUME NEW r \in Request PROVE Settled(r)'
  <2> SUFFICES ASSUME NEW p, p = loc'[r].pipeline, Asks(r, "run"), p[2] = "Pipeline", p[1] \in Request
               PROVE  ~Ahead(p[1], p[2], p[3])'
    BY <1>4 DEF Settled
  <2>1. CASE p = loc[r].pipeline
    BY <1>7, <2>1 DEF DispatchInv, Settled
  <2>2. CASE p # loc[r].pipeline
    <3>1. s = r /\ pc[r] = "run"
      BY <2>2, PipelineKept
    <3>2. p \in Uuids
      BY <2>2, <3>1, Dispatching
    <3>3. ~Ahead(p[1], p[2], p[3])
      BY <3>2 DEF ApiInv, Fresh, Held
    <3> QED
      BY <1>7, <3>3
  <2> QED
    BY <2>1, <2>2
<1>9. ASSUME NEW r \in Request PROVE RunAt(r)'
  <2> SUFFICES ASSUME NEW run \in rows', run.uuid = RunOf(r)
               PROVE  /\ Asks(r, "run")
                      /\ {u \in run.above : u[2] = "Pipeline"} = {loc'[r].pipeline}
    BY <1>4 DEF RunAt, RunOf, New
  <2>1. run.table = "PipelineRun"
    BY <1>1 DEF Sound, Identified, RunOf, New
  <2>2. CASE run.uuid \in Uuids
    <3>1. PICK old \in rows : Renewed(s, old, run)
      BY <1>2, <2>2
    <3>2. old.uuid = RunOf(r) /\ old.above = run.above
      BY <3>1 DEF Renewed, Alike
    <3>3. Asks(r, "run") /\ {u \in run.above : u[2] = "Pipeline"} = {loc[r].pipeline}
      BY <3>2 DEF DispatchInv, RunAt
    <3>4. pc[r] # "run"
      <4>1. ~Ahead(r, "PipelineRun", 1)
        BY <2>2 DEF ApiInv, Fresh, Held, RunOf, New
      <4> QED
        BY <4>1 DEF Ahead, Operation
    <3> QED
      BY <3>3, <3>4, PipelineKept
  <2>3. CASE run.uuid \notin Uuids
    <3>1. CreateRun(s) /\ run.above = Above({loc[s].pipeline})
      BY <1>2, <2>1, <2>3
    <3>2. run.uuid[1] = s /\ run.uuid[1] = r
      BY <1>1, <2>3 DEF Keeps, Uuids, RunOf, New
    <3>3. s = r /\ pc[r] = "create_run"
      BY <3>1, <3>2 DEF CreateRun, At
    <3>4. Asks(r, "run") /\ loc[r].pipeline[2] = "Pipeline"
      BY <3>3, InDispatch DEF Asks
    <3>5. loc'[r].pipeline = loc[r].pipeline
      BY <3>3, <3>4, PipelineKept
    <3>6. PICK p : p = loc[r].pipeline
      OBVIOUS
    <3>7. ASSUME NEW u \in run.above, u[2] = "Pipeline" PROVE u = p
      <4>1. ASSUME NEW parent \in rows, parent.uuid = p, u \in parent.above PROVE FALSE
        <5>1. <<parent.uuid[2], u[2]>> \in Hangs
          BY <4>1 DEF ApiInv, Hanging, Sound, Identified
        <5> QED
          BY <3>4, <3>6, <3>7, <4>1, <5>1 DEF Hangs
      <4> QED
        BY <3>1, <3>3, <3>6, <4>1 DEF Above
    <3>8. p \in run.above
      BY <3>1, <3>3, <3>6 DEF Above
    <3> QED
      BY <3>4, <3>5, <3>6, <3>7, <3>8
  <2> QED
    BY <2>2, <2>3
<1> QED
  BY <1>2, <1>5, <1>6, <1>8, <1>9 DEF DispatchInv

\* A run that was not terminated has an execution asked for each task before the first one
\* ends, and completes after the last one has.
Progress(e) == ~e.killed =>
    /\ e.stage # "running" => e.ended = {} /\ "completed" \notin e.ends
    /\ e.stage = "running" => e.waiting = {}
    /\ "completed" \in e.ends => e.ended = e.tasks
\* The ends of its tasks were handled, if no call failed.
Heeded(e) == e.handler \/ "completed" \in e.ends
Follows(e, new) ==
    /\ new.tasks = e.tasks /\ new.waiting \subseteq e.waiting
    /\ e.ended \subseteq new.ended /\ e.lost \subseteq new.lost
    /\ e.killed => new.killed
    /\ Progress(e) => Progress(new)
    /\ Progress(e) /\ ~new.killed /\ Heeded(new) => Heeded(e) \/ new.ended = {}

\* The engine moves no request, and only the run of the step.
LEMMA EngineFrame ==
  ASSUME ApiInv, NEW s \in Request, Run(s)
  PROVE  /\ UNCHANGED <<pc, reply, loc, batch>>
         /\ DOMAIN engine' = Request
         /\ \A q \in Request \ {s} : engine'[q] = engine[q]
         /\ Follows(engine[s], engine'[s])
<1>1. IsRun(engine[s]) /\ DOMAIN engine = Request /\ batch' = batch
  BY DEF ApiInv, Reporting, ReportedOf, Run
<1>2. ASSUME ApiUnchanged, NEW e, NEW f, e = engine[s], engine' = [engine EXCEPT ![s] = f], Follows(e, f)
      PROVE  /\ UNCHANGED <<pc, reply, loc>>
             /\ DOMAIN engine' = Request
             /\ \A q \in Request \ {s} : engine'[q] = engine[q]
             /\ Follows(engine[s], engine'[s])
  BY <1>1, <1>2 DEF ApiUnchanged
<1>3. PICK e : e = engine[s]
  OBVIOUS
<1>4. IsRun(e) /\ Tells(e, reports[s])
  BY <1>3, EngineAt
<1>5. CASE Take(s)
  <2>1. e.stage = "queued" /\ ApiUnchanged
    BY <1>3, <1>5 DEF Take, Stage
  <2>2. ASSUME NEW stage \in {"over", "starting"}, NEW handler,
               NEW f, f = [e EXCEPT !.stage = stage, !.handler = handler]
        PROVE  Follows(e, f)
    BY <1>4, <2>1, <2>2 DEF IsRun, Follows, Progress
  <2>3. ASSUME NEW f, f = [e EXCEPT !.stage = "rejected", !.handler = TRUE, !.ends = {"failed"}]
        PROVE  Follows(e, f)
    BY <1>4, <2>1, <2>3 DEF IsRun, Follows, Progress
  <2>4. CASE Move(s, "over")
    <3>1. PICK f : f = [e EXCEPT !.stage = "over", !.handler = e.handler]
      OBVIOUS
    <3>2. f = [e EXCEPT !.stage = "over"]
      BY <1>4, <3>1 DEF IsRun
    <3>3. engine' = [engine EXCEPT ![s] = f]
      BY <1>3, <2>4, <3>2 DEF Move
    <3> QED
      BY <1>1, <1>2, <1>3, <2>1, <2>2, <3>1, <3>3
  <2>5. CASE engine' = [engine EXCEPT ![s].stage = "starting", ![s].handler = TRUE]
    <3>1. PICK f : f = [e EXCEPT !.stage = "starting", !.handler = TRUE]
      OBVIOUS
    <3>2. engine' = [engine EXCEPT ![s] = f]
      BY <1>1, <1>3, <2>5, <3>1
    <3> QED
      BY <1>1, <1>2, <1>3, <2>1, <2>2, <3>1, <3>2
  <2>6. CASE engine' = [engine EXCEPT ![s].stage = "rejected", ![s].handler = TRUE,
                                      ![s].ends = {"failed"}]
    <3>1. PICK f : f = [e EXCEPT !.stage = "rejected", !.handler = TRUE, !.ends = {"failed"}]
      OBVIOUS
    <3>2. engine' = [engine EXCEPT ![s] = f]
      BY <1>1, <1>3, <2>6, <3>1
    <3> QED
      BY <1>1, <1>2, <1>3, <2>1, <2>3, <3>1, <3>2
  <2> QED
    BY <1>5, <2>4, <2>5, <2>6 DEF Take
<1>6. CASE RunActive(s)
  <2>1. ApiUnchanged /\ (~e.killed => e.stage = "starting")
    BY <1>3, <1>4, <1>6 DEF RunActive, Tells
  <2>2. PICK stage, waiting, lost, f :
           /\ f = [e EXCEPT !.stage = stage, !.waiting = waiting, !.lost = lost]
           /\ stage \in {"running", "creating"} /\ (stage = "running" => waiting = {})
           /\ waiting \subseteq e.waiting
           /\ lost \in {e.lost, e.lost \cup e.tasks}
           /\ engine' = [engine EXCEPT ![s] = f]
    <3>1. CASE Move(s, IF e.waiting = {} THEN "running" ELSE "creating")
      <4>1. PICK stage : stage = IF e.waiting = {} THEN "running" ELSE "creating"
        OBVIOUS
      <4>2. PICK f : f = [e EXCEPT !.stage = stage, !.waiting = e.waiting, !.lost = e.lost]
        OBVIOUS
      <4>3. f = [e EXCEPT !.stage = stage]
        BY <1>4, <4>2 DEF IsRun
      <4>4. engine' = [engine EXCEPT ![s] = f]
        BY <1>3, <3>1, <4>1, <4>3 DEF Move
      <4> QED
        BY <4>1, <4>2, <4>4
    <3>2. CASE engine' = [engine EXCEPT ![s].stage = "running", ![s].waiting = {},
                                        ![s].lost = @ \cup engine[s].tasks]
      <4>1. PICK f : f = [e EXCEPT !.stage = "running", !.waiting = {}, !.lost = @ \cup e.tasks]
        OBVIOUS
      <4>2. engine' = [engine EXCEPT ![s] = f]
        BY <1>1, <1>3, <3>2, <4>1
      <4>3. PICK stage, waiting, lost :
               stage = "running" /\ waiting = {} /\ lost = e.lost \cup e.tasks
        OBVIOUS
      <4>4. f = [e EXCEPT !.stage = stage, !.waiting = waiting, !.lost = lost]
        BY <1>4, <4>1, <4>3 DEF IsRun
      <4>5. /\ stage \in {"running", "creating"} /\ (stage = "running" => waiting = {})
            /\ waiting \subseteq e.waiting /\ lost \in {e.lost, e.lost \cup e.tasks}
        BY <4>3
      <4> QED
        BY <4>2, <4>4, <4>5, Zenon
    <3> QED
      BY <1>3, <1>6, <3>1, <3>2 DEF RunActive
  <2>3. /\ f.tasks = e.tasks /\ f.waiting = waiting /\ f.ended = e.ended /\ f.killed = e.killed
        /\ f.ends = e.ends /\ f.stage = stage /\ f.handler = e.handler /\ f.lost = lost
    BY <1>4, <2>2 DEF IsRun
  <2>4. Progress(e) => Progress(f)
    BY <2>1, <2>2, <2>3 DEF Progress
  <2>5. Follows(e, f)
    BY <2>2, <2>3, <2>4 DEF Follows, Heeded
  <2> QED
    BY <1>1, <1>2, <1>3, <2>1, <2>2, <2>5
<1>7. ASSUME NEW status, UpdateRun(s, status)
      PROVE  /\ UNCHANGED <<pc, reply, loc>>
             /\ DOMAIN engine' = Request
             /\ \A q \in Request \ {s} : engine'[q] = engine[q]
             /\ Follows(engine[s], engine'[s])
  <2>1. ApiUnchanged /\ engine' = [engine EXCEPT ![s].handler = FALSE]
    BY <1>7 DEF UpdateRun
  <2>2. PICK f : f = [e EXCEPT !.handler = FALSE]
    OBVIOUS
  <2>3. engine' = [engine EXCEPT ![s] = f]
    BY <1>1, <1>3, <2>1, <2>2
  <2>4. /\ f.tasks = e.tasks /\ f.waiting = e.waiting /\ f.ended = e.ended /\ f.killed = e.killed
        /\ f.ends = e.ends /\ f.stage = e.stage /\ f.handler = FALSE /\ f.lost = e.lost
    BY <1>4, <2>2 DEF IsRun
  <2>5. Follows(e, f)
    BY <2>4 DEF Follows, Progress, Heeded
  <2> QED
    BY <1>1, <1>2, <1>3, <2>1, <2>3, <2>5
<1>8. CASE CreateExecution(s)
  <2>1. e.stage = "creating" /\ ApiUnchanged
    BY <1>3, <1>8 DEF CreateExecution, Stage
  <2>2. PICK task, lost :
           engine' = [engine EXCEPT ![s].waiting = @ \ {task}, ![s].lost = @ \cup lost,
                          ![s].stage = IF engine[s].waiting = {task} THEN "running" ELSE @]
    BY <1>8 DEF CreateExecution
  <2>3. PICK stage : stage = IF e.waiting = {task} THEN "running" ELSE e.stage
    OBVIOUS
  <2>4. PICK f : f = [e EXCEPT !.waiting = @ \ {task}, !.lost = @ \cup lost, !.stage = stage]
    OBVIOUS
  <2>5. engine' = [engine EXCEPT ![s] = f]
    BY <1>1, <1>3, <2>2, <2>3, <2>4
  <2>6. /\ f.tasks = e.tasks /\ f.waiting = e.waiting \ {task} /\ f.ended = e.ended
        /\ f.killed = e.killed /\ f.ends = e.ends /\ f.stage = stage /\ f.handler = e.handler
        /\ f.lost = e.lost \cup lost
    BY <1>4, <2>4 DEF IsRun
  <2>7. Progress(e) => Progress(f)
    BY <2>1, <2>3, <2>6 DEF Progress
  <2>8. Follows(e, f)
    BY <2>6, <2>7 DEF Follows, Heeded
  <2> QED
    BY <1>1, <1>2, <1>3, <2>1, <2>5, <2>8
<1>9. CASE TaskActive(s)
  <2>1. ApiUnchanged /\ engine' = engine
    BY <1>9 DEF TaskActive
  <2> QED
    BY <1>1, <2>1 DEF ApiUnchanged, Follows
<1>10. CASE TaskEnds(s)
  <2>1. e.stage = "running" /\ ApiUnchanged
    BY <1>3, <1>10 DEF TaskEnds, Stage
  <2>2. PICK task \in e.tasks \ e.ended : \E status, lost :
           engine' = [engine EXCEPT ![s].ended = @ \cup {task}, ![s].lost = @ \cup lost,
                                    ![s].failing = @ \/ status = "failed"]
    BY <1>3, <1>10 DEF TaskEnds
  <2>3. PICK status, lost :
           engine' = [engine EXCEPT ![s].ended = @ \cup {task}, ![s].lost = @ \cup lost,
                                    ![s].failing = @ \/ status = "failed"]
    BY <2>2, Zenon
  <2>4. PICK failing : failing = (e.failing \/ status = "failed")
    OBVIOUS
  <2>5. engine' = [engine EXCEPT ![s].ended = @ \cup {task}, ![s].lost = @ \cup lost,
                                 ![s].failing = failing]
    BY <1>3, <2>3, <2>4, Zenon
  <2>6. PICK f : f = [e EXCEPT !.ended = @ \cup {task}, !.lost = @ \cup lost, !.failing = failing]
    OBVIOUS
  <2>7. engine' = [engine EXCEPT ![s] = f]
    BY <1>1, <1>3, <2>5, <2>6
  <2>8. /\ f.tasks = e.tasks /\ f.waiting = e.waiting /\ f.ended = e.ended \cup {task}
        /\ f.killed = e.killed /\ f.ends = e.ends /\ f.stage = e.stage /\ f.handler = e.handler
        /\ f.lost = e.lost \cup lost
    BY <1>4, <2>6 DEF IsRun
  <2>9. Progress(e) => Progress(f)
    BY <2>1, <2>2, <2>8 DEF Progress
  <2>10. Follows(e, f)
    BY <2>8, <2>9 DEF Follows, Heeded
  <2> QED
    BY <1>1, <1>2, <1>3, <2>1, <2>7, <2>10
<1>11. CASE RunEnds(s)
  <2>1. e.stage = "running" /\ e.handler /\ ApiUnchanged
    BY <1>3, <1>11 DEF RunEnds, Stage
  <2>2. PICK end \in {"completed", "failed"} :
           /\ end = "completed" => e.ended = e.tasks
           /\ engine' = [engine EXCEPT ![s].ends = @ \cup {end}]
    BY <1>3, <1>11 DEF RunEnds
  <2>3. PICK f : f = [e EXCEPT !.ends = @ \cup {end}]
    OBVIOUS
  <2>4. engine' = [engine EXCEPT ![s] = f]
    BY <1>1, <1>3, <2>2, <2>3
  <2>5. /\ f.tasks = e.tasks /\ f.waiting = e.waiting /\ f.ended = e.ended /\ f.lost = e.lost
        /\ f.killed = e.killed /\ f.ends = e.ends \cup {end} /\ f.stage = e.stage
        /\ f.handler = e.handler
    BY <1>4, <2>3 DEF IsRun
  <2>6. Progress(e) => Progress(f)
    BY <2>1, <2>2, <2>5 DEF Progress
  <2>7. Follows(e, f)
    BY <2>1, <2>5, <2>6 DEF Follows, Heeded
  <2> QED
    BY <1>1, <1>2, <1>3, <2>1, <2>4, <2>7
<1>12. CASE Terminate(s)
  <2>1. ApiUnchanged /\ engine' = [engine EXCEPT ![s].killed = TRUE]
    BY <1>12 DEF Terminate
  <2>2. PICK f : f = [e EXCEPT !.killed = TRUE]
    OBVIOUS
  <2>3. engine' = [engine EXCEPT ![s] = f]
    BY <1>1, <1>3, <2>1, <2>2
  <2>4. /\ f.tasks = e.tasks /\ f.waiting = e.waiting /\ f.ended = e.ended /\ f.killed
        /\ f.lost = e.lost
    BY <1>4, <2>2 DEF IsRun
  <2>5. Follows(e, f)
    BY <2>4 DEF Follows, Progress
  <2> QED
    BY <1>1, <1>2, <1>3, <2>1, <2>3, <2>5
<1> QED
  BY <1>1, <1>5, <1>6, <1>7, <1>8, <1>9, <1>10, <1>11, <1>12 DEF Run, EngineStep

LEMMA DispatchEngine ==
  ASSUME ApiInv, DispatchInv, NEW s \in Request, Run(s)
  PROVE  DispatchInv'
<1>1. /\ UNCHANGED <<pc, reply, loc, batch>> /\ DOMAIN engine' = Request
      /\ \A q \in Request \ {s} : engine'[q] = engine[q]
      /\ engine'[s].waiting \subseteq engine[s].waiting
  BY EngineFrame DEF Follows
<1>2. /\ Keyed' /\ Sound'
      /\ \A new \in rows' : new.uuid \in Uuids => \E row \in rows : Reported(s, row, new)
      /\ \A new \in rows' : new.uuid \in Uuids \/ (new.table = "TaskExecution" /\ new.uuid[1] = s)
  BY EngineRows DEF DispatchInv
<1>3. \A q \in Request : \A table, n : Ahead(q, table, n)' => Ahead(q, table, n)
  BY <1>1 DEF Ahead, AheadInTask
<1>4. \A r \in Request : Unread(r)' /\ InTurn(r)' /\ Settled(r)'
  BY <1>1, <1>3 DEF DispatchInv, Unread, InTurn, Settled, Ask, Asks
<1>5. ASSUME NEW r \in Request, NEW run \in rows', run.uuid = RunOf(r)
      PROVE  Asks(r, "run") /\ {u \in run.above : u[2] = "Pipeline"} = {loc[r].pipeline}
  <2>1. run.table = "PipelineRun"
    BY <1>2, <1>5 DEF Sound, Identified, RunOf, New
  <2>2. PICK row \in rows : Reported(s, row, run)
    BY <1>2, <2>1
  <2>3. row.uuid = RunOf(r) /\ row.above = run.above
    BY <1>5, <2>2 DEF Reported, Alike
  <2> QED
    BY <2>3 DEF DispatchInv, RunAt
<1>6. \A r \in Request : RunAt(r)'
  BY <1>1, <1>5 DEF RunAt, Ask, Asks, RunOf, New
<1> QED
  BY <1>2, <1>4, <1>6 DEF DispatchInv

LEMMA DispatchNext ==
  ASSUME ApiInv, DispatchInv, [Next]_vars
  PROVE  DispatchInv'
<1>1. CASE UNCHANGED vars
  BY <1>1 DEF vars, DispatchInv, Keyed, Rows, Unread, InTurn, Settled, RunAt, RunOf, New, Ask,
              Asks, Ahead, AheadInTask
<1>2. CASE Next
  BY <1>2, DispatchServed, DispatchEngine DEF Next
<1> QED
  BY <1>1, <1>2

-----------------------------------------------------------------------------
(***************************************************************************)
(* The runs that a pipeline names                                          *)
(***************************************************************************)

\* Request r asks for a run when q has been answered, and any third request for a run of
\* pipeline p was answered before q was sent.  As soon as q has made its run current, r reads
\* it, and makes its own the current one with that of q as the last.
Following(q, r) == q # r /\ q \in Ask(r).after /\ Asks(q, "run") /\ Asks(r, "run")
NoOther(q, r, p) ==
    \A x \in Request \ {q, r} : Asks(x, "run") /\ loc[x].pipeline = p => x \in Ask(q).after
Before == {"sent", "run", "create_run", "read_current", "set_current"}
Named(q, r, p) ==
    /\ (pc[q] = "publish" \/ reply[q] = "ok") /\ pc[r] \in Before => p.current = RunOf(q)
    /\ reply[q] = "ok" /\ loc[r].pipeline = p.uuid /\ pc[r] = "set_current" =>
          loc[r].target = RunOf(q)
    /\ reply[q] = "ok" /\ loc[r].pipeline = p.uuid /\ (pc[r] = "publish" \/ reply[r] = "ok") =>
          p.current = RunOf(r) /\ p.last = RunOf(q)
ChainOf(q, r) ==
    Following(q, r) =>
        \A p \in rows : p.uuid[2] = "Pipeline" /\ p.uuid = loc[q].pipeline /\ NoOther(q, r, p.uuid) =>
            Named(q, r, p)
ChainInv == \A q, r \in Request : ChainOf(q, r)

LEMMA RunsAreRows == ASSUME NEW q PROVE RunOf(q) # NoRow
  BY NoRowAssumption DEF RunOf, New, Table

\* What making a run the current one does to each row.
LEMMA CurrentSet ==
  ASSUME ApiInv, NEW s \in Request, SetCurrent(s), Sound', NEW p \in rows, NEW new \in rows',
         new.uuid = p.uuid
  PROVE  /\ p.uuid # loc[s].pipeline => new.current = p.current /\ new.last = p.last
         /\ p.uuid = loc[s].pipeline =>
               /\ new.current = RunOf(s)
               /\ loc[s].target # NoRow => new.last = loc[s].target
<1>1. PICK pipeline, run, before :
         pipeline = loc[s].pipeline /\ run = RunOf(s) /\ before = loc[s].target
  OBVIOUS
<1>2. PICK image : image = IF p.uuid = pipeline THEN Chained(p, run, before) ELSE p
  OBVIOUS
<1>3. image \in rows'
  BY <1>1, <1>2 DEF SetCurrent
<1>4. IsRow(p)
  BY DEF ApiInv, Sound, Identified
<1>5. CASE p.uuid = pipeline
  <2>1. PICK last : last = IF before = NoRow THEN p.last ELSE before
    OBVIOUS
  <2>2. image = [p EXCEPT !.current = run, !.last = last]
    BY <1>2, <1>5, <2>1 DEF Chained
  <2>3. image.current = run /\ image.last = last /\ image.uuid = p.uuid
    BY <1>4, <2>2 DEF IsRow
  <2>4. new = image
    BY <1>3, <2>3 DEF Sound, Identified
  <2> QED
    BY <1>1, <1>5, <2>1, <2>3, <2>4
<1>6. CASE p.uuid # pipeline
  <2>1. new = p
    BY <1>2, <1>3, <1>6 DEF Sound, Identified
  <2> QED
    BY <1>1, <1>6, <2>1
<1> QED
  BY <1>5, <1>6

LEMMA ChainServed ==
  ASSUME ApiInv, DispatchInv, ChainInv, NEW s \in Request, Serve(s)
  PROVE  ChainInv'
<1>1. Step(s) /\ batch' = batch /\ Keeps(s) /\ Sound'
  BY ServeStep, StepFresh DEF Step, Frame
<1>2. \A new \in rows' : new.uuid \in Uuids => \E row \in rows : Renewed(s, row, new)
  BY ServeRows DEF DispatchInv
<1>3. \A x \in Request \ {s} : pc'[x] = pc[x] /\ reply'[x] = reply[x] /\ loc'[x] = loc[x]
  BY <1>1 DEF Step, Frame
<1>4. \A x \in Request : Ask(x)' = Ask(x) /\ (Asks(x, "run")' <=> Asks(x, "run"))
  BY <1>1 DEF Ask, Asks
<1>5. \A x \in Request : reply[x] # "none" <=> pc[x] = "done"
  BY DEF ApiInv, Control, Placed
<1>6. pc[s] # "done" /\ reply[s] = "none"
  BY <1>1, <1>5 DEF Step, GroupSteps
<1> SUFFICES ASSUME NEW q \in Request, NEW r \in Request, q # r, q \in Ask(r).after,
                    Asks(q, "run"), Asks(r, "run"), NEW new \in rows', new.uuid[2] = "Pipeline",
                    new.uuid = loc'[q].pipeline, NoOther(q, r, new.uuid)',
                    pc'[q] = "publish" \/ reply'[q] = "ok"
             PROVE  Named(q, r, new)'
  BY <1>4 DEF ChainInv, ChainOf, Following, Named
<1>7. loc'[q].pipeline = loc[q].pipeline
  <2>1. CASE s # q \/ pc[q] # "run"
    BY <2>1, PipelineKept
  <2>2. CASE s = q /\ pc[q] = "run"
    BY <2>2, Dispatching
  <2> QED
    BY <2>1, <2>2
<1>8. PICK p \in rows : Renewed(s, p, new) /\ p.uuid = new.uuid
  <2>1. new.uuid \in Uuids
    <3>1. ASSUME new.uuid \notin Uuids PROVE FALSE
      <4>1. PICK u : u = new.uuid
        OBVIOUS
      <4>2. u[1] = s /\ Ahead(s, u[2], u[3])
        BY <1>1, <3>1, <4>1 DEF Keeps, Uuids
      <4>3. u = loc[q].pipeline /\ u[2] = "Pipeline"
        BY <1>7, <4>1
      <4> QED
        BY <4>2, <4>3 DEF DispatchInv, Settled
    <3> QED
      BY <3>1
  <2> QED
    BY <1>2, <2>1 DEF Renewed, Alike
<1>9. NoOther(q, r, p.uuid)
  <2> SUFFICES ASSUME NEW x \in Request \ {q, r}, Asks(x, "run"), loc[x].pipeline = p.uuid
               PROVE  x \in Ask(q).after
    BY DEF NoOther
  <2>1. s # x \/ pc[x] # "run"
    <3>1. p.uuid # NoRow
      BY <1>8, NoRowAssumption DEF Table
    <3> QED
      BY <3>1 DEF DispatchInv, Unread
  <2>2. loc'[x].pipeline = p.uuid
    BY <2>1, PipelineKept
  <2> QED
    BY <1>4, <1>8, <2>2 DEF NoOther
<1>10. Named(q, r, p)
  BY <1>7, <1>8, <1>9 DEF ChainInv, ChainOf, Following
<1>11. ASSUME ~SetCurrent(s) \/ loc[s].pipeline # p.uuid
       PROVE  new.current = p.current /\ new.last = p.last
  <2>1. CASE ~SetCurrent(s)
    BY <1>8, <2>1 DEF Renewed
  <2>2. CASE SetCurrent(s)
    BY <1>1, <1>8, <1>11, <2>2, CurrentSet
  <2> QED
    BY <2>1, <2>2
<1>12. \A x \in Request : RunOf(x)' = RunOf(x)
  BY DEF RunOf, New
<1>13. SetCurrent(s) => Asks(s, "run") /\ pc[s] = "set_current"
  BY InDispatch DEF SetCurrent, At, Asks
<1>14. CASE s \notin {q, r}
  <2>1. pc[q] # "sent"
    BY <1>3, <1>5, <1>14
  <2>2. ~SetCurrent(s) \/ loc[s].pipeline # p.uuid
    <3> SUFFICES ASSUME SetCurrent(s), loc[s].pipeline = p.uuid PROVE FALSE
      OBVIOUS
    <3>1. s \in Ask(q).after
      BY <1>9, <1>13, <1>14 DEF NoOther
    <3> QED
      BY <1>6, <2>1, <3>1 DEF DispatchInv, InTurn
  <2>3. /\ pc'[q] = pc[q] /\ reply'[q] = reply[q] /\ pc'[r] = pc[r] /\ reply'[r] = reply[r]
        /\ loc'[r] = loc[r]
    BY <1>3, <1>14
  <2> QED
    BY <1>8, <1>10, <1>11, <1>12, <2>2, <2>3 DEF Named
<1>15. CASE s = q
  <2>1. pc[r] = "sent" /\ pc'[r] = "sent" /\ reply'[r] = "none"
    BY <1>3, <1>5, <1>6, <1>15 DEF DispatchInv, InTurn
  <2>2. pc[q] # "done" /\ reply[q] = "none"
    BY <1>6, <1>15
  <2>3. CASE pc[q] = "set_current" /\ SetCurrent(q)
    <3>1. new.current = RunOf(q)
      BY <1>1, <1>7, <1>8, <1>15, <2>3, CurrentSet
    <3> QED
      BY <1>12, <2>1, <3>1 DEF Named
  <2>4. CASE pc[q] = "publish"
    <3>1. new.current = p.current
      BY <1>11, <1>13, <1>15, <2>4
    <3>2. p.current = RunOf(q)
      BY <1>10, <2>1, <2>4 DEF Named, Before
    <3> QED
      BY <1>12, <2>1, <3>1, <3>2 DEF Named
  <2> QED
    BY <1>15, <2>3, <2>4, Dispatching
<1>16. CASE s = r
  <2>1. pc'[q] = pc[q] /\ reply'[q] = reply[q] /\ loc'[q] = loc[q]
    BY <1>3, <1>16
  <2>2. CASE pc[r] \in {"sent", "run", "create_run"}
    <3>1. new.current = p.current
      BY <1>11, <1>13, <1>16, <2>2
    <3>2. pc'[r] \in {"run", "create_run", "read_current", "done"} /\ reply'[r] # "ok"
      BY <1>16, <2>2, Dispatching
    <3>3. p.current = RunOf(q)
      BY <1>10, <2>1, <2>2 DEF Named, Before
    <3> QED
      BY <1>12, <3>1, <3>2, <3>3 DEF Named
  <2>3. CASE pc[r] = "read_current"
    <3>1. new.current = p.current
      BY <1>11, <1>13, <1>16, <2>3
    <3>2. /\ reply'[r] # "ok" /\ loc'[r].pipeline = loc[r].pipeline
          /\ \/ pc'[r] = "done"
             \/ pc'[r] = "set_current" /\ loc'[r].target = RowOf(loc[r].pipeline).current
      BY <1>16, <2>3, Dispatching
    <3>3. p.current = RunOf(q)
      BY <1>10, <2>1, <2>3 DEF Named, Before
    <3>4. RowOf(p.uuid) = p
      BY DEF RowOf, ApiInv, Sound, Identified
    <3> QED
      BY <1>8, <1>12, <3>1, <3>2, <3>3, <3>4 DEF Named
  <2>4. CASE pc[r] = "set_current"
    <3>1. SetCurrent(r) /\ pc'[r] = "publish" /\ reply'[r] # "ok" /\ loc'[r] = loc[r]
      BY <1>16, <2>4, Dispatching
    <3>2. ASSUME reply[q] = "ok", loc[r].pipeline = p.uuid
          PROVE  new.current = RunOf(r) /\ new.last = RunOf(q)
      <4>1. loc[r].target = RunOf(q) /\ loc[r].target # NoRow
        BY <1>10, <2>4, <3>2, RunsAreRows DEF Named
      <4> QED
        BY <1>1, <1>8, <3>1, <3>2, <4>1, CurrentSet
    <3> QED
      BY <1>8, <1>12, <2>1, <3>1, <3>2 DEF Named, Before
  <2>5. CASE pc[r] = "publish"
    <3>1. new.current = p.current /\ new.last = p.last
      BY <1>11, <1>13, <1>16, <2>5
    <3>2. pc'[r] = "done" /\ loc'[r] = loc[r]
      BY <1>16, <2>5, Dispatching
    <3> QED
      BY <1>8, <1>10, <1>12, <2>1, <2>5, <3>1, <3>2 DEF Named, Before
  <2> QED
    BY <1>16, <2>2, <2>3, <2>4, <2>5, Dispatching
<1> QED
  BY <1>14, <1>15, <1>16

LEMMA ChainEngine ==
  ASSUME ApiInv, DispatchInv, ChainInv, NEW s \in Request, Run(s)
  PROVE  ChainInv'
<1>1. UNCHANGED <<pc, reply, loc, batch>>
  BY EngineFrame
<1>2. /\ Sound'
      /\ \A new \in rows' : new.uuid \in Uuids => \E row \in rows : Reported(s, row, new)
      /\ \A new \in rows' : new.uuid \in Uuids \/ (new.table = "TaskExecution" /\ new.uuid[1] = s)
  BY EngineRows DEF DispatchInv
<1> SUFFICES ASSUME NEW q \in Request, NEW r \in Request, Following(q, r), NEW new \in rows',
                    new.uuid[2] = "Pipeline", new.uuid = loc[q].pipeline, NoOther(q, r, new.uuid)
             PROVE  Named(q, r, new)'
  BY <1>1 DEF ChainInv, ChainOf, Following, NoOther, Ask, Asks
<1>3. new.uuid \in Uuids
  BY <1>2 DEF Sound, Identified
<1>4. PICK p \in rows : Reported(s, p, new)
  BY <1>2, <1>3
<1>5. p.uuid = new.uuid /\ new.current = p.current /\ new.last = p.last
  BY <1>4 DEF Reported, Alike
<1>6. Named(q, r, p)
  BY <1>5 DEF ChainInv, ChainOf
<1> QED
  BY <1>1, <1>5, <1>6 DEF Named, RunOf, New

\* A pipeline that two runs were asked for, one after the other, names both, the later one as
\* current and the other as last, unless a third run of it was asked for meanwhile
\* (PipelineDispatcher.dispatch).
THEOREM ChainIsKept == Spec => []ChainKept
<1>1. Init => DispatchInv /\ ChainInv
  <2> SUFFICES ASSUME Init PROVE DispatchInv /\ ChainInv
    OBVIOUS
  <2>1. \A r \in Request : loc[r].pipeline = NoRow
    BY DEF Init, HandlingInit, Locals
  <2>2. NoRow[2] # "Pipeline"
    BY NoRowAssumption DEF Table
  <2> QED
    BY <2>1, <2>2, DispatchInit DEF ChainInv, ChainOf
<1>2. ApiInv /\ DispatchInv /\ ChainInv /\ [Next]_vars => (DispatchInv /\ ChainInv)'
  <2> SUFFICES ASSUME ApiInv, DispatchInv, ChainInv, [Next]_vars PROVE (DispatchInv /\ ChainInv)'
    OBVIOUS
  <2>1. CASE UNCHANGED vars
    <3>1. DispatchInv'
      BY <2>1, DispatchNext
    <3>2. ChainInv'
      BY <2>1 DEF vars, ChainInv, ChainOf, Following, NoOther, Named, RunOf, New, Ask, Asks
    <3> QED
      BY <3>1, <3>2
  <2>2. CASE Next
    BY <2>2, DispatchNext, ChainServed, ChainEngine DEF Next
  <2> QED
    BY <2>1, <2>2
<1>3. ApiInv /\ DispatchInv /\ ChainInv => ChainKept
  <2> SUFFICES ASSUME ApiInv, DispatchInv, ChainInv, NEW q \in Request, NEW r \in Request,
                      Asks(q, "run"), Asks(r, "run"), reply[q] = "ok", reply[r] = "ok",
                      q \in Ask(r).after,
                      \A x \in Request \ {q, r} :
                         Asks(x, "run") /\ loc[x].pipeline = loc[r].pipeline => x \in Ask(q).after,
                      NEW p \in rows, p.table = "Pipeline", p.uuid = loc[r].pipeline,
                      p.uuid = loc[q].pipeline
               PROVE  p.current = RunOf(r) /\ p.last = RunOf(q)
    BY DEF ChainKept, Dispatched, Rows
  <2>1. pc[r] = "done"
    BY RunPlaces
  <2>2. q # r
    BY <2>1 DEF DispatchInv, InTurn
  <2>3. p.uuid[2] = "Pipeline"
    BY DEF ApiInv, Sound, Identified
  <2>4. Named(q, r, p)
    BY <2>2, <2>3 DEF ChainInv, ChainOf, Following, NoOther
  <2> QED
    BY <2>4 DEF Named
<1> QED
  BY <1>1, <1>2, <1>3, Invariant, PTL DEF Spec

-----------------------------------------------------------------------------
(***************************************************************************)
(* The executions of the tasks of a run                                    *)
(***************************************************************************)

\* A task that was there before its run was asked for has an execution as soon as one was
\* asked for, which hangs on nothing but the run and the task; and its result when the task
\* has ended, as long as the ends are handled.  A task whose calls were lost is left out.
Results == {"completed", "failed", "skipped"}
Given(r, t) ==
    /\ t.table = "Task" /\ t.id \in engine[r].tasks /\ loc[r].pipeline \in t.above
    /\ Maker(t) \in Request => Maker(t) \in Ask(r).after
Executes(r, run, t, x) ==
    /\ x.uuid = ExecutionOf(r, t.id)
    /\ x.above \subseteq {run.uuid, t.uuid} \cup run.above \cup t.above
    /\ Heeded(engine[r]) /\ t.id \in engine[r].ended => x.value \in Results
ExecutedOf(r) == ~engine[r].killed =>
    \A run, t \in rows :
        run.uuid = RunOf(r) /\ Given(r, t) /\ t.id \notin engine[r].waiting \cup engine[r].lost =>
            \E x \in rows : Executes(r, run, t, x)
WorkInv ==
    \A r \in Request : /\ engine[r].tasks # {} => Asks(r, "run")
                       /\ Progress(engine[r]) /\ ExecutedOf(r)

LEMMA Published ==
  ASSUME ApiInv, NEW s \in Request, Serve(s), engine'[s] # engine[s]
  PROVE  /\ Asks(s, "run")
         /\ \E rest : engine'[s] = [Unpublished EXCEPT !.stage = "queued", !.tasks = rest,
                                                       !.waiting = rest]
<1>1. Publish(s)
  BY DEF Serve, ViewStep, DispatchStep, RunPipeline, CreateRun, ReadCurrent, SetCurrent, EngineUnchanged
<1>2. Asks(s, "run")
  BY <1>1, InDispatch DEF Publish, At, Asks
<1>3. EngineKept(s)
  BY ServeStep DEF Step
<1> QED
  BY <1>2, <1>3 DEF EngineKept

LEMMA WorkServed ==
  ASSUME ApiInv, DispatchInv, WorkInv, NEW s \in Request, Serve(s)
  PROVE  WorkInv'
<1>1. Step(s) /\ EngineKept(s) /\ batch' = batch /\ Keeps(s) /\ Sound' /\ pc[s] # "done"
  BY ServeStep, StepFresh DEF Step, Frame, GroupSteps
<1>2. /\ \A new \in rows' : new.uuid \in Uuids => \E row \in rows : Renewed(s, row, new)
      /\ \A x \in rows : x.table = "TaskExecution" /\ x.above \subseteq Uuids' => x.uuid \in Uuids'
  BY ServeRows DEF DispatchInv
<1>3. \A q \in Request : Ask(q)' = Ask(q) /\ (Asks(q, "run")' <=> Asks(q, "run"))
  BY <1>1 DEF Ask, Asks
<1>4. ASSUME NEW r \in Request, engine'[r] # engine[r]
      PROVE  /\ engine'[r].tasks # {} => Asks(r, "run")'
             /\ Progress(engine'[r]) /\ ExecutedOf(r)'
  <2>1. r = s
    BY <1>1, <1>4 DEF EngineKept
  <2>2. Asks(r, "run")'
    BY <1>3, <1>4, <2>1, Published
  <2>3. PICK rest : engine'[r] = [Unpublished EXCEPT !.stage = "queued", !.tasks = rest,
                                                     !.waiting = rest]
    BY <1>4, <2>1, Published
  <2>4. /\ engine'[r].stage = "queued" /\ engine'[r].tasks = rest /\ engine'[r].waiting = rest
        /\ engine'[r].ended = {} /\ engine'[r].ends = {}
    BY <2>3 DEF Unpublished
  <2>5. Progress(engine'[r])
    BY <2>4 DEF Progress
  <2>6. ExecutedOf(r)'
    BY <2>4 DEF ExecutedOf, Given
  <2> QED
    BY <2>2, <2>5, <2>6
<1>5. ASSUME NEW r \in Request, engine'[r] = engine[r]
      PROVE  ExecutedOf(r)'
  <2> SUFFICES ASSUME ~engine[r].killed, NEW run \in rows', NEW t \in rows', run.uuid = RunOf(r),
                      Given(r, t)', t.id \notin engine[r].waiting \cup engine[r].lost
               PROVE  \E x \in rows' : Executes(r, run, t, x)'
    BY <1>5 DEF ExecutedOf, RunOf, New
  <2>1. /\ t.table = "Task" /\ t.id \in engine[r].tasks /\ loc'[r].pipeline \in t.above
        /\ Maker(t) \in Request => Maker(t) \in Ask(r).after
    BY <1>3, <1>5 DEF Given, Maker
  <2>2. Asks(r, "run") /\ pc[r] = "done"
    <3>1. engine[r] = Unpublished => engine[r].tasks = {}
      BY DEF Unpublished
    <3> QED
      BY <2>1, <3>1 DEF WorkInv, ApiInv, Reporting, ReportedOf
  <2>3. r # s /\ loc'[r] = loc[r]
    BY <2>2, StillDone
  <2>4. run.uuid \in Uuids
    BY <1>1, <2>3 DEF Keeps, Uuids, RunOf, New
  <2>5. t.uuid \in Uuids
    <3> SUFFICES ASSUME t.uuid \notin Uuids PROVE FALSE
      OBVIOUS
    <3>1. Maker(t) = s
      BY <1>1 DEF Keeps, Uuids, Maker
    <3>2. s \in Ask(r).after /\ pc[r] # "sent"
      BY <2>1, <2>2, <3>1
    <3> QED
      BY <1>1, <2>2, <3>2 DEF DispatchInv, InTurn
  <2>6. PICK oldrun \in rows, oldt \in rows : Renewed(s, oldrun, run) /\ Renewed(s, oldt, t)
    BY <1>2, <2>4, <2>5
  <2>7. /\ oldrun.uuid = run.uuid /\ oldrun.above = run.above
        /\ oldt.uuid = t.uuid /\ oldt.above = t.above /\ oldt.id = t.id /\ oldt.table = t.table
    BY <2>6 DEF Renewed, Alike
  <2>8. Given(r, oldt)
    BY <2>1, <2>3, <2>7 DEF Given, Maker
  <2>9. PICK x \in rows : Executes(r, oldrun, oldt, x)
    BY <2>7, <2>8 DEF WorkInv, ExecutedOf
  <2>10. x.table = "TaskExecution"
    BY <2>9 DEF ApiInv, Sound, Identified, Executes, ExecutionOf, New
  <2>11. x.above \subseteq Uuids'
    <3>1. run.uuid \in Uuids' /\ t.uuid \in Uuids' /\ run.above \subseteq Uuids' /\ t.above \subseteq Uuids'
      BY <1>1 DEF Sound, DatabaseIntegrity, Uuids
    <3> QED
      BY <2>7, <2>9, <3>1 DEF Executes
  <2>12. PICK new \in rows' : new.uuid = x.uuid
    BY <1>2, <2>10, <2>11 DEF Uuids
  <2>13. PICK old \in rows : Renewed(s, old, new)
    BY <1>2, <2>12 DEF Uuids
  <2>14. old = x
    BY <2>12, <2>13 DEF Renewed, Alike, ApiInv, Sound, Identified
  <2>15. new.above = x.above /\ new.value = x.value
    BY <2>13, <2>14 DEF Renewed, Alike
  <2>16. Executes(r, run, t, new)'
    BY <1>5, <2>7, <2>9, <2>12, <2>15 DEF Executes, ExecutionOf, New
  <2> QED
    BY <2>16
<1>6. ASSUME NEW r \in Request, engine'[r] = engine[r]
      PROVE  (engine'[r].tasks # {} => Asks(r, "run")') /\ Progress(engine'[r])
  BY <1>3, <1>6 DEF WorkInv
<1> QED
  BY <1>4, <1>5, <1>6 DEF WorkInv

\* Only the end of a task makes it one that has ended.
LEMMA EndedBy ==
  ASSUME ApiInv, NEW s \in Request, Run(s), ~TaskEnds(s)
  PROVE  engine'[s].ended = engine[s].ended
<1>1. IsRun(engine[s]) /\ DOMAIN engine = Request
  BY DEF ApiInv, Reporting, ReportedOf
<1>2. CASE Take(s) \/ Terminate(s) \/ TaskActive(s)
  BY <1>1, <1>2 DEF Take, Move, Terminate, TaskActive, IsRun
<1>3. ASSUME NEW status, UpdateRun(s, status) PROVE engine'[s].ended = engine[s].ended
  BY <1>1, <1>3 DEF UpdateRun, IsRun
<1>4. CASE CreateExecution(s)
  <2>1. PICK task, lost : engine' = [engine EXCEPT ![s].waiting = @ \ {task}, ![s].lost = @ \cup lost,
                              ![s].stage = IF engine[s].waiting = {task} THEN "running" ELSE @]
    BY <1>4 DEF CreateExecution
  <2>2. PICK stage : stage = IF engine[s].waiting = {task} THEN "running" ELSE engine[s].stage
    OBVIOUS
  <2>3. engine' = [engine EXCEPT ![s].waiting = @ \ {task}, ![s].lost = @ \cup lost,
                                 ![s].stage = stage]
    BY <1>1, <2>1, <2>2
  <2> QED
    BY <1>1, <2>3 DEF IsRun
<1>5. CASE RunEnds(s)
  <2>1. PICK end : engine' = [engine EXCEPT ![s].ends = @ \cup {end}]
    BY <1>5 DEF RunEnds
  <2> QED
    BY <1>1, <2>1 DEF IsRun
<1>6. CASE RunActive(s)
  <2>1. CASE \E stage : Move(s, stage)
    BY <1>1, <2>1 DEF Move, IsRun
  <2>2. CASE engine' = [engine EXCEPT ![s].stage = "running", ![s].waiting = {},
                                      ![s].lost = @ \cup engine[s].tasks]
    BY <1>1, <2>2 DEF IsRun
  <2> QED
    BY <1>6, <2>1, <2>2 DEF RunActive
<1> QED
  BY <1>2, <1>3, <1>4, <1>5, <1>6 DEF Run, EngineStep

\* Only the call for its execution takes a task off those that wait for one, or the failure
\* of the call before.
LEMMA WaitingBy ==
  ASSUME ApiInv, NEW s \in Request, Run(s), ~CreateExecution(s)
  PROVE  engine'[s].waiting = engine[s].waiting \/ engine[s].tasks \subseteq engine'[s].lost
<1>1. IsRun(engine[s]) /\ DOMAIN engine = Request
  BY DEF ApiInv, Reporting, ReportedOf
<1>2. CASE Take(s) \/ Terminate(s) \/ TaskActive(s)
  BY <1>1, <1>2 DEF Take, Move, Terminate, TaskActive, IsRun
<1>3. ASSUME NEW status, UpdateRun(s, status) PROVE engine'[s].waiting = engine[s].waiting
  BY <1>1, <1>3 DEF UpdateRun, IsRun
<1>4. CASE TaskEnds(s)
  <2>1. PICK task, lost, failing :
           engine' = [engine EXCEPT ![s].ended = @ \cup {task}, ![s].lost = @ \cup lost,
                                    ![s].failing = failing]
    BY <1>4, Zenon DEF TaskEnds
  <2> QED
    BY <1>1, <2>1 DEF IsRun
<1>5. CASE RunEnds(s)
  <2>1. PICK end : engine' = [engine EXCEPT ![s].ends = @ \cup {end}]
    BY <1>5 DEF RunEnds
  <2> QED
    BY <1>1, <2>1 DEF IsRun
<1>6. CASE RunActive(s)
  <2>1. CASE \E stage : Move(s, stage)
    BY <1>1, <2>1 DEF Move, IsRun
  <2>2. CASE engine' = [engine EXCEPT ![s].stage = "running", ![s].waiting = {},
                                      ![s].lost = @ \cup engine[s].tasks]
    BY <1>1, <2>2 DEF IsRun
  <2> QED
    BY <1>6, <2>1, <2>2 DEF RunActive
<1> QED
  BY <1>2, <1>3, <1>4, <1>5, <1>6 DEF Run, EngineStep

\* An execution keeps the result of a task that has ended, and gets it when the task ends.
LEMMA ResultKept ==
  ASSUME ApiInv, DispatchInv, NEW s \in Request, Run(s), NEW r \in Request, Progress(engine[r]),
         ~engine'[r].killed, NEW id, NEW x \in rows, x.uuid = ExecutionOf(r, id),
         Heeded(engine[r]) /\ id \in engine[r].ended => x.value \in Results,
         NEW new \in rows', new.uuid = x.uuid, Heeded(engine'[r]), id \in engine'[r].ended,
         id \notin engine'[r].lost
  PROVE  new.value \in Results
<1>1. /\ Sound' /\ \A y \in rows' : y.uuid \in Uuids => \E row \in rows : Reported(s, row, y)
  BY EngineRows DEF DispatchInv
<1>2. /\ \A q \in Request \ {s} : engine'[q] = engine[q]
      /\ Heeded(engine[r]) /\ ~engine[r].killed
  <2>1. (\A q \in Request \ {s} : engine'[q] = engine[q]) /\ Follows(engine[s], engine'[s])
    BY EngineFrame
  <2> QED
    BY <2>1 DEF Follows
<1>3. PICK row \in rows : Reported(s, row, new)
  BY <1>1 DEF Uuids
<1>4. row = x
  BY <1>3 DEF Reported, Alike, ApiInv, Sound, Identified
<1>5. x \in rows' => new = x
  BY <1>1 DEF Sound, Identified
<1>6. IsRow(x) /\ x.table = "TaskExecution"
  BY DEF ApiInv, Sound, Identified, ExecutionOf, New
<1>7. CASE s # r
  <2>1. new.value = x.value
    BY <1>3, <1>4, <1>7 DEF Reported, RunOf, ExecutionOf, New
  <2> QED
    BY <1>2, <1>7, <2>1
<1>8. CASE s = r /\ ~TaskEnds(s)
  <2>1. id \in engine[r].ended
    BY <1>8, EndedBy
  <2>2. x \in rows'
    <3>1. CASE Take(s) \/ RunEnds(s) \/ Terminate(s) \/ CreateExecution(s)
      BY <3>1 DEF Take, RunEnds, Terminate, CreateExecution, Insert
    <3>2. CASE RunActive(s) \/ \E status \in Final : UpdateRun(s, status)
      <4>1. x \notin Updated(RunOf(s))
        BY <1>6 DEF Updated, Rows
      <4>2. \A status : rows' = WithStatus(s, status) => x \in rows'
        BY <4>1 DEF WithStatus
      <4> QED
        BY <3>2, <4>2 DEF RunActive, UpdateRun
    <3>3. CASE TaskActive(s)
      <4>1. PICK task \in engine[s].tasks \ engine[s].ended : UpdateExecution(s, task, "active")
        BY <3>3 DEF TaskActive
      <4>2. x.uuid # ExecutionOf(s, task)
        BY <1>8, <2>1, <4>1 DEF ExecutionOf, New
      <4> QED
        BY <4>1, <4>2 DEF UpdateExecution
    <3> QED
      BY <1>8, <3>1, <3>2, <3>3 DEF Run, EngineStep
  <2> QED
    BY <1>2, <1>5, <2>1, <2>2
<1>9. CASE s = r /\ TaskEnds(s)
  <2>1. PICK task \in engine[s].tasks \ engine[s].ended, status \in {"completed", "failed", "skipped"} :
           \E lost \in IF CallsFail(s) THEN {{}, {task}} ELSE {{}} :
              /\ IF lost = {} THEN UpdateExecution(s, task, status) ELSE UNCHANGED rows
              /\ engine' = [engine EXCEPT ![s].ended = @ \cup {task}, ![s].lost = @ \cup lost,
                                          ![s].failing = @ \/ status = "failed"]
    BY <1>9, Zenon DEF TaskEnds
  <2>2. PICK lost \in IF CallsFail(s) THEN {{}, {task}} ELSE {{}} :
           /\ IF lost = {} THEN UpdateExecution(s, task, status) ELSE UNCHANGED rows
           /\ engine' = [engine EXCEPT ![s].ended = @ \cup {task}, ![s].lost = @ \cup lost,
                                       ![s].failing = @ \/ status = "failed"]
    BY <2>1, Zenon
  <2>3. status \in Results /\ lost \in {{}, {task}}
    <3>1. status \in Results
      BY DEF Results
    <3>2. lost \in {{}, {task}}
      OBVIOUS
    <3> QED
      BY <3>1, <3>2
  <2>8. /\ engine'[s].ended = engine[s].ended \cup {task}
        /\ engine'[s].lost = engine[s].lost \cup lost
    <3>1. IsRun(engine[s]) /\ DOMAIN engine = Request
      BY DEF ApiInv, Reporting, ReportedOf
    <3>2. PICK failing : engine' = [engine EXCEPT ![s].ended = @ \cup {task}, ![s].lost = @ \cup lost,
                                                  ![s].failing = failing]
      BY <2>2, Zenon
    <3> QED
      BY <3>1, <3>2 DEF IsRun
  <2>9. Listening(s)
    <3>1. "completed" \in engine[s].ends => engine[s].ended = engine[s].tasks
      BY <1>2, <1>9 DEF Progress
    <3> QED
      BY <1>2, <1>9, <2>1, <3>1 DEF Heeded, Listening
  <2>4. PICK execution : execution = ExecutionOf(s, task)
    OBVIOUS
  <2>5. lost = {} =>
           rows' = {IF y.uuid = execution THEN [y EXCEPT !.value = status] ELSE y : y \in rows}
    <3>1. lost = {} => UpdateExecution(s, task, status)
      BY <2>2
    <3> QED
      BY <2>4, <2>9, <3>1 DEF UpdateExecution
  <2>6. CASE id = task
    <3>1. PICK y : y = [x EXCEPT !.value = status]
      OBVIOUS
    <3>2. lost = {}
      BY <1>9, <2>3, <2>6, <2>8
    <3>3. y \in rows' /\ y.uuid = x.uuid /\ y.value = status
      BY <1>6, <1>9, <2>4, <2>5, <2>6, <3>1, <3>2 DEF IsRow
    <3>4. new = y
      BY <1>1, <3>3 DEF Sound, Identified
    <3> QED
      BY <2>3, <3>3, <3>4
  <2>7. CASE id # task
    <3>1. x.uuid # execution
      BY <2>4, <2>7 DEF ExecutionOf, New
    <3>2. x \in rows'
      <4>1. CASE lost = {}
        BY <2>5, <3>1, <4>1
      <4>2. CASE lost # {}
        BY <2>2, <4>2
      <4> QED
        BY <4>1, <4>2
    <3> QED
      BY <1>2, <1>5, <1>9, <2>7, <2>8, <3>2
  <2> QED
    BY <2>6, <2>7
<1> QED
  BY <1>7, <1>8, <1>9

\* The execution that is made for a task hangs on the task and its run.
LEMMA ExecutionMade ==
  ASSUME ApiInv, DispatchInv, NEW r \in Request, CreateExecution(r), NEW run \in rows, NEW t \in rows,
         run.uuid = RunOf(r), Given(r, t), t.id \in engine[r].waiting,
         t.id \notin engine'[r].waiting \cup engine'[r].lost
  PROVE  \E x \in rows' : /\ x.uuid = ExecutionOf(r, t.id)
                          /\ x.above \subseteq {run.uuid, t.uuid} \cup run.above \cup t.above
<1>1. IsRun(engine[r]) /\ DOMAIN engine = Request
  BY DEF ApiInv, Reporting, ReportedOf
<1>2. PICK task \in engine[r].waiting : \E lost \in {{}, {task}} :
         LET found == IF RunOf(r) \in Uuids
                      THEN UNION {Find("Task", task, p) : p \in PipelineOf(RowOf(RunOf(r)))} ELSE {}
             row == NewRow("TaskExecution", ExecutionOf(r, task), "none", "none", "pending",
                           {RunOf(r)} \cup {x.uuid : x \in found})
         IN
         /\ IF lost = {} /\ found # {} /\ Insertable(row) THEN Insert(row) ELSE UNCHANGED rows
         /\ engine' = [engine EXCEPT ![r].waiting = @ \ {task}, ![r].lost = @ \cup lost,
                           ![r].stage = IF engine[r].waiting = {task} THEN "running" ELSE @]
  BY Zenon DEF CreateExecution
<1>3. PICK p, found, keys, new, stage :
         /\ p = loc[r].pipeline
         /\ found = IF RunOf(r) \in Uuids
                    THEN UNION {Find("Task", task, u) : u \in PipelineOf(RowOf(RunOf(r)))} ELSE {}
         /\ keys = {RunOf(r)} \cup {x.uuid : x \in found}
         /\ new = NewRow("TaskExecution", ExecutionOf(r, task), "none", "none", "pending", keys)
         /\ stage = IF engine[r].waiting = {task} THEN "running" ELSE engine[r].stage
  OBVIOUS
<1>17. PICK lost \in {{}, {task}} :
         /\ IF lost = {} /\ found # {} /\ Insertable(new) THEN Insert(new) ELSE UNCHANGED rows
         /\ engine' = [engine EXCEPT ![r].waiting = @ \ {task}, ![r].lost = @ \cup lost,
                                     ![r].stage = stage]
  BY <1>2, <1>3
<1>5. /\ engine'[r].waiting = engine[r].waiting \ {task}
      /\ engine'[r].lost = engine[r].lost \cup lost
  BY <1>1, <1>17 DEF IsRun
<1>6. t.id = task
  BY <1>5
<1>4. IF found # {} /\ Insertable(new) THEN Insert(new) ELSE UNCHANGED rows
  BY <1>5, <1>6, <1>17
<1>7. RowOf(RunOf(r)) = run /\ RunOf(r) \in Uuids
  BY DEF RowOf, Uuids, ApiInv, Sound, Identified
<1>8. PipelineOf(run) = {p} /\ p[2] = "Pipeline" /\ p \in t.above
  <2>1. PipelineOf(run) = {p}
    BY <1>3 DEF DispatchInv, RunAt, PipelineOf
  <2> QED
    BY <1>3, <2>1 DEF PipelineOf, Given
<1>9. found = Find("Task", task, p)
  BY <1>3, <1>7, <1>8
<1>10. found = {t}
  <2>1. t \in found
    BY <1>6, <1>8, <1>9 DEF Find, Under, Rows, Given
  <2>2. ASSUME NEW y \in found PROVE y = t
    <3>1. /\ y \in rows /\ y.table = "Task" /\ y.id = t.id /\ p \in y.above /\ t.table = "Task"
      BY <1>6, <1>9 DEF Find, Under, Rows, Given
    <3>2. y.key = <<t.id, "none", {p}>> /\ t.key = <<t.id, "none", {p}>>
      <4>1. PICK a \in y.above : y.key = <<y.id, "none", {a}>> /\ {u \in y.above : u[2] = "Pipeline"} = {a}
        BY <3>1 DEF DispatchInv, Keyed, Rows
      <4>2. PICK b \in t.above : t.key = <<t.id, "none", {b}>> /\ {u \in t.above : u[2] = "Pipeline"} = {b}
        BY <3>1 DEF DispatchInv, Keyed, Rows
      <4>3. a = p /\ b = p
        BY <1>8, <3>1, <4>1, <4>2
      <4> QED
        BY <3>1, <4>1, <4>2, <4>3
    <3> QED
      BY <3>1, <3>2 DEF ApiInv, Sound, DatabaseIntegrity
  <2> QED
    BY <2>1, <2>2
<1>11. keys = {run.uuid, t.uuid}
  BY <1>3, <1>10
<1>12. "TaskExecution" \in Table
  BY DEF Table
<1>13. /\ new.uuid = ExecutionOf(r, task) /\ new.above = Above(keys) /\ new.table = "TaskExecution"
       /\ new.key = <<"none", "none", {new.uuid}>>
  <2>1. new.uuid = ExecutionOf(r, task) /\ new.above = Above(keys) /\ new.table = "TaskExecution"
    BY <1>3, <1>12, RowFields
  <2>2. new.key = UniqueKey("TaskExecution", ExecutionOf(r, task), "none", "none", keys)
    BY <1>3 DEF NewRow
  <2> QED
    BY <2>1, <2>2, TaskKey
<1>14. new.above = {run.uuid, t.uuid} \cup run.above \cup t.above
  BY <1>11, <1>13 DEF Above, ApiInv, Sound, Identified
<1>15. Insertable(new)
  <2>1. new.above \subseteq Uuids
    BY <1>14 DEF ApiInv, Sound, DatabaseIntegrity, Uuids
  <2>2. new.uuid \notin Uuids
    <3>1. Ahead(r, "TaskExecution", task)
      BY <1>2 DEF Ahead
    <3> QED
      BY <1>13, <3>1 DEF ApiInv, Fresh, Held, ExecutionOf, New
  <2>3. ASSUME NEW other \in Rows("TaskExecution") PROVE other.key # new.key
    <3>1. other.key = <<"none", "none", {other.uuid}>> /\ other.uuid # new.uuid
      BY <2>2 DEF DispatchInv, Keyed, Rows, Uuids
    <3> QED
      BY <1>13, <3>1
  <2> QED
    BY <1>13, <2>1, <2>3 DEF Insertable
<1>16. new \in rows'
  BY <1>4, <1>10, <1>15 DEF Insert
<1> QED
  BY <1>6, <1>13, <1>14, <1>16

LEMMA WorkEngine ==
  ASSUME ApiInv, DispatchInv, WorkInv, NEW s \in Request, Run(s)
  PROVE  WorkInv'
<1>1. /\ UNCHANGED <<pc, reply, loc, batch>>
      /\ \A q \in Request \ {s} : engine'[q] = engine[q]
      /\ Follows(engine[s], engine'[s])
  BY EngineFrame
<1>2. /\ Sound' /\ Uuids \subseteq Uuids'
      /\ \A new \in rows' : new.uuid \in Uuids => \E row \in rows : Reported(s, row, new)
      /\ \A new \in rows' : new.uuid \in Uuids \/ (new.table = "TaskExecution" /\ new.uuid[1] = s)
  BY EngineRows DEF DispatchInv
<1>3. ASSUME NEW r \in Request
      PROVE  /\ engine'[r].tasks # {} => Asks(r, "run")'
             /\ Progress(engine'[r]) /\ engine'[r].tasks = engine[r].tasks
             /\ engine[r].killed => engine'[r].killed
  <2>1. Asks(r, "run")' <=> Asks(r, "run")
    BY <1>1 DEF Ask, Asks
  <2>2. (engine[r].tasks # {} => Asks(r, "run")) /\ Progress(engine[r])
    BY DEF WorkInv
  <2>3. CASE r = s
    BY <1>1, <2>1, <2>2, <2>3 DEF Follows
  <2>4. CASE r # s
    BY <1>1, <2>1, <2>2, <2>4
  <2> QED
    BY <2>3, <2>4
<1>4. ASSUME NEW r \in Request PROVE ExecutedOf(r)'
  <2> SUFFICES ASSUME ~engine'[r].killed, NEW run \in rows', NEW t \in rows', run.uuid = RunOf(r),
                      Given(r, t)', t.id \notin engine'[r].waiting \cup engine'[r].lost
               PROVE  \E x \in rows' : Executes(r, run, t, x)'
    BY DEF ExecutedOf, RunOf, New
  <2>1. /\ t.table = "Task" /\ t.id \in engine[r].tasks /\ loc[r].pipeline \in t.above
        /\ Maker(t) \in Request => Maker(t) \in Ask(r).after
    BY <1>1, <1>3 DEF Given, Maker, Ask
  <2>2. run.uuid \in Uuids /\ t.uuid \in Uuids
    BY <1>2, <2>1 DEF Sound, Identified, RunOf, New
  <2>3. PICK oldrun \in rows, oldt \in rows : Reported(s, oldrun, run) /\ Reported(s, oldt, t)
    BY <1>2, <2>2
  <2>4. /\ oldrun.uuid = run.uuid /\ oldrun.above = run.above
        /\ oldt.uuid = t.uuid /\ oldt.above = t.above /\ oldt.id = t.id /\ oldt.table = t.table
    BY <2>3 DEF Reported, Alike
  <2>5. Given(r, oldt) /\ ~engine[r].killed
    BY <1>3, <2>1, <2>4 DEF Given, Maker
  <2>8. t.id \notin engine[r].lost
    <3>1. engine[r].lost \subseteq engine'[r].lost
      BY <1>1 DEF Follows
    <3> QED
      BY <3>1
  <2>6. CASE t.id \notin engine[r].waiting
    <3>1. PICK x \in rows : Executes(r, oldrun, oldt, x)
      BY <2>4, <2>5, <2>6, <2>8 DEF WorkInv, ExecutedOf
    <3>2. PICK new \in rows' : new.uuid = x.uuid
      BY <1>2 DEF Uuids
    <3>3. PICK old \in rows : Reported(s, old, new)
      BY <1>2, <3>2 DEF Uuids
    <3>4. old = x
      BY <3>2, <3>3 DEF Reported, Alike, ApiInv, Sound, Identified
    <3>5. new.above = x.above
      BY <3>3, <3>4 DEF Reported, Alike
    <3>6. /\ x.uuid = ExecutionOf(r, t.id)
          /\ Heeded(engine[r]) /\ t.id \in engine[r].ended => x.value \in Results
      BY <2>4, <3>1 DEF Executes
    <3>7. Progress(engine[r])
      BY DEF WorkInv
    <3>8. Heeded(engine'[r]) /\ t.id \in engine'[r].ended => new.value \in Results
      BY <2>5, <3>2, <3>6, <3>7, ResultKept
    <3>9. Executes(r, run, t, new)'
      BY <2>4, <3>1, <3>2, <3>5, <3>6, <3>8 DEF Executes, ExecutionOf, New
    <3> QED
      BY <3>9
  <2>7. CASE t.id \in engine[r].waiting
    <3>1. s = r
      BY <1>1, <2>7
    <3>2. CASE ~CreateExecution(s)
      BY <2>1, <2>7, <3>1, <3>2, WaitingBy
    <3>3. CASE CreateExecution(s)
      <4>1. PICK x \in rows' : /\ x.uuid = ExecutionOf(r, t.id)
                               /\ x.above \subseteq {run.uuid, t.uuid} \cup run.above \cup t.above
        BY <2>4, <2>5, <2>7, <3>1, <3>3, ExecutionMade
      <4>2. engine'[r].ended = {}
        <5>1. engine[r].ended = {}
          BY <2>5, <3>1, <3>3 DEF CreateExecution, Stage, WorkInv, Progress
        <5>2. ~TaskEnds(s)
          BY <3>3 DEF CreateExecution, TaskEnds, Stage
        <5> QED
          BY <3>1, <5>1, <5>2, EndedBy
      <4>3. Executes(r, run, t, x)'
        BY <4>1, <4>2 DEF Executes, ExecutionOf, New
      <4> QED
        BY <4>3
    <3> QED
      BY <3>2, <3>3
  <2> QED
    BY <2>6, <2>7
<1> QED
  BY <1>3, <1>4 DEF WorkInv

\* When a run is reported completed, each of its tasks that was there before it was asked for
\* and has not been deleted meanwhile has an execution with its result, unless one of the calls
\* about it has failed: the exchange drops the error and nobody repeats the call
\* (CreateTaskExecution, UpdateTaskExecutionStatus and the order of the engine's calls).
THEOREM ExecutionsAreReported == Spec => []ExecutionsReported
<1>1. Init => DispatchInv /\ WorkInv
  <2> SUFFICES ASSUME Init PROVE DispatchInv /\ WorkInv
    OBVIOUS
  <2>1. \A r \in Request : engine[r] = Unpublished
    BY DEF Init, RunInit
  <2>2. /\ Unpublished.tasks = {} /\ Unpublished.stage = "none" /\ Unpublished.ended = {}
        /\ Unpublished.ends = {}
    BY DEF Unpublished
  <2>3. \A r \in Request : Progress(engine[r]) /\ ExecutedOf(r)
    BY <2>1, <2>2 DEF Progress, ExecutedOf, Given
  <2> QED
    BY <2>1, <2>2, <2>3, DispatchInit DEF WorkInv
<1>2. ApiInv /\ DispatchInv /\ WorkInv /\ [Next]_vars => (DispatchInv /\ WorkInv)'
  <2> SUFFICES ASSUME ApiInv, DispatchInv, WorkInv, [Next]_vars PROVE (DispatchInv /\ WorkInv)'
    OBVIOUS
  <2>1. CASE UNCHANGED vars
    <3>1. DispatchInv'
      BY <2>1, DispatchNext
    <3>2. UNCHANGED <<rows, loc, engine, batch>>
      BY <2>1 DEF vars
    <3>3. \A r : \A t : Given(r, t)' <=> Given(r, t)
      BY <3>2 DEF Given, Ask, Maker
    <3>4. \A r : \A run, t, x : Executes(r, run, t, x)' <=> Executes(r, run, t, x)
      BY <3>2 DEF Executes, ExecutionOf, New
    <3>5. \A r \in Request : ExecutedOf(r) => ExecutedOf(r)'
      BY <3>2, <3>3, <3>4 DEF ExecutedOf, RunOf, New
    <3>6. \A r : (Asks(r, "run")' <=> Asks(r, "run"))
      BY <3>2 DEF Ask, Asks
    <3>7. WorkInv'
      BY <3>2, <3>5, <3>6 DEF WorkInv
    <3> QED
      BY <3>1, <3>7
  <2>2. CASE Next
    BY <2>2, DispatchNext, WorkServed, WorkEngine DEF Next
  <2> QED
    BY <2>1, <2>2
<1>3. ApiInv /\ WorkInv => ExecutionsReported
  <2> SUFFICES ASSUME ApiInv, WorkInv, NEW r \in Request, "completed" \in engine[r].ends,
                      ~engine[r].killed, RunOf(r) \in Uuids, NEW task \in Remaining(r),
                      task.id \notin engine[r].lost
               PROVE  \E x \in Rows("TaskExecution") :
                         x.uuid = ExecutionOf(r, task.id) /\ x.value \in Results
    BY DEF ExecutionsReported, Results
  <2>1. task \in rows /\ Given(r, task)
    BY DEF Remaining, Rows, Given
  <2>2. task.id \in engine[r].ended /\ task.id \notin engine[r].waiting
    BY <2>1 DEF WorkInv, Progress, Given
  <2>3. PICK run \in rows : run.uuid = RunOf(r)
    BY DEF Uuids
  <2>4. PICK x \in rows : Executes(r, run, task, x)
    BY <2>1, <2>2, <2>3 DEF WorkInv, ExecutedOf
  <2>5. x.table = "TaskExecution"
    BY <2>4 DEF ApiInv, Sound, Identified, Executes, ExecutionOf, New
  <2> QED
    BY <2>2, <2>4, <2>5 DEF Executes, Heeded, Rows
<1> QED
  BY <1>1, <1>2, <1>3, Invariant, PTL DEF Spec
=============================================================================

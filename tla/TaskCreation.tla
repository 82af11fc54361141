---------------------------- MODULE TaskCreation ----------------------------
(***************************************************************************)
(* TaskService.create with SecretService and the rollbacks of Service.  A  *)
(* request creates the tasks in loc.todo one after the other.  For an      *)
(* image build it first makes the context and then the destination, each   *)
(* with an identity or with credentials of its own; what it makes it       *)
(* registers for rollback.  The services are module-level objects: the     *)
(* list of rollbacks belongs to the worker process, and nothing removes an *)
(* entry from it.                                                          *)
(***************************************************************************)
EXTENDS RequestHandling

VARIABLE rollbacks      \* what each worker process has registered for rollback

CreationInit == rollbacks = [w \in Worker |-> <<>>]

Task(r) == Head(loc[r].todo)
Number(r) == Len(loc[r].todo)
Half(r) == IF loc[r].half = "Context" THEN Task(r).context ELSE Task(r).destination
Fails(r, what) == Task(r).fault = what

\* Where create() begins for the first of the tasks.
TaskLabel(todo) ==
    IF todo = <<>> THEN "created"
    ELSE IF Head(todo).type = "image_build" THEN "authn" ELSE "make_task"

\* Fault: the processes share one list, in the database for instance.
AddRollback_Shared(r, kind, uuid) ==
    rollbacks' = [w \in Worker |-> Append(rollbacks[w], [kind |-> kind, uuid |-> uuid])]
AddRollback(r, kind, uuid) ==
    rollbacks' = [rollbacks EXCEPT ![Ask(r).worker] = Append(@, [kind |-> kind, uuid |-> uuid])]

\* An exception in create(): the rollbacks run, then the view sees the error.
Fail(r, error, passes) ==
    /\ loc' = [loc EXCEPT ![r].error = error, ![r].undone = 0, ![r].passes = passes]
    /\ Goto(r, "rollback")
    /\ UNCHANGED <<rows, rollbacks>>

\* _resolve_authn_source with an identity: it must belong to the pipeline's owner.
UseIdentity(r) ==
    /\ At(r, "authn") /\ Half(r) \notin {"plain", "credentials"}
    /\ LET found == {i \in Rows("Identity") : i.id = Half(r) /\ i.owner = loc[r].owner} IN
       IF found = {} THEN Fail(r, "bad_request", 1)
       ELSE /\ \E i \in found : Keep(r, "authn", {i.uuid})
            /\ Goto(r, "make_half")
            /\ UNCHANGED <<rows, rollbacks>>
    /\ UNCHANGED secrets

CredentialsOf(r) == New(r, "Credentials", 2 * Number(r) + IF loc[r].half = "Context" THEN 0 ELSE 1)

\* Fault: an error of the Security Kernel is ignored.
WriteSecret_Ignored(r) ==
    /\ At(r, "authn") /\ Half(r) = "credentials"
    /\ secrets' = IF Fails(r, "secret") THEN secrets ELSE secrets \cup {CredentialsOf(r)}
    /\ Goto(r, "save_credentials")
    /\ UNCHANGED <<rows, rollbacks, loc>>

\* SecretService.save: the secret is written first, then the row.
WriteSecret(r) ==
    /\ At(r, "authn") /\ Half(r) = "credentials"
    /\ IF Fails(r, "secret") THEN Fail(r, "server_error", 1) /\ UNCHANGED secrets
       ELSE /\ secrets' = secrets \cup {CredentialsOf(r)}
            /\ Goto(r, "save_credentials")
            /\ UNCHANGED <<rows, rollbacks, loc>>

\* An error here leaves the secret behind: its rollback is not registered yet.
SaveCredentials(r) ==
    LET row == NewRow("Credentials", CredentialsOf(r), "none", loc[r].owner, "none", {}) IN
    /\ At(r, "save_credentials")
    /\ IF Fails(r, "credentials") THEN Fail(r, "server_error", 1)
       ELSE /\ Insert(row)
            /\ AddRollback(r, "secret", row.uuid)
            /\ Keep(r, "authn", {row.uuid})
            /\ Goto(r, "make_half")
    /\ UNCHANGED secrets

\* The destination is validated against the schema of its type only now.
BadDestination(r) == loc[r].half = "Destination" /\ Fails(r, "schema")

\* _create_context and _create_destination.  The handlers of the destination run the
\* rollbacks, and create() runs them again.
MakeHalf(r) ==
    LET half == loc[r].half
        row == NewRow(half, New(r, half, Number(r)), "none", loc[r].owner, "none", loc[r].authn)
    IN
    /\ \/ At(r, "make_half")
       \/ At(r, "authn") /\ Half(r) = "plain"
    /\ IF BadDestination(r) THEN Fail(r, "bad_request", 2)
       ELSE IF Fails(r, half) \/ ~Insertable(row)
       THEN Fail(r, "integrity", IF half = "Context" THEN 1 ELSE 2)
       ELSE
          /\ Insert(row)
          /\ AddRollback(r, "row", row.uuid)
          /\ IF half = "Context"
             THEN /\ loc' = [loc EXCEPT ![r].context = {row.uuid}, ![r].authn = {},
                                        ![r].half = "Destination"]
                  /\ Goto(r, "authn")
             ELSE /\ loc' = [loc EXCEPT ![r].destination = {row.uuid}, ![r].authn = {}]
                  /\ Goto(r, "make_task")
    /\ UNCHANGED secrets

MakeTask(r) ==
    LET row == NewRow("Task", New(r, "Task", Number(r)), Task(r).id, loc[r].owner, Task(r).type,
                      {loc[r].pipeline} \cup loc[r].context \cup loc[r].destination)
    IN
    /\ At(r, "make_task")
    /\ IF Fails(r, "task") \/ ~Insertable(row) THEN Fail(r, "integrity", 1)
       ELSE /\ Insert(row)
            /\ loc' = [loc EXCEPT ![r].todo = Tail(@), ![r].half = "Context",
                                  ![r].context = {}, ![r].destination = {}]
            /\ Goto(r, TaskLabel(Tail(loc[r].todo)))
            /\ UNCHANGED rollbacks
    /\ UNCHANGED secrets

\* Service.rollback iterates over the live list; an error in one entry is swallowed.
Entry(r) == rollbacks[Ask(r).worker][loc[r].undone + 1]
Undone(r) ==
    /\ IF Ask(r).fault = "undo_row" THEN UNCHANGED rows ELSE Delete({Entry(r).uuid})
    /\ Keep(r, "undone", loc[r].undone + 1)
    /\ Goto(r, "rollback")
    /\ UNCHANGED secrets
Rollback(r) ==
    /\ At(r, "rollback")
    /\ loc[r].undone < Len(rollbacks[Ask(r).worker])
    /\ \/ Entry(r).kind = "row" /\ Undone(r)
       \/ /\ Entry(r).kind = "secret" /\ Ask(r).fault # "undo"
          /\ secrets' = secrets \ {Entry(r).uuid}
          /\ Goto(r, "rollback_row")
          /\ UNCHANGED <<loc, rows>>
       \/ /\ Entry(r).kind = "secret" /\ Ask(r).fault = "undo"
          /\ Keep(r, "undone", loc[r].undone + 1)
          /\ UNCHANGED <<pc, reply, rows, secrets>>
    /\ UNCHANGED rollbacks

\* SecretService.delete goes on with the row.
RollbackRow(r) == At(r, "rollback_row") /\ Undone(r) /\ UNCHANGED rollbacks

\* Fault: the handler runs the rollbacks, and is left for itself.
RollbackDone_Again(r) ==
    /\ At(r, "rollback")
    /\ loc[r].undone = Len(rollbacks[Ask(r).worker])
    /\ Keep(r, "undone", 0)
    /\ UNCHANGED <<pc, reply, rows, secrets, rollbacks>>

RollbackDone(r) ==
    /\ At(r, "rollback")
    /\ loc[r].undone = Len(rollbacks[Ask(r).worker])
    /\ loc' = [loc EXCEPT ![r].undone = 0, ![r].passes = @ - 1]
    /\ Goto(r, IF loc[r].passes = 1 THEN "failed" ELSE "rollback")
    /\ UNCHANGED <<rows, secrets, rollbacks>>

CreateTask(r) ==
    \/ UseIdentity(r) \/ WriteSecret(r) \/ SaveCredentials(r) \/ MakeHalf(r) \/ MakeTask(r)
    \/ Rollback(r) \/ RollbackRow(r) \/ RollbackDone(r)
=============================================================================

------------------------------ MODULE Database ------------------------------
(***************************************************************************)
(* The tables of the API (models.py) and the secrets kept for them by      *)
(* Tapis' Security Kernel.  The API runs without transactions: each query  *)
(* is a step of its own.  A row is a record of one shape for all tables:   *)
(* its uuid, its id, what the code compares (owner, value), the fields of  *)
(* its unique constraint, and `above`, the rows it is removed with: the    *)
(* targets of its foreign keys, all declared on_delete=CASCADE, and what   *)
(* those are removed with.  A uuid names the request that made the row.    *)
(*                                                                         *)
(* The foreign keys current_run and last_run of a pipeline cascade too;    *)
(* runs are only ever removed with their pipeline, so they are plain       *)
(* fields here.                                                            *)
(***************************************************************************)
EXTENDS Naturals, FiniteSets, Sequences

CONSTANT NoRow

VARIABLES
    rows,       \* the rows of all tables
    secrets     \* the secrets in the Security Kernel, by the uuid of their row

Table == {"Group", "GroupUser", "Identity", "Archive", "Credentials", "Context",
          "Destination", "Pipeline", "PipelineArchive", "PipelineRun", "Task",
          "TaskExecution"}

\* None is the uuid of no row.
ASSUME NoRowAssumption == NoRow[2] \notin Table

\* The foreign keys of the tables, and those of their targets.  The credentials of an
\* archive are never set.
Hangs ==
    ({"GroupUser", "Archive", "Pipeline"} \X {"Group"})
    \cup {<<"Identity", "Credentials">>}
    \cup ({"Context", "Destination"} \X {"Identity", "Credentials"})
    \cup ({"PipelineArchive"} \X {"Pipeline", "Archive", "Group"})
    \cup ({"PipelineRun"} \X {"Pipeline", "Group"})
    \cup ({"Task"} \X {"Pipeline", "Group", "Context", "Destination", "Identity", "Credentials"})
    \cup ({"TaskExecution"} \X {"PipelineRun", "Task", "Pipeline", "Group", "Context",
                                "Destination", "Identity", "Credentials"})

\* A row is a record of the one shape.
IsRow(row) ==
    row \in [table : Table, uuid : {row.uuid}, id : {row.id}, owner : {row.owner},
            value : {row.value}, key : {row.key}, above : {row.above},
            current : {row.current}, last : {row.last}]

Uuids == {row.uuid : row \in rows}
RowOf(uuid) == CHOOSE row \in rows : row.uuid = uuid
Rows(table) == {row \in rows : row.table = table}
Under(table, uuid) == {row \in Rows(table) : uuid \in row.above}
Find(table, id, uuid) == {row \in Under(table, uuid) : row.id = id}

\* What a row with the given foreign keys is removed with.
Above(keys) == keys \cup UNION {row.above : row \in {x \in rows : x.uuid \in keys}}

\* The unique constraints; a table without one has only its primary key.
UniqueKey(table, uuid, id, owner, keys) ==
    CASE table = "Group" -> <<id, "none", {}>>
      [] table = "Identity" -> <<id, owner, {}>>
      [] table \in {"Archive", "Pipeline"} -> <<id, "none", keys>>
      [] table = "Task" -> <<id, "none", {k \in keys : k[2] = "Pipeline"}>>
      [] table = "PipelineArchive" -> <<"none", "none", keys>>
      [] OTHER -> <<"none", "none", {uuid}>>

NewRow(table, uuid, id, owner, value, keys) ==
    [table |-> table, uuid |-> uuid, id |-> id, owner |-> owner, value |-> value,
     key |-> UniqueKey(table, uuid, id, owner, keys), above |-> Above(keys),
     current |-> NoRow, last |-> NoRow]

\* An insert that breaks a foreign key or a unique constraint is an IntegrityError.
Insertable(row) ==
    /\ row.above \subseteq Uuids
    /\ \A other \in Rows(row.table) : other.key # row.key

\* Fault: only the rows that refer to a deleted one directly are deleted with it.
Without_Alone(uuids) == {row \in rows : row.uuid \notin uuids}

\* delete() collects and deletes what refers to the row, through every table.
Without(uuids) == {row \in rows : row.uuid \notin uuids /\ row.above \cap uuids = {}}

Insert(row) == rows' = rows \cup {row}
Delete(uuids) == rows' = Without(uuids)

\* No row is left behind by its group, pipeline, run, context or credentials, and no
\* two rows have the same key.
DatabaseIntegrity ==
    /\ \A row \in rows : row.above \subseteq Uuids
    /\ \A a, b \in rows : a.table = b.table /\ a.key = b.key => a = b
=============================================================================

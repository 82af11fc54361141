---------------------------- MODULE AccountViews ----------------------------
(***************************************************************************)
(* Groups and their users, identities with their credentials, and          *)
(* archives: the views Groups, Users, Identities and Archives.             *)
(***************************************************************************)
EXTENDS PipelineViews

\* Groups.post: the group, its owner as admin, then the other users one by one.
PostGroup(r) ==
    /\ At(r, "groups_post")
    /\ Check(r, FirstOf(BodyRefusal(r), IF Groups(r) # {} THEN "conflict" ELSE "none"),
             "create_group", [Locals EXCEPT !.todo = Ask(r).users])
    /\ UNCHANGED rollbacks
CreateGroup(r) ==
    LET row == NewRow("Group", New(r, "Group", 1), Ask(r).group, Ask(r).user, "none", {}) IN
    /\ At(r, "create_group")
    /\ IF Insertable(row)
       THEN Insert(row) /\ Goto(r, "create_admin") /\ Keep(r, "target", row.uuid)
       ELSE Answer(r, "server_error") /\ UNCHANGED rows
    /\ UNCHANGED <<secrets, rollbacks>>
Membership(r, n, name, value) ==
    NewRow("GroupUser", New(r, "GroupUser", n), name, "none", value, {loc[r].target})
CreateAdmin(r) ==
    /\ At(r, "create_admin")
    /\ IF Ask(r).fault = "admin" THEN Answer(r, "server_error") /\ UNCHANGED rows
       ELSE /\ Insert(Membership(r, 0, Ask(r).user, "admin"))
            /\ Goto(r, "create_users") /\ UNCHANGED loc
    /\ UNCHANGED <<secrets, rollbacks>>
CreateUsers(r) ==
    LET user == Head(loc[r].todo)
        row == Membership(r, Len(loc[r].todo), user.id, user.value)
    IN
    /\ At(r, "create_users")
    /\ IF loc[r].todo = <<>> THEN Answer(r, "ok") /\ UNCHANGED rows
       ELSE IF Ask(r).fault = "users" THEN Answer(r, "bad_request") /\ UNCHANGED rows
       ELSE /\ Keep(r, "todo", Tail(loc[r].todo)) /\ UNCHANGED <<pc, reply>>
            /\ IF user.id = Ask(r).user THEN UNCHANGED rows ELSE Insert(row)
    /\ UNCHANGED <<secrets, rollbacks>>

\* Users.post: somebody who is in the group already is left as he is.
IsMember(r) == \E g \in Groups(r) : Members(g, Ask(r).id) # {}
PostUser(r) ==
    LET code == FirstOf(AdminRefusal(r), BodyRefusal(r)) IN
    /\ At(r, "users_post")
    /\ Check(r, IF code = "none" /\ IsMember(r) THEN "ok" ELSE code, "create_user",
             [Locals EXCEPT !.target = GroupUuid(r)])
    /\ UNCHANGED rollbacks
CreateUser(r) ==
    LET row == Membership(r, 0, Ask(r).id, Ask(r).value) IN
    /\ At(r, "create_user")
    /\ IF Insertable(row) THEN Insert(row) /\ Answer(r, "ok")
       ELSE Answer(r, "server_error") /\ UNCHANGED rows
    /\ UNCHANGED <<secrets, rollbacks>>

\* Users.patch calls update() on a model object, which has no such method.
PatchUser(r) ==
    /\ At(r, "users_patch")
    /\ Answer(r, FirstOf(AdminRefusal(r), FirstOf(BodyRefusal(r), "crashed")))
    /\ UNCHANGED <<rows, secrets, rollbacks>>

\* Fault: the owner of the group can be removed from it.
OwnerRefusal_Never(r) == "none"
OwnerRefusal(r) == IF UserOwnsGroup(r, Ask(r).id) THEN "unprocessable" ELSE "none"
\* Users.delete: one row of the user is looked up; admins are removed by the owner only.
DeleteUser(r) ==
    LET code == FirstOf(AdminRefusal(r), FirstOf(OwnerRefusal(r),
                    IF ~IsMember(r) THEN "not_found" ELSE "none"))
        found == UNION {Members(g, Ask(r).id) : g \in Groups(r)}
    IN
    /\ At(r, "users_delete")
    /\ \/ code # "none" /\ Check(r, code, "done", Locals)
       \/ /\ code = "none"
          /\ \E m \in found :
               Check(r, IF m.value = "admin" /\ ~UserOwnsGroup(r, Ask(r).user)
                        THEN "forbidden" ELSE "none",
                     "delete_user", [Locals EXCEPT !.target = m.uuid])
    /\ UNCHANGED rollbacks
RemoveUser(r) ==
    /\ At(r, "delete_user")
    /\ Delete({loc[r].target})
    /\ Answer(r, "ok")
    /\ UNCHANGED <<secrets, rollbacks>>

\* Identities.post: the secret, its row, and the identity; only an IntegrityError of the
\* last is handled.
PostIdentity(r) ==
    /\ At(r, "identities_post")
    /\ Check(r, BodyRefusal(r), "identity_secret", Locals)
    /\ UNCHANGED rollbacks
IdentitySecret(r) ==
    /\ At(r, "identity_secret")
    /\ IF Ask(r).fault = "secret" THEN Answer(r, "bad_request") /\ UNCHANGED secrets
       ELSE /\ secrets' = secrets \cup {New(r, "Credentials", 0)}
            /\ Goto(r, "identity_credentials") /\ UNCHANGED loc
    /\ UNCHANGED <<rows, rollbacks>>
IdentityCredentials(r) ==
    LET row == NewRow("Credentials", New(r, "Credentials", 0), "none", Ask(r).user, "none", {}) IN
    /\ At(r, "identity_credentials")
    /\ IF Ask(r).fault = "credentials" THEN Answer(r, "bad_request") /\ UNCHANGED rows
       ELSE Insert(row) /\ Goto(r, "create_identity") /\ Keep(r, "target", row.uuid)
    /\ UNCHANGED <<secrets, rollbacks>>

CreateIdentity(r) ==
    LET row == NewRow("Identity", New(r, "Identity", 1), Ask(r).id, Ask(r).user, "none",
                      {loc[r].target})
    IN
    /\ At(r, "create_identity")
    /\ \/ Ask(r).fault # "identity" /\ Insertable(row) /\ Insert(row) /\ Answer(r, "ok")
       \/ /\ Ask(r).fault # "identity" /\ ~Insertable(row)
          /\ Goto(r, "drop_secret") /\ UNCHANGED <<loc, rows>>
       \/ Ask(r).fault = "identity" /\ Answer(r, "crashed") /\ UNCHANGED rows
    /\ UNCHANGED <<secrets, rollbacks>>

TheIdentity(r) == CHOOSE i \in Rows("Identity") : i.id = Ask(r).id
DeleteIdentity(r) ==
    /\ At(r, "identity_delete")
    /\ Check(r, IF ~\E i \in Rows("Identity") : i.id = Ask(r).id THEN "not_found"
                ELSE IF TheIdentity(r).owner # Ask(r).user THEN "forbidden" ELSE "none",
             "drop_secret",
             [Locals EXCEPT !.target = CHOOSE k \in TheIdentity(r).above : TRUE])
    /\ UNCHANGED rollbacks

\* SecretService.delete, of an identity and of a creation that failed: the secret, and then
\* its row with all that refers to it: the identity, the contexts and destinations that use
\* it, and their tasks.
DropSecret(r) ==
    /\ At(r, "drop_secret")
    /\ IF Ask(r).fault = "undo" THEN Answer(r, "crashed") /\ UNCHANGED secrets
       ELSE secrets' = secrets \ {loc[r].target} /\ Goto(r, "drop_row") /\ UNCHANGED loc
    /\ UNCHANGED <<rows, rollbacks>>
DropRow(r) ==
    /\ At(r, "drop_row")
    /\ IF Ask(r).fault = "undo_row" THEN Answer(r, "crashed") /\ UNCHANGED rows
       ELSE /\ Delete({loc[r].target})
            /\ Answer(r, IF Asks(r, "identity_delete") THEN "ok" ELSE "bad_request")
    /\ UNCHANGED <<secrets, rollbacks>>

\* Archives.post: only archives on a Tapis system are implemented, for its owner or
\* somebody who may modify it.
SystemRefusal(r) ==
    CASE Ask(r).fault = "no_system" -> "bad_request"
      [] Ask(r).fault = "system" -> "server_error"
      [] Ask(r).fault = "no_access" -> "forbidden"
      [] OTHER -> "none"
PostArchive(r) ==
    /\ At(r, "archives_post")
    /\ Check(r, FirstOf(Refusal(r), FirstOf(BodyRefusal(r),
                    IF Archives(r, Ask(r).id) # {} THEN "conflict"
                    ELSE IF Ask(r).kind # "system" THEN "bad_request" ELSE SystemRefusal(r))),
             "create_archive", [Locals EXCEPT !.target = GroupUuid(r)])
    /\ UNCHANGED rollbacks
CreateArchive(r) ==
    LET row == NewRow("Archive", New(r, "Archive", 1), Ask(r).id, Ask(r).user, "none",
                      {loc[r].target})
    IN
    /\ At(r, "create_archive")
    /\ IF Insertable(row) THEN Insert(row) /\ Answer(r, "ok")
       ELSE Answer(r, "bad_request") /\ UNCHANGED rows
    /\ UNCHANGED <<secrets, rollbacks>>
DeleteArchive(r) ==
    /\ At(r, "archive_delete")
    /\ Check(r, FirstOf(Refusal(r), IF Archives(r, Ask(r).id) = {} THEN "not_found" ELSE "none"),
             "delete_archive",
             [Locals EXCEPT !.target = (CHOOSE a \in Archives(r, Ask(r).id) : TRUE).uuid])
    /\ UNCHANGED rollbacks
RemoveArchive(r) ==
    /\ At(r, "delete_archive")
    /\ Delete({loc[r].target})
    /\ Answer(r, "ok")
    /\ UNCHANGED <<secrets, rollbacks>>

AccountStep(r) ==
    \/ PostGroup(r) \/ CreateGroup(r) \/ CreateAdmin(r) \/ CreateUsers(r)
    \/ PostUser(r) \/ CreateUser(r) \/ PatchUser(r) \/ DeleteUser(r) \/ RemoveUser(r)
    \/ PostIdentity(r) \/ IdentitySecret(r) \/ IdentityCredentials(r) \/ CreateIdentity(r)
    \/ DeleteIdentity(r) \/ DropSecret(r) \/ DropRow(r)
    \/ PostArchive(r) \/ CreateArchive(r) \/ DeleteArchive(r) \/ RemoveArchive(r)
=============================================================================

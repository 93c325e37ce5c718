----------------------------- MODULE Directory -----------------------------
(***************************************************************************)
(* The user directory of a centaurus server: users, groups, the            *)
(* permissions of a group, its members, and the setup row that names the   *)
(* admin group.  One action is one whole request handler (or one statement *)
(* of create_admin_group, which the application runs while it boots), so   *)
(* this module answers what the handlers do when requests do not overlap,  *)
(* whatever happens between them: a request that the database refuses      *)
(* half-way, a process that dies during its boot.                          *)
(*                                                                         *)
(* Abstracted: names of users, emails, passwords and avatars (who an OIDC  *)
(* login resolves to, and whether a new email is free, is a choice here).  *)
(* A list of ids or permissions in a request body is what the handlers     *)
(* tell apart: the set of its elements and whether one is repeated.        *)
(* Identifiers are v7 UUIDs, never drawn twice by the code; here a deleted *)
(* one may be drawn again, which only adds behaviours.                     *)
(***************************************************************************)

CONSTANTS
    UserIds,    \* user ids: rows of the table, and ids a request may name
    GroupIds,   \* group ids, likewise
    Names,      \* group names
    Perms,      \* permissions
    Releases,   \* the permission lists the releases of the application declare
    UserEdit,   \* permission "user:edit"
    GroupEdit,  \* permission "group:edit"
    Everyone,   \* the recipient of a broadcast
    Nobody,     \* the sender of a request without authentication
    NoGroup,    \* setup.admin_group_created = None
    NoName      \* the name of a group id that is no row

ASSUME ConstantsOK ==
    /\ Releases \subseteq SUBSET Perms
    /\ UserEdit \in Perms /\ GroupEdit \in Perms
    /\ NoGroup \notin GroupIds
    /\ NoName \notin Names
    /\ Everyone \notin UserIds /\ Nobody \notin UserIds

VARIABLES
    users,      \* ids of the rows of `user`
    groups,     \* ids of the rows of `group`
    name,       \* group.name
    perms,      \* the rows of group_permission, by group
    members,    \* the rows of group_user, by group
    admin,      \* setup.admin_group_created
    completed,  \* setup.completed
    boot,       \* where create_admin_group is in this process
    skipping,   \* the boot task of OidcState::new will complete the setup
    sent,       \* the updates the last step handed to the Updater
    response    \* the answer the last step gave: to whom, Ok or Err

tables == <<users, groups, name, perms, members>>
setup  == <<admin, completed>>
vars   == <<users, groups, name, perms, members, admin, completed, boot, skipping, sent, response>>

-----------------------------------------------------------------------------
(* A request's Vec<T>: its elements, and whether one of them is repeated. *)
Lists(S) == {l \in [ids : SUBSET S, repeats : BOOLEAN] : l.repeats => l.ids # {}}
GroupLists == Lists(GroupIds)
PermLists  == Lists(Perms)
UserLists  == Lists(UserIds)

BootAt(at)           == [at |-> at, group |-> NoGroup, perms |-> {}]
Creating(at, g, all) == [at |-> at, group |-> g, perms |-> all]
BootStates == [at : {"down", "created", "granted", "upgraded", "done"},
               group : GroupIds \union {NoGroup}, perms : SUBSET Perms]

(* Mutant: recipient and subject swapped. *)
Update_Swapped(to, kind, id) == [to |-> id, kind |-> kind, id |-> to]
Update(to, kind, id) == [to |-> to, kind |-> kind, id |-> id]
Broadcast(kind, id)  == {Update(Everyone, kind, id)}
UserPermissions(us)  == {Update(u, "user_permissions", u) : u \in us}
Updates == [to : UserIds \union {Everyone},
            kind : {"user", "group", "user_permissions"},
            id : UserIds \union GroupIds]

Silent   == [to |-> Nobody, status |-> "none"]
Ok(a)    == [to |-> a, status |-> "ok"]
Error(a) == [to |-> a, status |-> "error"]
Responses == [to : UserIds \union {Nobody}, status : {"none", "ok", "error"}]

TypeOK ==
    /\ users \subseteq UserIds
    /\ groups \subseteq GroupIds
    /\ name \in [GroupIds -> Names \union {NoName}]
    /\ perms \in [GroupIds -> SUBSET Perms]
    /\ members \in [GroupIds -> SUBSET UserIds]
    /\ admin \in GroupIds \union {NoGroup}
    /\ completed \in BOOLEAN
    /\ boot \in BootStates
    /\ skipping \in BOOLEAN
    /\ sent \subseteq Updates
    /\ response \in Responses

-----------------------------------------------------------------------------
(* Queries *)

HasPermission(u, p) == \E g \in groups : u \in members[g] /\ p \in perms[g]
PermissionsOf(u)    == {p \in Perms : HasPermission(u, p)}
(* Mutant: the test of delete_user, edit_user and sync_groups is forgotten. *)
IsLastAdmin_Never(u) == FALSE
IsLastAdmin(u)      == members[admin] = {u}
InAdminGroup(u)     == u \in members[admin]
NameTaken(n)        == \E g \in groups : name[g] = n

(* The process answers requests. *)
Running == boot.at # "down"

(* The JwtAuth<P> extractor lets the request of `a` through. *)
Authorized(a, p) == Running /\ HasPermission(a, p)

(* Mutants: the new rows are never written; the old rows are never deleted. *)
WithGroups_Cleared(u, gs) ==
    [g \in GroupIds |-> IF g \in gs THEN members[g] ELSE members[g] \ {u}]
WithGroups_Added(u, gs) ==
    [g \in GroupIds |-> IF g \in gs THEN members[g] \union {u} ELSE members[g]]

(* The groups of user u are exactly gs. *)
WithGroups(u, gs) ==
    [g \in GroupIds |-> IF g \in gs THEN members[g] \union {u} ELSE members[g] \ {u}]

(* The request of `a` ends: with Ok once `updates` are sent, or with Err    *)
(* before any is.                                                           *)
Answer(a, ok, updates) ==
    /\ sent' = IF ok THEN updates ELSE {}
    /\ response' = IF ok THEN Ok(a) ELSE Error(a)

(* An insert_many is refused as a whole for a repeated primary key or for *)
(* an id without a row.                                                   *)
Insertable(l, rows) == ~l.repeats /\ l.ids \subseteq rows

-----------------------------------------------------------------------------
(* Boot: create_admin_group, one action for each statement that writes *)

BootCreateGroup(g, n, release) ==
    /\ boot.at = "down" /\ admin = NoGroup
    /\ g \notin groups
    /\ groups' = groups \union {g}
    /\ name' = [name EXCEPT ![g] = n]
    /\ boot' = Creating("created", g, release)
    /\ skipping' \in {FALSE, ~completed}
    /\ sent' = {}
    /\ response' = Silent
    /\ UNCHANGED <<users, perms, members, admin, completed>>

BootGrant ==
    /\ boot.at = "created"
    /\ boot' = Creating("granted", boot.group, boot.perms)
    /\ perms' = [perms EXCEPT ![boot.group] = @ \union boot.perms]
    /\ sent' = {}
    /\ response' = Silent
    /\ UNCHANGED <<users, groups, name, members, admin, completed, skipping>>

BootRecord ==
    /\ boot.at = "granted"
    /\ admin' = boot.group
    /\ boot' = BootAt("done")
    /\ sent' = {}
    /\ response' = Silent
    /\ UNCHANGED <<users, groups, name, perms, members, completed, skipping>>

(* The admin group exists already: add the permissions it misses... *)
BootUpgrade(release) ==
    /\ boot.at = "down" /\ admin # NoGroup
    /\ perms' = [perms EXCEPT ![admin] = @ \union release]
    /\ boot' = BootAt("upgraded")
    /\ skipping' \in {FALSE, ~completed}
    /\ sent' = {}
    /\ response' = Silent
    /\ UNCHANGED <<users, groups, name, members, admin, completed>>

(* ... and, when the application names it, rename it to n (no check that   *)
(* the name is free).                                                      *)
BootRename(n) ==
    /\ boot.at = "upgraded"
    /\ boot' = BootAt("done")
    /\ name' = [name EXCEPT ![admin] = n]
    /\ sent' = {}
    /\ response' = Silent
    /\ UNCHANGED <<users, groups, perms, members, admin, completed, skipping>>

(* The task OidcState::new spawned with skip_setup: OIDC came up. *)
SkipSetup ==
    /\ Running /\ skipping
    /\ skipping' = FALSE
    /\ completed' = TRUE
    /\ sent' = {}
    /\ response' = Silent
    /\ UNCHANGED <<tables, admin, boot>>

(* The process dies, perhaps before the first write of its boot; only the  *)
(* database survives.                                                      *)
Crash ==
    /\ boot' = BootAt("down")
    /\ skipping' = FALSE
    /\ sent' = {}
    /\ response' = Silent
    /\ UNCHANGED <<tables, setup>>

-----------------------------------------------------------------------------
(* Setup and OIDC login *)

CompleteSetup(u) ==
    /\ Running
    /\ ~completed
    /\ admin # NoGroup
    /\ u \notin users
    /\ users' = users \union {u}
    /\ members' = [members EXCEPT ![admin] = @ \union {u}]
    /\ completed' = TRUE
    /\ sent' = {}
    /\ response' = Ok(Nobody)
    /\ UNCHANGED <<groups, name, perms, admin, boot, skipping>>

(* The groups that group sync puts u in when the provider claims `names`. *)
SyncedGroups(u, names) ==
    LET claimed == {g \in groups : name[g] \in names}
    IN  IF IsLastAdmin(u) THEN claimed \union {admin} ELSE claimed

SyncMessages(u) == {Update(u, "user", u), Update(u, "user_permissions", u)}

(* Login of a user with a row; group sync on. *)
OidcLoginSync(u, names) ==
    /\ Running /\ u \in users /\ admin # NoGroup
    /\ members' = WithGroups(u, SyncedGroups(u, names))
    /\ sent' = SyncMessages(u)
    /\ response' = Ok(Nobody)
    /\ UNCHANGED <<users, groups, name, perms, setup, boot, skipping>>

(* Login of a user with a row; group sync off, or no admin group recorded: *)
(* only name and email follow the provider.                                *)
OidcLoginPlain(u) ==
    /\ Running /\ u \in users
    /\ sent' \in {{}, {Update(u, "user", u)}}
    /\ response' = Ok(Nobody)
    /\ UNCHANGED <<tables, setup, boot, skipping>>

(* Mutant: the count of users is forgotten. *)
InitialUser_Setup == ~completed

(* The user an OIDC login creates is to be the first admin. *)
InitialUser == ~completed \/ users = {}

(* First login of u, user creation on.  The first user, and the user that  *)
(* ends the setup, become admin.  The "user" update for an email brought to *)
(* lower case is left out: nobody listens yet for a user made here.         *)
OidcLoginCreate(u, names, groupSync) ==
    LET synced == IF groupSync THEN SyncedGroups(u, names) ELSE {}
    IN  /\ Running /\ u \notin users
        /\ admin # NoGroup
        /\ users' = users \union {u}
        /\ members' = WithGroups(u, synced \union (IF InitialUser THEN {admin} ELSE {}))
        /\ completed' = (completed \/ InitialUser)
        /\ sent' = IF groupSync THEN SyncMessages(u) ELSE {}
        /\ response' = Ok(Nobody)
        /\ UNCHANGED <<groups, name, perms, admin, boot, skipping>>

(* The same with no admin group recorded: group sync returns early, and a  *)
(* first user fails after its row was inserted.                            *)
OidcLoginCreateEarly(u) ==
    /\ Running /\ u \notin users
    /\ admin = NoGroup
    /\ users' = users \union {u}
    /\ sent' = {}
    /\ response' = IF InitialUser THEN Error(Nobody) ELSE Ok(Nobody)
    /\ UNCHANGED <<groups, name, perms, members, setup, boot, skipping>>

-----------------------------------------------------------------------------
(* User management: requests of the authenticated user a.  A handler that   *)
(* the database stops half-way keeps what it wrote, answers with an error   *)
(* and sends nothing.                                                       *)

(* `mailed`: the welcome mail was sent, or none is due. *)
CreateUser(a, u, mailed) ==
    /\ Authorized(a, UserEdit)
    /\ u \notin users
    /\ users' = users \union {u}
    /\ Answer(a, mailed, Broadcast("user", u))
    /\ UNCHANGED <<groups, name, perms, members, setup, boot, skipping>>

DeleteUser(a, u) ==
    /\ Authorized(a, UserEdit)
    /\ admin # NoGroup
    /\ ~IsLastAdmin(u)
    /\ InAdminGroup(u) => InAdminGroup(a)
    /\ users' = users \ {u}
    /\ members' = WithGroups(u, {})
    /\ Answer(a, TRUE, Broadcast("user", u))
    /\ UNCHANGED <<groups, name, perms, setup, boot, skipping>>

(* Mutant: only the permissions the target has now are compared. *)
Grantable_Unchecked(a, ids) == TRUE

(* The groups `ids` carry no permission that a does not have. *)
Grantable(a, ids) == \A g \in ids \intersect groups : perms[g] \subseteq PermissionsOf(a)

(* The old memberships are cleared first, whatever becomes of the new ones. *)
EditUser(a, u, gs) ==
    /\ Authorized(a, UserEdit)
    /\ Grantable(a, gs.ids)
    /\ PermissionsOf(u) \subseteq PermissionsOf(a)
    /\ admin # NoGroup
    /\ admin \in gs.ids \/ ~IsLastAdmin(u)
    /\ u \in users
    /\ members' = WithGroups(u, IF Insertable(gs, groups) THEN gs.ids ELSE {})
    /\ Answer(a, Insertable(gs, groups), Broadcast("user", u))
    /\ UNCHANGED <<users, groups, name, perms, setup, boot, skipping>>

-----------------------------------------------------------------------------
(* Group management: requests of the authenticated user a *)

CreateGroup(a, g, n) ==
    /\ Authorized(a, GroupEdit)
    /\ ~NameTaken(n)
    /\ g \notin groups
    /\ groups' = groups \union {g}
    /\ name' = [name EXCEPT ![g] = n]
    /\ Answer(a, TRUE, Broadcast("group", g))
    /\ UNCHANGED <<users, perms, members, setup, boot, skipping>>

(* Mutant: the admin group is not an exception. *)
Deletable_Any(g) == g \in groups
Deletable(g)     == g # admin /\ g \in groups

DeleteGroup(a, g) ==
    /\ Authorized(a, GroupEdit)
    /\ Deletable(g)
    /\ groups' = groups \ {g}
    /\ name' = [name EXCEPT ![g] = NoName]
    /\ perms' = [perms EXCEPT ![g] = {}]
    /\ members' = [members EXCEPT ![g] = {}]
    /\ Answer(a, TRUE, Broadcast("group", g) \union UserPermissions(members[g]))
    /\ UNCHANGED <<users, setup, boot, skipping>>

(* Mutant: changed permissions are not looked at. *)
Notified_Membership(had, were, ps, us) == (were \ us.ids) \union (us.ids \ were)

(* Whom edit_group tells, for a group that had the permissions `had` and    *)
(* whose members were `were`: everyone concerned when the permissions      *)
(* change, otherwise only who joined or left.                              *)
Notified(had, were, ps, us) ==
    IF had = ps.ids
    THEN (were \ us.ids) \union (us.ids \ were)
    ELSE were \union us.ids

(* Mutant: only the members of the admin group are protected. *)
KeepsAdminGroup_Members(g, had, ps, us) == g = admin => us.ids # {}

(* The admin group keeps its permissions, and has members. *)
KeepsAdminGroup(g, had, ps, us) == g = admin => had \subseteq ps.ids /\ us.ids # {}

(* Permissions and members are both cleared, then the permissions are     *)
(* inserted, then the members.  Of several groups with one name the query *)
(* for the name may return any.                                           *)
EditGroup(a, g, n, ps, us) ==
    LET permsInserted == ~ps.repeats
        usersInserted == permsInserted /\ Insertable(us, users)
    IN  /\ Authorized(a, GroupEdit)
        /\ g \in groups
        /\ NameTaken(n) => name[g] = n
        /\ perms[g] \subseteq PermissionsOf(a)
        /\ ps.ids \subseteq PermissionsOf(a)
        /\ KeepsAdminGroup(g, perms[g], ps, us)
        /\ name' = [name EXCEPT ![g] = n]
        /\ perms' = [perms EXCEPT ![g] = IF permsInserted THEN ps.ids ELSE {}]
        /\ members' = [members EXCEPT ![g] = IF usersInserted THEN us.ids ELSE {}]
        /\ Answer(a, usersInserted,
                  Broadcast("group", g) \union UserPermissions(Notified(perms[g], members[g], ps, us)))
        /\ UNCHANGED <<users, groups, setup, boot, skipping>>

-----------------------------------------------------------------------------
Init ==
    /\ users = {} /\ groups = {}
    /\ name = [g \in GroupIds |-> NoName]
    /\ perms = [g \in GroupIds |-> {}]
    /\ members = [g \in GroupIds |-> {}]
    /\ admin = NoGroup /\ completed = FALSE
    /\ boot = BootAt("down") /\ skipping = FALSE
    /\ sent = {} /\ response = Silent

Starts ==
    \/ \E g \in GroupIds, n \in Names, r \in Releases : BootCreateGroup(g, n, r)
    \/ BootGrant
    \/ BootRecord
    \/ \E r \in Releases : BootUpgrade(r)
    \/ \E n \in Names : BootRename(n)
    \/ SkipSetup

Boot == Starts \/ Crash

Login ==
    \E u \in UserIds :
        \/ CompleteSetup(u)
        \/ \E ns \in SUBSET Names : OidcLoginSync(u, ns)
        \/ OidcLoginPlain(u)
        \/ \E ns \in SUBSET Names, sync \in BOOLEAN : OidcLoginCreate(u, ns, sync)
        \/ OidcLoginCreateEarly(u)

(* The management requests of a. *)
Manages(a) ==
    \/ /\ Authorized(a, UserEdit)
       /\ \E u \in UserIds :
            \/ \E mailed \in BOOLEAN : CreateUser(a, u, mailed)
            \/ DeleteUser(a, u)
            \/ \E gs \in GroupLists : EditUser(a, u, gs)
    \/ /\ Authorized(a, GroupEdit)
       /\ \E g \in GroupIds :
            \/ \E n \in Names : CreateGroup(a, g, n)
            \/ DeleteGroup(a, g)
            \/ \E n \in Names, ps \in PermLists, us \in UserLists :
                 EditGroup(a, g, n, ps, us)

Next == Boot \/ Login \/ \E a \in UserIds : Manages(a)

Spec == Init /\ [][Next]_vars
-----------------------------------------------------------------------------
(* Properties *)

(* The admin group the setup row names is a row of `group`: no order of    *)
(* requests, aborted requests, crashes and boots deletes it (delete_group  *)
(* refuses, create_admin_group records the id last).                       *)
AdminGroupExists == admin # NoGroup => admin \in groups

(* Until the admin group is recorded nobody is in any group, so a boot that *)
(* died half-way leaves a group with every permission but no holder.        *)
NoMembersBeforeAdminGroup ==
    admin = NoGroup => \A g \in GroupIds : members[g] = {}

(* permission.rs:19: a user that does not exist has no permission, which is *)
(* why Permission::check looks only at permissions.                         *)
PermissionImpliesUser ==
    \A u \in UserIds, p \in Perms : HasPermission(u, p) => u \in users

(* What every step keeps, and what the properties above follow from. *)

(* The group a boot is creating is still there when its id is recorded. *)
BootGroupExists ==
    boot.at \in {"created", "granted"} => admin = NoGroup /\ boot.group \in groups

(* The foreign keys of group_user and group_permission. *)
NoDanglingRows ==
    /\ \A g \in GroupIds : members[g] \subseteq users
    /\ \A g \in GroupIds \ groups : members[g] = {} /\ perms[g] = {}

DirectoryInv ==
    TypeOK /\ AdminGroupExists /\ NoMembersBeforeAdminGroup /\ BootGroupExists /\ NoDanglingRows

(* The step is a request that is answered with Ok. *)
Answered == response'.status = "ok"

(* A request that is answered never takes the last member out of the admin *)
(* group: delete_user, edit_user, edit_group and group sync each check.    *)
StepKeepsAMember ==
    Answered /\ admin # NoGroup /\ members[admin] # {} => members'[admin] # {}
AdminGroupKeepsAMember == [][StepKeepsAMember]_vars

(* No answered request takes a permission from the admin group.            *)
StepKeepsPermissions ==
    Answered /\ admin # NoGroup => perms[admin] \subseteq perms'[admin]
AdminGroupKeepsPermissions == [][StepKeepsPermissions]_vars

(* A management request, answered or aborted, gives nobody a permission    *)
(* that its sender does not have.                                          *)
StepEscalatesNothing ==
    \A u \in UserIds, p \in Perms :
      /\ response'.to \in UserIds
      /\ HasPermission(u, p)' /\ ~HasPermission(u, p)
      => HasPermission(response'.to, p)
NoEscalation == [][StepEscalatesNothing]_vars

(* The sessions of u learn from the updates of a step to load their         *)
(* permissions again.                                                       *)
Announced(u, updates) ==
    \/ Update(u, "user_permissions", u) \in updates
    \/ Update(Everyone, "user", u) \in updates

(* When an answered request changes the permissions of a user who stays,   *)
(* that user is told: edit_group's selection of recipients and             *)
(* delete_group's list of former members miss nobody.                      *)
StepAnnouncesChanges ==
    \A u \in users \intersect users' :
      Answered /\ PermissionsOf(u)' # PermissionsOf(u) => Announced(u, sent')
PermissionChangesAnnounced == [][StepAnnouncesChanges]_vars

(* The first user of an empty directory is an admin, whatever created it:  *)
(* complete_setup, or the first OIDC login after the setup was skipped.    *)
FirstUserIsAdmin ==
    [][users = {} /\ users' # {} /\ admin # NoGroup => users' \subseteq members'[admin]]_vars

(* A request that ends the setup leaves a user in the admin group (only   *)
(* skip_setup ends it without one).                                       *)
SetupYieldsAdmin ==
    [][Answered /\ ~completed /\ completed' => admin # NoGroup /\ members'[admin] # {}]_vars

(* "Admin group must have at least one user" (group.rs:216): no request at *)
(* all, answered or not, empties it.  A request that the database refuses  *)
(* after the old members were deleted does.                                *)
AdminGroupNeverEmptied ==
    [][admin # NoGroup /\ members[admin] # {} => members'[admin] # {}]_vars
=============================================================================

------------------------------ MODULE Handlers ------------------------------
(***************************************************************************)
(* The request handlers of Directory one await at a time.  A handler is a  *)
(* sequence of queries and writes without a transaction; between two of    *)
(* them the handlers of other requests run, the client may go away (which  *)
(* drops the handler where it is), the process may die.                    *)
(*                                                                         *)
(* A request is a record of what it asks for, where its handler is, and    *)
(* what the handler has read so far.  The id of the admin group never      *)
(* changes once it is recorded, so its query is part of the next step.     *)
(* Names, emails and passwords of users are left out, as in Directory; an  *)
(* update of a user's name alone is no step.                               *)
(***************************************************************************)
EXTENDS Directory, FiniteSets

CONSTANTS
    Requests,    \* the requests the server can be working on at once
    Operations   \* the operations each of them may ask for

ASSUME OperationsOK ==
    \A r \in Requests :
      Operations[r] \subseteq
        {"complete_setup", "oidc_callback", "create_user", "delete_user", "edit_user",
         "create_group", "delete_group", "edit_group"}

VARIABLES
    request,
    manned      \* history: the admin group has had a member

steps == <<users, groups, name, perms, members, admin, completed, boot, skipping, sent,
           response, request, manned>>

-----------------------------------------------------------------------------
(* Requests *)

Idle == [op |-> "none", at |-> "idle"]

(* What a client may send, as its handler begins: `had`, `were` and        *)
(* `claimed` are for what it reads.                                        *)
Calls(op) ==
    CASE op = "complete_setup" ->
           [op : {op}, at : {"start"}, by : {Nobody}, user : UserIds]
      [] op = "oidc_callback" ->
           [op : {op}, at : {"start"}, by : {Nobody}, user : UserIds, names : SUBSET Names,
            sync : BOOLEAN, new : {FALSE}, claimed : {{}}]
      [] op = "create_user" ->
           [op : {op}, at : {"start"}, by : UserIds, user : UserIds, mailed : BOOLEAN]
      [] op = "delete_user" ->
           [op : {op}, at : {"start"}, by : UserIds, user : UserIds]
      [] op = "edit_user" ->
           [op : {op}, at : {"start"}, by : UserIds, user : UserIds, gs : GroupLists, had : {{}}]
      [] op = "create_group" ->
           [op : {op}, at : {"start"}, by : UserIds, group : {NoGroup}, name : Names]
      [] op = "delete_group" ->
           [op : {op}, at : {"start"}, by : UserIds, group : GroupIds, were : {{}}]
      [] op = "edit_group" ->
           [op : {op}, at : {"start"}, by : UserIds, group : GroupIds, name : Names,
            ps : PermLists, us : UserLists, had : {{}}, were : {{}}]

(* The permission the JwtAuth extractor of the handler asks for. *)
Needs(op) == IF op \in {"create_user", "delete_user", "edit_user"} THEN UserEdit ELSE GroupEdit

(* The step answers nothing and sends nothing. *)
Silently == sent' = {} /\ response' = Silent

(* Its query is a request's first.  Bound: a group id is left to create.   *)
Begins(r, q) ==
    /\ request[r] = Idle
    /\ Running
    /\ q.by # Nobody => Authorized(q.by, Needs(q.op))
    /\ q.op = "create_group" => groups # GroupIds
    /\ request' = [request EXCEPT ![r] = q]
    /\ Silently /\ UNCHANGED <<tables, setup>>

(* The handler of r is at `from`, in a request for `op`. *)
At(r, op, from) == request[r].op = op /\ request[r].at = from

Goes(r, to) == request' = [request EXCEPT ![r].at = to]
Ends(r)     == request' = [request EXCEPT ![r] = Idle]

(* A query: the handler goes on when `holds`, and is refused otherwise.    *)
Checks(r, holds, to) ==
    /\ IF holds THEN Goes(r, to) ELSE Ends(r)
    /\ Silently /\ UNCHANGED <<tables, setup>>

(* A statement fails after an earlier one of the handler has written.      *)
Fails(r) ==
    /\ Ends(r)
    /\ sent' = {}
    /\ response' = Error(request[r].by)
    /\ UNCHANGED <<tables, setup>>

(* Mutant: no foreign keys. *)
Fits_Unchecked(gs, us) == \A g \in gs, u \in us : u \notin members[g]

(* The database takes the memberships gs \X us: keys are new, rows exist.  *)
Fits(gs, us) ==
    /\ gs \subseteq groups /\ us \subseteq users
    /\ \A g \in gs, u \in us : u \notin members[g]

WithMembers(gs, us) == [g \in GroupIds |-> IF g \in gs THEN members[g] \union us ELSE members[g]]

(* Insert the memberships gs \X us; none is no statement. *)
Inserts(r, fits, gs, us, to) ==
    \/ /\ gs = {} \/ us = {} \/ (fits /\ Fits(gs, us))
       /\ members' = WithMembers(gs, us)
       /\ Goes(r, to)
       /\ Silently /\ UNCHANGED <<users, groups, name, perms, setup>>
    \/ /\ gs # {} /\ us # {} /\ ~(fits /\ Fits(gs, us))
       /\ Fails(r)

(* The request becomes q: the handler has read something and goes on. *)
Reads(r, q) ==
    /\ request' = [request EXCEPT ![r] = q]
    /\ Silently /\ UNCHANGED <<tables, setup>>

-----------------------------------------------------------------------------
(* Setup and OIDC login *)

(* Insert the row of a user; the unique email refuses a second one. *)
CreateRow(r, u, to) ==
    \/ /\ u \notin users
       /\ users' = users \union {u}
       /\ Goes(r, to)
       /\ Silently /\ UNCHANGED <<groups, name, perms, members, setup>>
    \/ u \in users /\ Checks(r, FALSE, to)

(* Mutant: the setup is marked before its user joins the admin group. *)
SetupPath_MarkFirst == [row |-> "mark", mark |-> "join", join |-> "answer"]

(* The writes that end a setup: a row, a membership, the mark. *)
SetupPath == [row |-> "join", join |-> "mark", mark |-> "answer"]

Join(r, u) == Inserts(r, TRUE, {admin}, {u}, SetupPath.join)

MarkCompleted(r) ==
    /\ completed' = TRUE
    /\ Goes(r, SetupPath.mark)
    /\ Silently /\ UNCHANGED <<tables, admin>>

CompleteSetupStep(r) ==
    \/ /\ At(r, "complete_setup", "start")
       /\ Checks(r, ~completed, "create")
    \/ /\ At(r, "complete_setup", "create") /\ admin = NoGroup
       /\ Checks(r, FALSE, "row")
    \/ /\ At(r, "complete_setup", "create") /\ admin # NoGroup
       /\ CreateRow(r, request[r].user, SetupPath.row)
    \/ /\ At(r, "complete_setup", "join")
       /\ Join(r, request[r].user)
    \/ /\ At(r, "complete_setup", "mark")
       /\ MarkCompleted(r)

(* Where a login goes after name, email and groups follow the provider. *)
AfterSync(q) == IF q.new THEN "initial" ELSE "answer"

(* sync_oidc_user: name and email, then groups. *)
SyncStep(r) ==
    LET q == request[r]
        u == q.user
    IN  \/ /\ At(r, "oidc_callback", "sync") /\ u \in users
           /\ Goes(r, IF q.sync THEN "claims" ELSE AfterSync(q))
           /\ Silently /\ UNCHANGED <<tables, setup>>
        \/ /\ At(r, "oidc_callback", "sync") /\ u \notin users
           /\ Fails(r)
        \/ /\ At(r, "oidc_callback", "claims")
           /\ Reads(r, [q EXCEPT !.at = "last", !.claimed = {g \in groups : name[g] \in q.names}])
        \/ /\ At(r, "oidc_callback", "last") /\ admin = NoGroup
           /\ Reads(r, [q EXCEPT !.at = AfterSync(q), !.sync = FALSE])
        \/ /\ At(r, "oidc_callback", "last") /\ admin # NoGroup
           /\ Reads(r, [q EXCEPT !.at = "clear",
                                 !.claimed = IF IsLastAdmin(u) THEN @ \union {admin} ELSE @])
        \/ /\ At(r, "oidc_callback", "clear")
           /\ members' = WithGroups(u, {})
           /\ Goes(r, "insert")
           /\ Silently /\ UNCHANGED <<users, groups, name, perms, setup>>
        \/ /\ At(r, "oidc_callback", "insert")
           /\ Inserts(r, TRUE, q.claimed, {u}, AfterSync(q))

(* The callback once the provider has vouched for the user. *)
OidcStep(r) ==
    LET q == request[r]
        u == q.user
    IN  \/ /\ At(r, "oidc_callback", "start")
           /\ Reads(r, IF u \in users THEN [q EXCEPT !.at = "sync"]
                                      ELSE [q EXCEPT !.at = "create", !.new = TRUE])
        \/ /\ At(r, "oidc_callback", "create")
           /\ CreateRow(r, u, "sync")
        \/ SyncStep(r)
        \/ /\ At(r, "oidc_callback", "initial")
           /\ Reads(r, [q EXCEPT !.at = IF completed THEN "count" ELSE "promote"])
        \/ /\ At(r, "oidc_callback", "count")
           /\ Reads(r, [q EXCEPT !.at = IF Cardinality(users) = 1 THEN "promote" ELSE "answer"])
        \/ /\ At(r, "oidc_callback", "promote") /\ admin = NoGroup
           /\ Fails(r)
        \/ /\ At(r, "oidc_callback", "promote") /\ admin # NoGroup
           /\ Reads(r, [q EXCEPT !.at = IF u \in members[admin] THEN "mark" ELSE SetupPath.row])
        \/ /\ At(r, "oidc_callback", "join")
           /\ Join(r, u)
        \/ /\ At(r, "oidc_callback", "mark")
           /\ MarkCompleted(r)

-----------------------------------------------------------------------------
(* User management *)

CreateUserStep(r) ==
    \/ /\ At(r, "create_user", "start")
       /\ Checks(r, request[r].user \notin users, "insert")
    \/ /\ At(r, "create_user", "insert")
       /\ CreateRow(r, request[r].user, "mail")
    \/ /\ At(r, "create_user", "mail") /\ request[r].mailed
       /\ Checks(r, TRUE, "answer")
    \/ /\ At(r, "create_user", "mail") /\ ~request[r].mailed
       /\ Fails(r)

DeleteUserStep(r) ==
    LET u == request[r].user
    IN  \/ /\ At(r, "delete_user", "start")
           /\ Checks(r, admin # NoGroup /\ ~IsLastAdmin(u), "target")
        \/ /\ At(r, "delete_user", "target")
           /\ Checks(r, TRUE, IF InAdminGroup(u) THEN "sender" ELSE "delete")
        \/ /\ At(r, "delete_user", "sender")
           /\ Checks(r, InAdminGroup(request[r].by), "delete")
        \/ /\ At(r, "delete_user", "delete")
           /\ users' = users \ {u}
           /\ members' = WithGroups(u, {})
           /\ Goes(r, "answer")
           /\ Silently /\ UNCHANGED <<groups, name, perms, setup>>

EditUserStep(r) ==
    LET q == request[r]
        u == q.user
    IN  \/ /\ At(r, "edit_user", "start")
           /\ Reads(r, [q EXCEPT !.at = "groups", !.had = PermissionsOf(q.by)])
        \/ /\ At(r, "edit_user", "groups")
           /\ Checks(r, \A g \in q.gs.ids \intersect groups : perms[g] \subseteq q.had, "target")
        \/ /\ At(r, "edit_user", "target")
           /\ Checks(r, PermissionsOf(u) \subseteq q.had, "last")
        \/ /\ At(r, "edit_user", "last")
           /\ Checks(r, admin # NoGroup /\ (admin \in q.gs.ids \/ ~IsLastAdmin(u)), "row")
        \/ /\ At(r, "edit_user", "row")
           /\ Checks(r, u \in users, "clear")
        \/ /\ At(r, "edit_user", "clear")
           /\ members' = WithGroups(u, {})
           /\ Goes(r, "insert")
           /\ Silently /\ UNCHANGED <<users, groups, name, perms, setup>>
        \/ /\ At(r, "edit_user", "insert")
           /\ Inserts(r, ~q.gs.repeats, q.gs.ids, {u}, "answer")

-----------------------------------------------------------------------------
(* Group management *)

CreateGroupStep(r) ==
    \/ /\ At(r, "create_group", "start")
       /\ Checks(r, ~NameTaken(request[r].name), "insert")
    \/ /\ At(r, "create_group", "insert")
       /\ \E g \in GroupIds \ groups :
            /\ groups' = groups \union {g}
            /\ name' = [name EXCEPT ![g] = request[r].name]
            /\ request' = [request EXCEPT ![r].at = "answer", ![r].group = g]
       /\ Silently /\ UNCHANGED <<users, perms, members, setup>>

DeleteGroupStep(r) ==
    LET g == request[r].group
    IN  \/ /\ At(r, "delete_group", "start")
           /\ Checks(r, g # admin, "members")
        \/ /\ At(r, "delete_group", "members")
           /\ Reads(r, [request[r] EXCEPT !.at = "delete", !.were = members[g]])
        \/ /\ At(r, "delete_group", "delete") /\ g \notin groups
           /\ Checks(r, FALSE, "answer")
        \/ /\ At(r, "delete_group", "delete") /\ g \in groups
           /\ groups' = groups \ {g}
           /\ name' = [name EXCEPT ![g] = NoName]
           /\ perms' = [perms EXCEPT ![g] = {}]
           /\ members' = [members EXCEPT ![g] = {}]
           /\ Goes(r, "answer")
           /\ Silently /\ UNCHANGED <<users, setup>>

(* The checks of edit_group. *)
EditGroupCheck(r) ==
    LET q == request[r]
        g == q.group
    IN  \/ /\ At(r, "edit_group", "start")
           /\ Checks(r, NameTaken(q.name) => name[g] = q.name, "info")
        \/ /\ At(r, "edit_group", "info") /\ g \notin groups
           /\ Checks(r, FALSE, "rights")
        \/ /\ At(r, "edit_group", "info") /\ g \in groups
           /\ Reads(r, [q EXCEPT !.at = "rights", !.had = perms[g]])
        \/ /\ At(r, "edit_group", "rights")
           /\ Checks(r, /\ q.had \union q.ps.ids \subseteq PermissionsOf(q.by)
                        /\ KeepsAdminGroup(g, q.had, q.ps, q.us), "members")
        \/ /\ At(r, "edit_group", "members")
           /\ Reads(r, [q EXCEPT !.at = "name", !.were = members[g]])

(* Its writes: name, two deletes, two inserts. *)
EditGroupWrite(r) ==
    LET q == request[r]
        g == q.group
        kept == ~q.ps.repeats /\ g \in groups /\ perms[g] \intersect q.ps.ids = {}
    IN  \/ /\ At(r, "edit_group", "name") /\ g \notin groups
           /\ Checks(r, FALSE, "clear_perms")
        \/ /\ At(r, "edit_group", "name") /\ g \in groups
           /\ name' = [name EXCEPT ![g] = q.name]
           /\ Goes(r, "clear_perms")
           /\ Silently /\ UNCHANGED <<users, groups, perms, members, setup>>
        \/ /\ At(r, "edit_group", "clear_perms")
           /\ perms' = [perms EXCEPT ![g] = {}]
           /\ Goes(r, "clear_users")
           /\ Silently /\ UNCHANGED <<users, groups, name, members, setup>>
        \/ /\ At(r, "edit_group", "clear_users")
           /\ members' = [members EXCEPT ![g] = {}]
           /\ Goes(r, "insert_perms")
           /\ Silently /\ UNCHANGED <<users, groups, name, perms, setup>>
        \/ /\ At(r, "edit_group", "insert_perms") /\ (q.ps.ids = {} \/ kept)
           /\ perms' = [perms EXCEPT ![g] = @ \union q.ps.ids]
           /\ Goes(r, "insert_users")
           /\ Silently /\ UNCHANGED <<users, groups, name, members, setup>>
        \/ /\ At(r, "edit_group", "insert_perms") /\ q.ps.ids # {} /\ ~kept
           /\ Fails(r)
        \/ /\ At(r, "edit_group", "insert_users")
           /\ Inserts(r, ~q.us.repeats, {g}, q.us.ids, "answer")

-----------------------------------------------------------------------------
(* The updates a handler that has got to its end may hand over. *)
UpdatesOf(q) ==
    CASE q.op = "complete_setup" -> {{}}
      [] q.op = "oidc_callback" /\ q.sync -> {SyncMessages(q.user)}
      [] q.op = "oidc_callback" /\ ~q.sync ->
           IF q.new THEN {{}} ELSE {{}, {Update(q.user, "user", q.user)}}
      [] q.op \in {"create_user", "delete_user", "edit_user"} -> {Broadcast("user", q.user)}
      [] q.op = "create_group" -> {Broadcast("group", q.group)}
      [] q.op = "delete_group" -> {Broadcast("group", q.group) \union UserPermissions(q.were)}
      [] q.op = "edit_group" ->
           {Broadcast("group", q.group)
              \union UserPermissions(Notified(q.had, q.were, q.ps, q.us))}

Reply(r) ==
    /\ request[r].at = "answer"
    /\ \E updates \in UpdatesOf(request[r]) : Answer(request[r].by, TRUE, updates)
    /\ Ends(r)
    /\ UNCHANGED <<tables, setup>>

(* The client goes away and the handler is dropped at an await. *)
Cancel(r) ==
    /\ request[r] # Idle
    /\ Ends(r)
    /\ Silently /\ UNCHANGED <<tables, setup>>

Handle(r) ==
    \/ CompleteSetupStep(r) \/ OidcStep(r)
    \/ CreateUserStep(r) \/ DeleteUserStep(r) \/ EditUserStep(r)
    \/ CreateGroupStep(r) \/ DeleteGroupStep(r) \/ EditGroupCheck(r) \/ EditGroupWrite(r)

Arrives(r) == \E op \in Operations[r] : \E q \in Calls(op) : Begins(r, q)

Serves(r) == (Arrives(r) \/ Handle(r) \/ Reply(r)) /\ UNCHANGED <<boot, skipping>>

HandlersInit == Init /\ request = [r \in Requests |-> Idle] /\ manned = FALSE

Remembers == manned' = (manned \/ (admin' # NoGroup /\ members'[admin'] # {}))

HandlersNext ==
    /\ \/ \E r \in Requests : Serves(r)
       \/ \E r \in Requests : Cancel(r) /\ UNCHANGED <<boot, skipping>>
       \/ Starts /\ UNCHANGED request
       \/ Crash /\ request' = [r \in Requests |-> Idle]
    /\ Remembers

HandlersSpec == HandlersInit /\ [][HandlersNext]_steps
-----------------------------------------------------------------------------
(* Properties; DirectoryInv of Directory is to hold between any two        *)
(* statements of the handlers as well.                                     *)

(* complete_setup and the first OIDC login put a user in the admin group   *)
(* before they mark the setup completed: wherever a client goes away or    *)
(* the process dies, and whatever overlaps, no request completes a setup   *)
(* that never had an admin.                                                *)
SetupMarkedByAdmin ==
    [][~completed /\ completed' /\ skipping' = skipping => manned]_steps

(* "Cannot delete the last user from the admin group" (management.rs:218): *)
(* deletions alone, however many at once, leave a member in it.            *)
DeletionsKeepAMember ==
    [][/\ \A r \in Requests : request[r].op \in {"none", "delete_user"}
       /\ admin # NoGroup /\ members[admin] # {}
       => members'[admin] # {}]_steps

(* "Add first oidc user to admin group on setup skip" (CHANGELOG.md): when *)
(* everyone in the directory has just logged in for the first time, one of *)
(* them is an admin.                                                       *)
FirstLoginIsAdmin ==
    (/\ admin # NoGroup /\ users # {}
     /\ \A u \in users : \E r \in Requests :
          At(r, "oidc_callback", "answer") /\ request[r].new /\ request[r].user = u)
    => members[admin] # {}
=============================================================================

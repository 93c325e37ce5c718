------------------------ MODULE SerialHandlersProofs ------------------------
(***************************************************************************)
(* The handlers of Handlers, one request at a time, implement Directory:   *)
(* for every number of users, groups, names, permissions and releases.     *)
(***************************************************************************)
EXTENDS SerialHandlers, HandlersProofs, FiniteSetTheorems

-----------------------------------------------------------------------------
(* How far a handler is: the directory as it is now, by the directory as   *)
(* the last whole request left it (before), and what has been checked.     *)

(* The rows of the groups are as the last whole request left them. *)
SameGroups == groups = before.groups /\ name = before.name /\ perms = before.perms

(* Nothing is written yet. *)
Same ==
    /\ SameGroups
    /\ users = before.users /\ members = before.members /\ completed = before.completed

(* What complete_setup has written when it is at q.at. *)
SetupProgress(q) ==
    /\ q.at \in {"start", "create"} => Same
    /\ q.at # "start" => ~before.completed
    /\ q.at \in {"join", "mark", "answer"} =>
         /\ admin # NoGroup /\ q.user \notin before.users
         /\ SameGroups
         /\ users = before.users \union {q.user}
         /\ members = IF q.at = "join" THEN before.members
                      ELSE [before.members EXCEPT ![admin] = @ \union {q.user}]
         /\ completed = (q.at = "answer")

(* The groups a login has put its user in: by sync, and as the first user. *)
Synced(q)   == IF q.sync THEN D!WithGroups(q.user, D!SyncedGroups(q.user, q.names)) ELSE before.members

(* The groups of a user who logs in first. *)
Promoted(q) == D!WithGroups(q.user, (IF q.sync THEN D!SyncedGroups(q.user, q.names) ELSE {})
                                      \union {admin})

(* The same of a login. *)
LoginProgress(q) ==
    /\ SameGroups
    /\ q.at # "start" => (q.new <=> q.user \notin before.users)
    /\ q.at = "start" => ~q.new
    /\ q.at \in {"create", "initial", "count", "promote", "join", "mark"} => q.new
    /\ users = IF q.at \in {"start", "create"} THEN before.users ELSE before.users \union {q.user}
    /\ q.at \in {"claims", "last", "clear", "insert"} => q.sync
    /\ q.at = "last" => q.claimed = {g \in before.groups : before.name[g] \in q.names}
    /\ q.at \in {"clear", "insert"} => q.claimed = D!SyncedGroups(q.user, q.names)
    /\ q.at \in {"clear", "insert", "join", "mark"} => admin # NoGroup
    /\ q.at \in {"initial", "count", "promote", "join", "mark", "answer"} => (q.sync => admin # NoGroup)
    /\ q.at \in {"start", "create", "sync", "claims", "last", "clear"} => members = before.members
    /\ q.at = "insert" => members = D!WithGroups(q.user, {})
    /\ q.at \in {"initial", "count", "promote", "join"} => members = Synced(q)
    /\ q.at = "join" => q.user \notin members[admin]
    /\ q.at = "count" => before.completed
    /\ q.at \in {"promote", "join", "mark"} => D!InitialUser
    /\ q.at = "mark" => members = Promoted(q)
    /\ q.at # "answer" => completed = before.completed
    /\ q.at = "answer" =>
         IF q.new /\ D!InitialUser
         THEN admin # NoGroup /\ members = Promoted(q) /\ completed = TRUE
         ELSE members = Synced(q) /\ completed = before.completed

(* The same of create_user. *)
CreateUserProgress(q) ==
    /\ q.at \in {"start", "insert"} => Same
    /\ q.at \in {"mail", "answer"} =>
         /\ q.user \notin before.users
         /\ users = before.users \union {q.user}
         /\ SameGroups /\ members = before.members /\ completed = before.completed
    /\ q.at = "answer" => q.mailed

(* The same of delete_user. *)
DeleteUserProgress(q) ==
    /\ q.at # "answer" => Same
    /\ q.at # "start" => admin # NoGroup /\ ~D!IsLastAdmin(q.user)
    /\ q.at \in {"delete", "answer"} => (D!InAdminGroup(q.user) => D!InAdminGroup(q.by))
    /\ q.at = "answer" =>
         /\ users = before.users \ {q.user} /\ members = D!WithGroups(q.user, {})
         /\ SameGroups /\ completed = before.completed

(* The same of edit_user. *)
EditUserProgress(q) ==
    LET past(ats) == q.at \notin ats
    IN  /\ q.at \notin {"insert", "answer"} => Same
        /\ past({"start"}) => q.had = D!PermissionsOf(q.by)
        /\ past({"start", "groups"}) => D!Grantable(q.by, q.gs.ids)
        /\ past({"start", "groups", "target"}) => D!PermissionsOf(q.user) \subseteq D!PermissionsOf(q.by)
        /\ past({"start", "groups", "target", "last"}) =>
             admin # NoGroup /\ (admin \in q.gs.ids \/ ~D!IsLastAdmin(q.user))
        /\ q.at \in {"clear", "insert", "answer"} => q.user \in before.users
        /\ q.at \in {"insert", "answer"} => SameGroups /\ users = before.users /\ completed = before.completed
        /\ q.at = "insert" => members = D!WithGroups(q.user, {})
        /\ q.at = "answer" => Insertable(q.gs, before.groups) /\ members = D!WithGroups(q.user, q.gs.ids)

(* The same of create_group. *)
CreateGroupProgress(q) ==
    /\ q.at # "answer" => Same
    /\ q.at # "start" => ~D!NameTaken(q.name)
    /\ q.at = "answer" =>
         /\ q.group \notin before.groups
         /\ groups = before.groups \union {q.group}
         /\ name = [before.name EXCEPT ![q.group] = q.name]
         /\ users = before.users /\ perms = before.perms /\ members = before.members
         /\ completed = before.completed

(* The same of delete_group. *)
DeleteGroupProgress(q) ==
    /\ q.at # "answer" => Same
    /\ q.at # "start" => q.group # admin
    /\ q.at \in {"delete", "answer"} => q.were = before.members[q.group]
    /\ q.at = "answer" =>
         /\ q.group \in before.groups
         /\ groups = before.groups \ {q.group}
         /\ name = [before.name EXCEPT ![q.group] = NoName]
         /\ perms = [before.perms EXCEPT ![q.group] = {}]
         /\ members = [before.members EXCEPT ![q.group] = {}]
         /\ users = before.users /\ completed = before.completed

(* The same of edit_group. *)
EditGroupProgress(q) ==
    LET g == q.group
        past(ats) == q.at \notin ats
        writing == {"clear_perms", "clear_users", "insert_perms", "insert_users", "answer"}
    IN  /\ q.at \notin writing => Same
        /\ past({"start"}) => (D!NameTaken(q.name) => before.name[g] = q.name)
        /\ past({"start", "info"}) => g \in before.groups /\ q.had = before.perms[g]
        /\ past({"start", "info", "rights"}) =>
             /\ q.had \union q.ps.ids \subseteq D!PermissionsOf(q.by)
             /\ KeepsAdminGroup(g, q.had, q.ps, q.us)
        /\ q.at \in writing \union {"name"} => q.were = before.members[g]
        /\ q.at \in writing =>
             /\ users = before.users /\ groups = before.groups /\ completed = before.completed
             /\ name = [before.name EXCEPT ![g] = q.name]
             /\ perms = IF q.at = "clear_perms" THEN before.perms
                        ELSE [before.perms EXCEPT ![g] = IF q.at \in {"insert_users", "answer"}
                                                         THEN q.ps.ids ELSE {}]
             /\ members = IF q.at \in {"clear_perms", "clear_users"} THEN before.members
                          ELSE [before.members EXCEPT ![g] = IF q.at = "answer" THEN q.us.ids ELSE {}]
        /\ q.at \in {"insert_users", "answer"} => ~q.ps.repeats
        /\ q.at = "answer" => Insertable(q.us, before.users)

(* What the request in hand has read and written. *)
Progress(q) ==
    /\ q.op = "complete_setup" => SetupProgress(q)
    /\ q.op = "oidc_callback" => LoginProgress(q)
    /\ q.op = "create_user" => CreateUserProgress(q)
    /\ q.op = "delete_user" => DeleteUserProgress(q)
    /\ q.op = "edit_user" => EditUserProgress(q)
    /\ q.op = "create_group" => CreateGroupProgress(q)
    /\ q.op = "delete_group" => DeleteGroupProgress(q)
    /\ q.op = "edit_group" => EditGroupProgress(q)

(* Who sent it was allowed to. *)
Allowed(q) == q.by # Nobody => D!Authorized(q.by, Needs(q.op))

(* At most one request is in hand. Without one the directory is what the   *)
(* last left; with one it is that and the request's own writes.            *)
SerialInv ==
    /\ HandlersInv
    /\ D!DirectoryInv
    /\ IsFiniteSet(before.users)
    /\ Quiet => Same
    /\ \A r, o \in Requests : request[r] # Idle /\ request[o] # Idle => r = o
    /\ \A r \in Requests :
         request[r] # Idle => Running /\ Allowed(request[r]) /\ Progress(request[r])

-----------------------------------------------------------------------------
(* How a step of a handler ends, seen from Directory. *)

(* The way SerialNext writes `before`. *)
Follows == before' = IF Quiet' /\ ~Refused THEN Now' ELSE before

(* The handler of r goes on, or refuses with nothing written, or ends, and *)
(* then all it has done is a step of Directory.                            *)
WellServed(r) ==
    /\ admin' = admin
    /\ \/ \E n \in InHand :
            /\ n.op = request[r].op /\ n.by = request[r].by
            /\ request' = [request EXCEPT ![r] = n]
            /\ before' = before /\ Progress(n)'
       \/ request' = [request EXCEPT ![r] = Idle] /\ before' = before /\ Same'
       \/ /\ request' = [request EXCEPT ![r] = Idle]
          /\ before' = Now' /\ D!Next /\ IsFiniteSet(users')

(* What SerialInv says of a request in hand. *)
LEMMA Served ==
    ASSUME SerialInv, NEW r \in Requests, request[r] # Idle
    PROVE  /\ request[r] \in InHand /\ Pending(request[r])
           /\ Running /\ Allowed(request[r]) /\ Progress(request[r])
  BY DEF SerialInv, HandlersInv

(* One request at a time: when its handler ends there is none. *)
LEMMA Outcome ==
    ASSUME SerialInv, Follows, NEW r \in Requests, request[r] # Idle, NEW n,
           request' = [request EXCEPT ![r] = n], n = Idle \/ n \in InHand
    PROVE  before' = IF n \in InHand \/ response' = Silent THEN before ELSE Now'
  <1>1. request \in [Requests -> {Idle} \union InHand] /\ Idle \notin InHand
    BY InHandFacts DEF SerialInv, HandlersInv
  <1>2. request'[r] = n
    BY <1>1
  <1>3. CASE n \in InHand
    <2>1. ~Quiet'
      BY <1>1, <1>2, <1>3 DEF Quiet
    <2>2. QED
      BY <1>3, <2>1 DEF Follows
  <1>4. CASE n = Idle
    <2>1. Quiet'
      BY <1>1, <1>4 DEF Quiet, SerialInv
    <2>2. request' # request
      BY <1>2, <1>4
    <2>3. QED
      BY <1>1, <1>4, <2>1, <2>2 DEF Follows, Refused
  <1>5. QED
    BY <1>3, <1>4

(* The request stays in hand, and Directory stutters. *)
LEMMA GoesOn ==
    ASSUME SerialInv, Follows, NEW r \in Requests, request[r] # Idle, NEW n \in InHand,
           n.op = request[r].op, n.by = request[r].by, request' = [request EXCEPT ![r] = n],
           admin' = admin, before' = before => Progress(n)'
    PROVE  WellServed(r)
  <1>1. before' = before
    BY Outcome
  <1>2. QED
    BY <1>1 DEF WellServed

(* The request ends, and Directory takes one step. *)
LEMMA Answers ==
    ASSUME SerialInv, Follows, NEW r \in Requests, request[r] # Idle,
           request' = [request EXCEPT ![r] = Idle], response' # Silent, admin' = admin,
           before' = Now' => D!Next /\ IsFiniteSet(users')
    PROVE  WellServed(r)
  <1>1. Idle \notin InHand
    BY InHandFacts
  <1>2. before' = Now'
    BY <1>1, Outcome
  <1>3. QED
    BY <1>2 DEF WellServed

(* Nothing is written: what was so stays so. *)
LEMMA SyncedStays ==
    ASSUME UNCHANGED <<before, admin>>
    PROVE  /\ \A u, gs : D!WithGroups(u, gs)' = D!WithGroups(u, gs)
           /\ \A u, ns : D!SyncedGroups(u, ns)' = D!SyncedGroups(u, ns)
           /\ D!InitialUser' <=> D!InitialUser
           /\ \A u : D!PermissionsOf(u)' = D!PermissionsOf(u)
           /\ \A u : D!IsLastAdmin(u)' <=> D!IsLastAdmin(u)
           /\ \A u : D!InAdminGroup(u)' <=> D!InAdminGroup(u)
           /\ \A u, ids : D!Grantable(u, ids)' <=> D!Grantable(u, ids)
           /\ \A n : D!NameTaken(n)' <=> D!NameTaken(n)
           /\ \A g, had, ps, us : KeepsAdminGroup(g, had, ps, us)' <=> KeepsAdminGroup(g, had, ps, us)
  BY DEF D!WithGroups, D!SyncedGroups, D!InitialUser, D!PermissionsOf, D!HasPermission,
     D!IsLastAdmin, D!InAdminGroup, D!Grantable, D!NameTaken, KeepsAdminGroup

(* Promoted speaks of the directory before, not of the tables. *)
LEMMA PromotedStays ==
    ASSUME UNCHANGED <<before, admin>>, NEW q
    PROVE  Synced(q)' = Synced(q) /\ Promoted(q)' = Promoted(q)
  BY DEF Synced, Promoted, D!WithGroups, D!SyncedGroups, D!IsLastAdmin

(* Progress speaks of tables and record only. *)
LEMMA ProgressStays ==
    ASSUME UNCHANGED <<before, tables, setup>>, NEW n, Progress(n)
    PROVE  Progress(n)'
  <1> USE SyncedStays DEF Same, SameGroups, tables, setup
  <1>1. SetupProgress(n) => SetupProgress(n)'
    BY DEF SetupProgress
  <1>2. LoginProgress(n) => LoginProgress(n)'
    BY PromotedStays DEF LoginProgress
  <1>3. CreateUserProgress(n) => CreateUserProgress(n)'
    BY DEF CreateUserProgress
  <1>4. DeleteUserProgress(n) => DeleteUserProgress(n)'
    BY DEF DeleteUserProgress
  <1>5. EditUserProgress(n) => EditUserProgress(n)'
    BY DEF EditUserProgress
  <1>6. CreateGroupProgress(n) => CreateGroupProgress(n)'
    BY DEF CreateGroupProgress
  <1>7. DeleteGroupProgress(n) => DeleteGroupProgress(n)'
    BY DEF DeleteGroupProgress
  <1>8. EditGroupProgress(n) => EditGroupProgress(n)'
    BY DEF EditGroupProgress
  <1>9. QED
    BY <1>1, <1>2, <1>3, <1>4, <1>5, <1>6, <1>7, <1>8 DEF Progress

(* A query that only reads. *)
LEMMA ReadsServed ==
    ASSUME SerialInv, Follows, NEW r \in Requests, request[r] # Idle, NEW n \in InHand,
           Reads(r, n), n.op = request[r].op, n.by = request[r].by, Progress(n)
    PROVE  WellServed(r)
  <1>1. request' = [request EXCEPT ![r] = n] /\ UNCHANGED <<tables, setup>>
    BY DEF Reads
  <1>2. QED
    BY <1>1, GoesOn, ProgressStays DEF setup

(* A query that decides: on, or refused with nothing written. *)
LEMMA ChecksServed ==
    ASSUME SerialInv, Follows, NEW r \in Requests, request[r] # Idle, NEW holds, NEW to,
           Checks(r, holds, to), NEW n, n = [request[r] EXCEPT !.at = to],
           holds => n \in InHand /\ n.op = request[r].op /\ n.by = request[r].by /\ Progress(n),
           ~holds => Same
    PROVE  WellServed(r)
  <1>1. CASE holds /\ Reads(r, n)
    BY <1>1, ReadsServed
  <1>2. CASE ~holds
    <2>1. /\ request' = [request EXCEPT ![r] = Idle] /\ response' = Silent
          /\ UNCHANGED <<tables, setup>>
      BY <1>2 DEF Checks, Ends, Silently
    <2>2. before' = before
      BY <2>1, Outcome
    <2>3. Same'
      BY <1>2, <2>1, <2>2 DEF Same, SameGroups, tables, setup
    <2>4. QED
      BY <2>1, <2>2, <2>3 DEF WellServed, setup
  <1>3. QED
    BY <1>1, <1>2 DEF Checks, Reads, Goes

(* Every kind of whole request is a step of Directory. *)
LEMMA LoginsAreSteps ==
    ASSUME NEW u \in UserIds, NEW ns \in SUBSET Names, NEW sync \in BOOLEAN,
           \/ D!CompleteSetup(u) \/ D!OidcLoginSync(u, ns) \/ D!OidcLoginPlain(u)
           \/ D!OidcLoginCreate(u, ns, sync) \/ D!OidcLoginCreateEarly(u)
    PROVE  D!Next
  BY Zenon DEF D!Next, D!Login

(* The requests about users, by their way through the handlers. *)
LEMMA UserRequestsAreSteps ==
    ASSUME NEW a \in UserIds, NEW u \in UserIds, NEW mailed \in BOOLEAN, NEW gs \in GroupLists,
           D!Authorized(a, UserEdit),
           D!CreateUser(a, u, mailed) \/ D!DeleteUser(a, u) \/ D!EditUser(a, u, gs)
    PROVE  D!Next
  <1>1. GroupLists = D!GroupLists
    BY DEF GroupLists, D!GroupLists, Lists, D!Lists
  <1>2. QED
    BY <1>1, Zenon DEF D!Next, D!Manages

(* The requests about groups, likewise. *)
LEMMA GroupRequestsAreSteps ==
    ASSUME NEW a \in UserIds, NEW g \in GroupIds, NEW n \in Names, NEW ps \in PermLists,
           NEW us \in UserLists, D!Authorized(a, GroupEdit),
           D!CreateGroup(a, g, n) \/ D!DeleteGroup(a, g) \/ D!EditGroup(a, g, n, ps, us)
    PROVE  D!Next
  <1>1. PermLists = D!PermLists /\ UserLists = D!UserLists
    BY DEF PermLists, D!PermLists, UserLists, D!UserLists, Lists, D!Lists
  <1>2. QED
    BY <1>1, Zenon DEF D!Next, D!Manages

(* What one insert adds to the finite table of users, or one delete takes. *)
LEMMA FinitelyMany ==
    ASSUME SerialInv, NEW u
    PROVE  /\ IsFiniteSet(before.users)
           /\ IsFiniteSet(before.users \union {u})
           /\ IsFiniteSet(before.users \ {u})
  BY FS_AddElement, FS_RemoveElement DEF SerialInv

(* What the last answered request has left is what there is now. *)
LEMMA NowFacts ==
    ASSUME before' = Now'
    PROVE  /\ before'.users = users' /\ before'.groups = groups' /\ before'.name = name'
           /\ before'.perms = perms' /\ before'.members = members' /\ before'.completed = completed'
           /\ before'.sent = sent' /\ before'.response = response'
  BY DEF Now

(* The insert of a row goes through, or the directory has the user. *)
LEMMA RowServed ==
    ASSUME SerialInv, Follows, NEW r \in Requests, request[r] # Idle, NEW u, NEW to,
           CreateRow(r, u, to), NEW n, n = [request[r] EXCEPT !.at = to], n \in InHand, Same
    PROVE  \/ WellServed(r)
           \/ /\ users' = users \union {u} /\ u \notin users
              /\ UNCHANGED <<before, groups, name, perms, members, admin, completed>>
              /\ request' = [request EXCEPT ![r] = n]
  <1>1. CASE u \in users /\ Checks(r, FALSE, to)
    BY <1>1, ChecksServed
  <1>2. CASE ~(u \in users /\ Checks(r, FALSE, to))
    <2>1. /\ users' = users \union {u} /\ u \notin users
          /\ UNCHANGED <<groups, name, perms, members, admin, completed>>
          /\ request' = [request EXCEPT ![r] = n]
      BY <1>2 DEF CreateRow, Goes, setup
    <2>2. QED
      BY <2>1, Outcome
  <1>3. QED
    BY <1>1, <1>2

(* The insert of the memberships of a user that fits goes through. *)
LEMMA MembershipsServed ==
    ASSUME SerialInv, Follows, NEW r \in Requests, request[r] # Idle, NEW u,
           NEW gs \in SUBSET groups, u \in users, \A g \in gs : u \notin members[g], NEW to,
           Inserts(r, TRUE, gs, {u}, to), [request[r] EXCEPT !.at = to] \in InHand
    PROVE  /\ members' = WithMembers(gs, {u}) /\ Goes(r, to)
           /\ UNCHANGED <<before, users, groups, name, perms, admin, completed>>
  <1>1. Fits(gs, {u})
    BY DEF Fits
  <1>2. /\ members' = WithMembers(gs, {u}) /\ Goes(r, to)
        /\ UNCHANGED <<users, groups, name, perms, admin, completed>>
    BY <1>1 DEF Inserts, setup
  <1>3. before' = before
    BY <1>2, Outcome DEF Goes
  <1>4. QED
    BY <1>2, <1>3

(* Setup: what complete_setup does statement by statement. *)
LEMMA SetupServed ==
    ASSUME SerialInv, Follows, NEW r \in Requests, CompleteSetupStep(r)
    PROVE  WellServed(r)
  <1> SUFFICES ASSUME NEW q, q = request[r]
               PROVE  WellServed(r)
    OBVIOUS
  <1>0. q # Idle /\ q.op = "complete_setup"
    BY AtFacts DEF SerialInv, CompleteSetupStep
  <1>1. q \in SetupRequests /\ SetupProgress(q)
    BY <1>0, Served, InHandFacts DEF Progress
  <1>2. \A to \in {"create", "join", "mark", "answer"} :
          \E n \in InHand : /\ n = [q EXCEPT !.at = to] /\ n.op = q.op /\ n.by = q.by /\ n.at = to
                            /\ n.user = q.user
    <2>1. \A to \in {"create", "join", "mark", "answer"} : [q EXCEPT !.at = to] \in SetupRequests
      BY <1>1 DEF SetupRequests
    <2>2. QED
      BY <1>1, <2>1 DEF SetupRequests, InHand
  <1>3. q.user \in UserIds /\ before.completed \in BOOLEAN
    BY <1>1 DEF SetupRequests, SerialInv, D!DirectoryInv, D!TypeOK
  <1>4. CASE At(r, "complete_setup", "start") /\ Checks(r, ~completed, "create")
    <2> PICK n \in InHand : /\ n = [q EXCEPT !.at = "create"] /\ n.op = q.op /\ n.by = q.by
                            /\ n.at = "create" /\ n.user = q.user
      BY <1>2
    <2>1. Same /\ (~completed => Progress(n))
      BY <1>0, <1>1, <1>4 DEF SetupProgress, Same, Progress, At
    <2>2. QED
      BY <1>0, <1>4, <2>1, ChecksServed
  <1>5. CASE At(r, "complete_setup", "create") /\ Checks(r, FALSE, "row")
    <2>1. Same
      BY <1>1, <1>5 DEF SetupProgress, At
    <2>2. QED
      BY <1>0, <1>5, <2>1, ChecksServed
  <1>6. CASE At(r, "complete_setup", "create") /\ admin # NoGroup /\ CreateRow(r, q.user, "join")
    <2> PICK n \in InHand : /\ n = [q EXCEPT !.at = "join"] /\ n.op = q.op /\ n.by = q.by
                            /\ n.at = "join" /\ n.user = q.user
      BY <1>2
    <2>1. Same /\ before.completed = FALSE
      BY <1>1, <1>3, <1>6 DEF SetupProgress, At
    <2>2. SUFFICES ASSUME /\ users' = users \union {q.user} /\ q.user \notin users
                          /\ UNCHANGED <<before, groups, name, perms, members, admin, completed>>
                          /\ request' = [request EXCEPT ![r] = n]
                   PROVE  WellServed(r)
      BY <1>0, <1>6, <2>1, RowServed
    <2>3. Progress(n)'
      BY <1>0, <1>6, <2>1, <2>2 DEF SetupProgress, Same, SameGroups, Progress
    <2>4. QED
      BY <1>0, <2>2, <2>3, GoesOn
  <1>7. CASE At(r, "complete_setup", "join") /\ Join(r, q.user)
    <2> PICK n \in InHand : /\ n = [q EXCEPT !.at = "mark"] /\ n.op = q.op /\ n.by = q.by
                            /\ n.at = "mark" /\ n.user = q.user
      BY <1>2
    <2>1. /\ admin # NoGroup /\ q.user \notin before.users /\ SameGroups /\ before.completed = FALSE
          /\ users = before.users \union {q.user} /\ members = before.members /\ completed = FALSE
      BY <1>1, <1>3, <1>7 DEF SetupProgress, At
    <2>2. /\ admin \in groups /\ admin \in GroupIds /\ members \in [GroupIds -> SUBSET UserIds]
          /\ q.user \notin members[admin]
      BY <2>1 DEF SerialInv, HandlersInv, DirectoryInv, AdminGroupExists, TypeOK,
                  D!DirectoryInv, D!NoDanglingRows
    <2>3. /\ Inserts(r, TRUE, {admin}, {q.user}, "mark")
          /\ {admin} \in SUBSET groups /\ q.user \in users
          /\ \A g \in {admin} : q.user \notin members[g]
      BY <1>7, <2>1, <2>2 DEF Join, SetupPath
    <2>4. /\ members' = WithMembers({admin}, {q.user}) /\ Goes(r, "mark")
          /\ UNCHANGED <<before, users, groups, name, perms, admin, completed>>
      BY <1>0, <2>3, MembershipsServed
    <2>5. members' = [before.members EXCEPT ![admin] = @ \union {q.user}]
      BY <2>1, <2>2, <2>4 DEF WithMembers
    <2>6. Progress(n)'
      BY <1>0, <2>1, <2>4, <2>5 DEF SetupProgress, SameGroups, Progress
    <2>7. QED
      BY <1>0, <2>4, <2>6, GoesOn DEF Goes
  <1>8. CASE At(r, "complete_setup", "mark") /\ MarkCompleted(r)
    <2> PICK n \in InHand : /\ n = [q EXCEPT !.at = "answer"] /\ n.op = q.op /\ n.by = q.by
                            /\ n.at = "answer" /\ n.user = q.user
      BY <1>2
    <2>1. /\ request' = [request EXCEPT ![r] = n] /\ completed' = TRUE
          /\ UNCHANGED <<users, groups, name, perms, members, admin>>
      BY <1>8 DEF MarkCompleted, SetupPath, Goes, tables
    <2>2. before' = before => Progress(n)'
      BY <1>0, <1>1, <1>8, <2>1 DEF SetupProgress, SameGroups, Progress, At
    <2>3. QED
      BY <1>0, <2>1, <2>2, GoesOn
  <1>9. QED
    BY <1>4, <1>5, <1>6, <1>7, <1>8 DEF CompleteSetupStep, SetupPath

(* The end of complete_setup is CompleteSetup. *)
LEMMA SetupAnswered ==
    ASSUME SerialInv, Follows, UNCHANGED <<boot, skipping>>, NEW r \in Requests, Reply(r),
           request[r].op = "complete_setup"
    PROVE  WellServed(r)
  <1> SUFFICES ASSUME NEW q, q = request[r]
               PROVE  WellServed(r)
    OBVIOUS
  <1>1. q # Idle /\ q.at = "answer"
    BY DEF Reply, Idle
  <1>2. q \in SetupRequests /\ SetupProgress(q) /\ Running
    BY <1>1, Served, InHandFacts DEF Progress
  <1>3. q.user \in UserIds /\ q.by = Nobody
    BY <1>2 DEF SetupRequests
  <1>4. /\ sent' = {} /\ response' = Ok(Nobody)
        /\ UNCHANGED <<users, groups, name, perms, members, admin, completed>>
    BY <1>3 DEF Reply, UpdatesOf, Answer, tables, setup
  <1>5. /\ users = before.users \union {q.user} /\ q.user \notin before.users /\ SameGroups
        /\ members = [before.members EXCEPT ![admin] = @ \union {q.user}]
        /\ completed = TRUE /\ ~before.completed /\ admin # NoGroup
    BY <1>1, <1>2 DEF SetupProgress
  <1>6. IsFiniteSet(users)
    BY <1>5, FinitelyMany
  <1>7. before' = Now' => D!CompleteSetup(q.user)
    BY <1>2, <1>4, <1>5, NowFacts DEF SameGroups, D!CompleteSetup, D!Running, Running, Ok, D!Ok
  <1>8. response' # Silent /\ request' = [request EXCEPT ![r] = Idle]
    BY <1>4 DEF Reply, Ends, Ok, Silent
  <1>9. QED
    BY <1>1, <1>3, <1>4, <1>6, <1>7, <1>8, LoginsAreSteps, Answers

-----------------------------------------------------------------------------
(* Logins. *)

(* What a directory without dangling rows says of a user, and of who is    *)
(* none.                                                                   *)
LEMMA BeforeFacts ==
    ASSUME SerialInv
    PROVE  /\ before.members \in [GroupIds -> SUBSET UserIds] /\ before.completed \in BOOLEAN
           /\ before.perms \in [GroupIds -> SUBSET Perms]
           /\ before.groups \in SUBSET GroupIds
           /\ admin # NoGroup => admin \in before.groups /\ admin \in GroupIds
           /\ \A g \in GroupIds : before.members[g] \subseteq before.users
  BY DEF SerialInv, D!DirectoryInv, D!TypeOK, D!AdminGroupExists, D!NoDanglingRows

(* The memberships of one user, rewritten in two statements. *)
LEMMA RewrittenMembers ==
    ASSUME NEW u, NEW gs, NEW old, members = D!WithGroups(u, old)
    PROVE  WithMembers(gs, {u}) = D!WithGroups(u, old \union gs)
  BY DEF WithMembers, D!WithGroups

(* A user without a row is in no group: rewriting none changes nothing. *)
LEMMA StrangersMembers ==
    ASSUME SerialInv, NEW u, u \notin before.users
    PROVE  D!WithGroups(u, {}) = before.members
  <1>1. before.members \in [GroupIds -> SUBSET UserIds] /\ \A g \in GroupIds : u \notin before.members[g]
    BY BeforeFacts
  <1>2. QED
    BY <1>1 DEF D!WithGroups

(* n is the login q, at another await. *)
LoginAt(n, q, to) ==
    /\ n \in InHand /\ n.at = to /\ n.op = q.op /\ n.by = q.by
    /\ n.user = q.user /\ n.names = q.names /\ n.sync = q.sync /\ n.new = q.new
    /\ n.claimed = q.claimed

(* Where a login is once the row of its user is there. *)
LoginAts == {"sync", "claims", "last", "clear", "insert", "initial", "count", "promote", "join",
             "mark", "answer"}

(* A step of a login that writes nothing. *)
LEMMA LoginMoves ==
    ASSUME NEW q \in LoginRequests, NEW to \in LoginAts
    PROVE  LoginAt([q EXCEPT !.at = to], q, to)
  <1>1. [q EXCEPT !.at = to] \in LoginRequests
    BY DEF LoginRequests, LoginAts
  <1>2. QED
    BY <1>1 DEF LoginAt, LoginRequests, InHand

(* A login that has only read. *)
LEMMA LoginReads ==
    ASSUME SerialInv, Follows, NEW r \in Requests, NEW n \in InHand, Reads(r, n),
           request[r].op = "oidc_callback", n.op = request[r].op, n.by = request[r].by,
           LoginProgress(n)
    PROVE  WellServed(r)
  <1>1. request[r] # Idle /\ Progress(n)
    BY DEF Progress, Idle
  <1>2. QED
    BY <1>1, ReadsServed

(* The groups that sync finds exist. *)
LEMMA SyncedExist ==
    ASSUME SerialInv, NEW u, NEW ns, admin # NoGroup
    PROVE  D!SyncedGroups(u, ns) \in SUBSET before.groups
  BY BeforeFacts DEF D!SyncedGroups

(* The statements of the sync, for Directory none, add up to WithGroups. *)
LEMMA SyncServed ==
    ASSUME SerialInv, Follows, NEW r \in Requests, SyncStep(r)
    PROVE  WellServed(r)
  <1> SUFFICES ASSUME NEW q, q = request[r]
               PROVE  WellServed(r)
    OBVIOUS
  <1>0. q # Idle /\ q.op = "oidc_callback"
    <2>1. PICK from : At(r, "oidc_callback", from)
      BY Zenon DEF SyncStep
    <2>2. QED
      BY <2>1, AtFacts DEF SerialInv
  <1>1. /\ q \in LoginRequests /\ LoginProgress(q)
        /\ q.user \in UserIds /\ q.sync \in BOOLEAN /\ q.new \in BOOLEAN
    <2>1. q \in LoginRequests /\ LoginProgress(q)
      BY <1>0, Served, InHandFacts DEF Progress
    <2>2. QED
      BY <2>1 DEF LoginRequests
  <1>2. /\ SameGroups
        /\ q.at \in LoginAts => users = before.users \union {q.user} /\ (q.new <=> q.user \notin before.users)
    BY <1>1 DEF LoginProgress, LoginAts
  <1>3. AfterSync(q) = IF q.new THEN "initial" ELSE "answer"
    BY DEF AfterSync
  <1>4. CASE At(r, "oidc_callback", "sync") /\ Goes(r, IF q.sync THEN "claims" ELSE AfterSync(q))
             /\ Silently /\ UNCHANGED <<tables, setup>>
    <2> DEFINE to == IF q.sync THEN "claims" ELSE AfterSync(q)
    <2>0. to \in {"claims", "initial", "answer"} /\ Goes(r, to)
      BY <1>3, <1>4
    <2>1. PICK n : n = [q EXCEPT !.at = to] /\ LoginAt(n, q, to)
      BY <1>1, <2>0, LoginMoves DEF LoginAts
    <2>2. /\ q.at = "sync" /\ members = before.members /\ completed = before.completed
          /\ users = before.users \union {q.user} /\ (q.new <=> q.user \notin before.users)
      BY <1>1, <1>4 DEF LoginProgress, At
    <2>3. LoginProgress(n)
      <3>1. n.sync = q.sync /\ n.new = q.new /\ n.user = q.user /\ n.at = to
        BY <2>1 DEF LoginAt
      <3>2. CASE q.sync
        BY <1>2, <2>2, <3>1, <3>2 DEF LoginProgress
      <3>3. CASE ~q.sync
        BY <1>2, <1>3, <2>2, <3>1, <3>3 DEF LoginProgress, Synced
      <3>4. QED
        BY <3>2, <3>3
    <2>4. Reads(r, n)
      BY <1>4, <2>0, <2>1 DEF Reads, Goes
    <2>5. QED
      BY <1>0, <2>1, <2>3, <2>4, LoginReads DEF LoginAt
  <1>5. CASE At(r, "oidc_callback", "sync") /\ q.user \notin users
    BY <1>1, <1>5 DEF LoginProgress, At
  <1>6. CASE /\ At(r, "oidc_callback", "claims")
             /\ Reads(r, [q EXCEPT !.at = "last", !.claimed = {g \in groups : name[g] \in q.names}])
    <2> DEFINE claims == {g \in groups : name[g] \in q.names}
    <2>1. PICK n : n = [q EXCEPT !.at = "last", !.claimed = claims]
      OBVIOUS
    <2>2. claims \in SUBSET GroupIds
      BY DEF SerialInv, HandlersInv, DirectoryInv, TypeOK
    <2>3. /\ n \in LoginRequests /\ n \in InHand /\ n.at = "last" /\ n.op = q.op /\ n.by = q.by
          /\ n.user = q.user /\ n.names = q.names /\ n.sync = q.sync /\ n.new = q.new /\ n.claimed = claims
      BY <1>1, <2>1, <2>2 DEF LoginRequests, InHand
    <2>4. q.at = "claims"
      BY <1>6 DEF At
    <2>5. LoginProgress(n)
      BY <1>1, <2>3, <2>4 DEF LoginProgress, SameGroups
    <2>6. QED
      BY <1>0, <1>6, <2>1, <2>3, <2>5, LoginReads
  <1>7. CASE /\ At(r, "oidc_callback", "last") /\ admin = NoGroup
             /\ Reads(r, [q EXCEPT !.at = AfterSync(q), !.sync = FALSE])
    <2>1. PICK n : n = [q EXCEPT !.at = AfterSync(q), !.sync = FALSE]
      OBVIOUS
    <2>2. /\ n \in LoginRequests /\ n \in InHand /\ n.at = AfterSync(q) /\ n.op = q.op /\ n.by = q.by
          /\ n.user = q.user /\ n.names = q.names /\ n.sync = FALSE /\ n.new = q.new
      BY <1>1, <1>3, <2>1 DEF LoginRequests, InHand
    <2>3. /\ q.at = "last" /\ members = before.members /\ completed = before.completed
          /\ users = before.users \union {q.user} /\ (q.new <=> q.user \notin before.users)
      BY <1>1, <1>7 DEF LoginProgress, At
    <2>4. LoginProgress(n)
      BY <1>1, <1>2, <1>3, <2>2, <2>3 DEF LoginProgress, Synced
    <2>5. QED
      BY <1>0, <1>7, <2>1, <2>2, <2>4, LoginReads
  <1>8. CASE /\ At(r, "oidc_callback", "last") /\ admin # NoGroup
             /\ Reads(r, [q EXCEPT !.at = "clear",
                     !.claimed = IF IsLastAdmin(q.user) THEN q.claimed \union {admin} ELSE q.claimed])
    <2> DEFINE claims == IF IsLastAdmin(q.user) THEN q.claimed \union {admin} ELSE q.claimed
    <2>1. PICK n : n = [q EXCEPT !.at = "clear", !.claimed = claims]
      OBVIOUS
    <2>2. claims \in SUBSET GroupIds
      BY <1>1, <1>8 DEF LoginRequests, SerialInv, HandlersInv, DirectoryInv, TypeOK
    <2>3. /\ n \in LoginRequests /\ n \in InHand /\ n.at = "clear" /\ n.op = q.op /\ n.by = q.by
          /\ n.user = q.user /\ n.names = q.names /\ n.sync = q.sync /\ n.new = q.new /\ n.claimed = claims
      BY <1>1, <2>1, <2>2 DEF LoginRequests, InHand
    <2>4. q.at = "last" /\ q.sync /\ members = before.members
          /\ q.claimed = {g \in before.groups : before.name[g] \in q.names}
      BY <1>1, <1>8 DEF LoginProgress, At
    <2>5. claims = D!SyncedGroups(q.user, q.names)
      BY <2>4 DEF D!SyncedGroups, D!IsLastAdmin, IsLastAdmin
    <2> HIDE DEF claims
    <2>6. LoginProgress(n)
      BY <1>1, <1>8, <2>3, <2>4, <2>5 DEF LoginProgress
    <2>7. QED
      BY <1>0, <1>8, <2>1, <2>3, <2>6, LoginReads DEF claims
  <1>9. CASE /\ At(r, "oidc_callback", "clear") /\ members' = WithGroups(q.user, {}) /\ Goes(r, "insert")
             /\ UNCHANGED <<users, groups, name, perms, setup>>
    <2>1. PICK n : n = [q EXCEPT !.at = "insert"] /\ LoginAt(n, q, "insert")
      BY <1>1, LoginMoves DEF LoginAts
    <2>2. q.at = "clear" /\ members = before.members
      BY <1>1, <1>9 DEF LoginProgress, At
    <2>3. members' = D!WithGroups(q.user, {})
      BY <1>9, <2>2 DEF WithGroups, D!WithGroups
    <2>4. before' = before => LoginProgress(n)'
      BY <1>1, <1>2, <1>9, <2>1, <2>2, <2>3, SyncedStays DEF LoginProgress, LoginAt, SameGroups,
         setup
    <2>5. before' = before => Progress(n)'
      BY <1>0, <2>1, <2>4 DEF Progress, LoginAt
    <2>6. QED
      BY <1>0, <1>9, <2>1, <2>5, GoesOn DEF LoginAt, Goes, setup
  <1>10. CASE At(r, "oidc_callback", "insert") /\ Inserts(r, TRUE, q.claimed, {q.user}, AfterSync(q))
    <2>1. PICK n : n = [q EXCEPT !.at = AfterSync(q)] /\ LoginAt(n, q, AfterSync(q))
      BY <1>1, <1>3, LoginMoves DEF LoginAts
    <2>2. /\ q.at = "insert" /\ q.sync /\ admin # NoGroup /\ members = D!WithGroups(q.user, {})
          /\ q.claimed = D!SyncedGroups(q.user, q.names) /\ completed = before.completed
          /\ users = before.users \union {q.user} /\ (q.new <=> q.user \notin before.users)
      BY <1>1, <1>10 DEF LoginProgress, At
    <2>3. q.claimed \in SUBSET groups /\ q.user \in users
      BY <1>2, <2>2, SyncedExist DEF SameGroups
    <2>4. \A g \in q.claimed : q.user \notin members[g]
      BY <1>2, <2>2, <2>3, BeforeFacts DEF D!WithGroups, SameGroups
    <2>5. /\ members' = WithMembers(q.claimed, {q.user}) /\ Goes(r, AfterSync(q))
          /\ UNCHANGED <<before, users, groups, name, perms, admin, completed>>
      BY <1>0, <1>10, <2>1, <2>3, <2>4, MembershipsServed DEF LoginAt
    <2>6. members' = D!WithGroups(q.user, q.claimed)
      BY <2>2, <2>5, RewrittenMembers
    <2>7. LoginProgress(n)'
      BY <1>1, <1>2, <1>3, <2>1, <2>2, <2>5, <2>6, SyncedStays DEF LoginProgress, LoginAt,
         SameGroups, Synced
    <2>8. Progress(n)'
      BY <1>0, <2>1, <2>7 DEF Progress, LoginAt
    <2>9. QED
      BY <1>0, <2>1, <2>5, <2>8, GoesOn DEF LoginAt, Goes
  <1>11. QED
    BY <1>4, <1>5, <1>6, <1>7, <1>8, <1>9, <1>10 DEF SyncStep

(* A user table with exactly one row more than none. *)
LEMMA OneUser ==
    ASSUME SerialInv, NEW u, u \notin before.users
    PROVE  Cardinality(before.users \union {u}) = 1 <=> before.users = {}
  <1>1. /\ Cardinality(before.users) \in Nat
        /\ Cardinality(before.users \union {u}) = Cardinality(before.users) + 1
        /\ Cardinality(before.users) = 0 <=> before.users = {}
    BY FS_AddElement, FS_EmptySet, FS_CardinalityType DEF SerialInv
  <1>2. QED
    BY <1>1

(* The groups of a new admin, whether sync has just put it there or not. *)
LEMMA PromotedMembers ==
    ASSUME SerialInv, NEW q, q.user \notin before.users, admin # NoGroup, members = Synced(q)
    PROVE  /\ q.user \in members[admin] => members = Promoted(q)
           /\ WithMembers({admin}, {q.user}) = Promoted(q)
  <1> DEFINE gs == IF q.sync THEN D!SyncedGroups(q.user, q.names) ELSE {}
  <1>1. members = D!WithGroups(q.user, gs)
    BY StrangersMembers DEF Synced
  <1>2. Promoted(q) = D!WithGroups(q.user, gs \union {admin})
    BY DEF Promoted
  <1> HIDE DEF gs
  <1>3. q.user \in members[admin] => gs \union {admin} = gs
    BY <1>1, BeforeFacts DEF D!WithGroups
  <1>4. QED
    BY <1>1, <1>2, <1>3, RewrittenMembers

(* The last handler of a login that fails: a first user without an admin   *)
(* group, after its row was written.                                       *)
LEMMA LoginFails ==
    ASSUME SerialInv, Follows, UNCHANGED <<boot, skipping>>, NEW r \in Requests,
           At(r, "oidc_callback", "promote"), admin = NoGroup, Fails(r)
    PROVE  WellServed(r)
  <1> SUFFICES ASSUME NEW q, q = request[r]
               PROVE  WellServed(r)
    OBVIOUS
  <1>1. q # Idle /\ q.op = "oidc_callback" /\ q.at = "promote"
    BY DEF At, Idle
  <1>2. q \in LoginRequests /\ LoginProgress(q) /\ Running
    BY <1>1, Served, InHandFacts DEF Progress
  <1>3. q.user \in UserIds /\ q.by = Nobody
    BY <1>2 DEF LoginRequests
  <1>4. /\ sent' = {} /\ response' = Error(Nobody) /\ request' = [request EXCEPT ![r] = Idle]
        /\ UNCHANGED <<users, groups, name, perms, members, admin, completed>>
    BY <1>3 DEF Fails, Ends, tables, setup
  <1>5. /\ users = before.users \union {q.user} /\ q.user \notin before.users /\ SameGroups
        /\ members = before.members /\ completed = before.completed /\ D!InitialUser
    BY <1>1, <1>2 DEF LoginProgress, Synced
  <1>6. IsFiniteSet(users)
    BY <1>5, FinitelyMany
  <1>7. before' = Now' => D!OidcLoginCreateEarly(q.user)
    BY <1>2, <1>4, <1>5, NowFacts DEF SameGroups, D!OidcLoginCreateEarly, D!Running, Running,
       D!setup,
       Error, D!Error
  <1>8. response' # Silent
    BY <1>4 DEF Error, Silent
  <1>9. QED
    BY <1>1, <1>3, <1>4, <1>6, <1>7, <1>8, LoginsAreSteps, Answers

(* The other statements of a login. *)
LEMMA OidcServed ==
    ASSUME SerialInv, Follows, UNCHANGED <<boot, skipping>>, NEW r \in Requests, OidcStep(r)
    PROVE  WellServed(r)
  <1>s. CASE SyncStep(r)
    BY <1>s, SyncServed
  <1> SUFFICES ASSUME ~SyncStep(r), NEW q, q = request[r]
               PROVE  WellServed(r)
    BY <1>s
  <1>0. q # Idle /\ q.op = "oidc_callback"
    BY AtFacts DEF SerialInv, OidcStep
  <1>1. q \in LoginRequests /\ LoginProgress(q)
    BY <1>0, Served, InHandFacts DEF Progress
  <1>2. SameGroups /\ q.user \in UserIds /\ q.sync \in BOOLEAN /\ q.new \in BOOLEAN
    BY <1>1 DEF LoginProgress, LoginRequests
  (* A read that takes the login q on, as it is. *)
  <1>3. ASSUME NEW to \in LoginAts, Reads(r, [q EXCEPT !.at = to]),
               ASSUME NEW n, LoginAt(n, q, to) PROVE LoginProgress(n)
        PROVE  WellServed(r)
    <2>1. PICK n : n = [q EXCEPT !.at = to] /\ LoginAt(n, q, to)
      BY <1>1, LoginMoves
    <2>2. LoginProgress(n)
      BY <1>3, <2>1
    <2>3. QED
      BY <1>0, <1>3, <2>1, <2>2, LoginReads DEF LoginAt
  <1>4. CASE At(r, "oidc_callback", "start")
             /\ Reads(r, IF q.user \in users THEN [q EXCEPT !.at = "sync"]
                         ELSE [q EXCEPT !.at = "create", !.new = TRUE])
    <2>1. q.at = "start" /\ ~q.new /\ users = before.users /\ members = before.members
            /\ completed = before.completed
      BY <1>1, <1>4 DEF LoginProgress, At
    <2>2. CASE q.user \in users
      <3>1. ASSUME NEW n, LoginAt(n, q, "sync")
            PROVE  LoginProgress(n)
        BY <1>2, <2>1, <2>2, <3>1 DEF LoginProgress, LoginAt
      <3>2. QED
        BY <1>3, <1>4, <2>2, <3>1 DEF LoginAts
    <2>3. CASE q.user \notin users
      <3>1. PICK n : n = [q EXCEPT !.at = "create", !.new = TRUE]
        OBVIOUS
      <3>2. n \in InHand /\ n.at = "create" /\ n.op = q.op /\ n.by = q.by /\ n.user = q.user /\ n.new = TRUE
        <4>1. n \in LoginRequests
          BY <1>1, <3>1 DEF LoginRequests
        <4>2. QED
          BY <1>1, <3>1, <4>1 DEF LoginRequests, InHand
      <3>3. LoginProgress(n)
        BY <1>2, <2>1, <2>3, <3>2 DEF LoginProgress
      <3>4. QED
        BY <1>0, <1>4, <2>3, <3>1, <3>2, <3>3, LoginReads
    <2>4. QED
      BY <2>2, <2>3
  <1>5. CASE At(r, "oidc_callback", "create") /\ CreateRow(r, q.user, "sync")
    <2>1. PICK n : n = [q EXCEPT !.at = "sync"] /\ LoginAt(n, q, "sync")
      BY <1>1, LoginMoves DEF LoginAts
    <2>2. q.at = "create" /\ q.new /\ Same
      BY <1>1, <1>5 DEF LoginProgress, At, Same
    <2>3. SUFFICES ASSUME /\ users' = users \union {q.user} /\ q.user \notin users
                          /\ UNCHANGED <<before, groups, name, perms, members, admin, completed>>
                          /\ request' = [request EXCEPT ![r] = n]
                   PROVE  WellServed(r)
      BY <1>0, <1>5, <2>1, <2>2, RowServed DEF LoginAt
    <2>4. LoginProgress(n)'
      BY <2>1, <2>2, <2>3 DEF LoginProgress, LoginAt, Same, SameGroups
    <2>5. Progress(n)'
      BY <1>0, <2>1, <2>4 DEF Progress, LoginAt
    <2>6. QED
      BY <1>0, <2>1, <2>3, <2>5, GoesOn DEF LoginAt
  <1>6. CASE At(r, "oidc_callback", "initial")
             /\ Reads(r, [q EXCEPT !.at = IF completed THEN "count" ELSE "promote"])
    <2> DEFINE to == IF completed THEN "count" ELSE "promote"
    <2>1. /\ q.at = "initial" /\ q.new /\ q.user \notin before.users
          /\ users = before.users \union {q.user} /\ completed = before.completed
          /\ members = Synced(q) /\ (q.sync => admin # NoGroup)
      BY <1>1, <1>6 DEF LoginProgress, At
    <2>2. ASSUME NEW n, LoginAt(n, q, to)
          PROVE  LoginProgress(n)
      BY <1>2, <2>1, <2>2 DEF LoginProgress, LoginAt, Synced, D!InitialUser
    <2>3. QED
      BY <1>3, <1>6, <2>2 DEF LoginAts
  <1>7. CASE At(r, "oidc_callback", "count")
             /\ Reads(r, [q EXCEPT !.at = IF Cardinality(users) = 1 THEN "promote" ELSE "answer"])
    <2> DEFINE to == IF Cardinality(users) = 1 THEN "promote" ELSE "answer"
    <2>1. /\ q.at = "count" /\ q.new /\ q.user \notin before.users
          /\ users = before.users \union {q.user} /\ completed = before.completed
          /\ members = Synced(q) /\ (q.sync => admin # NoGroup) /\ before.completed
      BY <1>1, <1>7 DEF LoginProgress, At
    <2>2. to = IF D!InitialUser THEN "promote" ELSE "answer"
      BY <2>1, OneUser DEF D!InitialUser
    <2> HIDE DEF to
    <2>3. ASSUME NEW n, LoginAt(n, q, to)
          PROVE  LoginProgress(n)
      BY <1>2, <2>1, <2>2, <2>3 DEF LoginProgress, LoginAt, Synced
    <2>4. QED
      BY <1>3, <1>7, <2>2, <2>3 DEF LoginAts, to
  <1>8. CASE At(r, "oidc_callback", "promote") /\ admin = NoGroup /\ Fails(r)
    BY <1>8, LoginFails
  <1>9. CASE /\ At(r, "oidc_callback", "promote") /\ admin # NoGroup
             /\ Reads(r, [q EXCEPT !.at = IF q.user \in members[admin] THEN "mark" ELSE "join"])
    <2> DEFINE to == IF q.user \in members[admin] THEN "mark" ELSE "join"
    <2>1. /\ q.at = "promote" /\ q.new /\ q.user \notin before.users
          /\ users = before.users \union {q.user} /\ completed = before.completed
          /\ members = Synced(q) /\ D!InitialUser
      BY <1>1, <1>9 DEF LoginProgress, At
    <2>2. q.user \in members[admin] => members = Promoted(q)
      BY <1>9, <2>1, PromotedMembers
    <2>3. ASSUME NEW n, LoginAt(n, q, to)
          PROVE  LoginProgress(n)
      BY <1>2, <1>9, <2>1, <2>2, <2>3 DEF LoginProgress, LoginAt, Synced, Promoted
    <2>4. QED
      BY <1>3, <1>9, <2>3 DEF LoginAts
  <1>10. CASE At(r, "oidc_callback", "join") /\ Join(r, q.user)
    <2>1. PICK n : n = [q EXCEPT !.at = "mark"] /\ LoginAt(n, q, "mark")
      BY <1>1, LoginMoves DEF LoginAts
    <2>2. /\ q.at = "join" /\ q.new /\ q.user \notin before.users /\ admin # NoGroup
          /\ users = before.users \union {q.user} /\ completed = before.completed
          /\ members = Synced(q) /\ D!InitialUser /\ q.user \notin members[admin]
      BY <1>1, <1>10 DEF LoginProgress, At
    <2>3. /\ Inserts(r, TRUE, {admin}, {q.user}, "mark")
          /\ {admin} \in SUBSET groups /\ q.user \in users
          /\ \A g \in {admin} : q.user \notin members[g]
      BY <1>2, <1>10, <2>2, BeforeFacts DEF Join, SetupPath, SameGroups
    <2>4. /\ members' = WithMembers({admin}, {q.user}) /\ Goes(r, "mark")
          /\ UNCHANGED <<before, users, groups, name, perms, admin, completed>>
      BY <1>0, <2>1, <2>3, MembershipsServed DEF LoginAt
    <2>5. members' = Promoted(n)
      <3>1. Promoted(n) = Promoted(q)
        BY <2>1 DEF Promoted, LoginAt
      <3>2. QED
        BY <2>2, <2>4, <3>1, PromotedMembers
    <2>6. LoginProgress(n)'
      BY <1>2, <2>1, <2>2, <2>4, <2>5, SyncedStays, PromotedStays DEF LoginProgress, LoginAt,
         SameGroups
    <2>7. Progress(n)'
      BY <1>0, <2>1, <2>6 DEF Progress, LoginAt
    <2>8. QED
      BY <1>0, <2>1, <2>4, <2>7, GoesOn DEF LoginAt, Goes
  <1>11. CASE At(r, "oidc_callback", "mark") /\ MarkCompleted(r)
    <2>1. PICK n : n = [q EXCEPT !.at = "answer"] /\ LoginAt(n, q, "answer")
      BY <1>1, LoginMoves DEF LoginAts
    <2>2. /\ q.at = "mark" /\ q.new /\ q.user \notin before.users /\ admin # NoGroup
          /\ users = before.users \union {q.user} /\ members = Promoted(n) /\ D!InitialUser
      BY <1>1, <1>11, <2>1 DEF LoginProgress, At, Promoted, LoginAt
    <2>3. /\ request' = [request EXCEPT ![r] = n] /\ completed' = TRUE
          /\ UNCHANGED <<users, groups, name, perms, members, admin>>
      BY <1>11, <2>1 DEF MarkCompleted, SetupPath, Goes, tables
    <2>4. before' = before => LoginProgress(n)'
      BY <1>2, <2>1, <2>2, <2>3, SyncedStays, PromotedStays DEF LoginProgress, LoginAt, SameGroups
    <2>5. before' = before => Progress(n)'
      BY <1>0, <2>1, <2>4 DEF Progress, LoginAt
    <2>6. QED
      BY <1>0, <2>1, <2>3, <2>5, GoesOn DEF LoginAt
  <1>12. QED
    BY <1>4, <1>5, <1>6, <1>7, <1>8, <1>9, <1>10, <1>11 DEF OidcStep, SetupPath

(* The end of a login is one of the four logins of Directory. *)
LEMMA LoginAnswered ==
    ASSUME SerialInv, Follows, UNCHANGED <<boot, skipping>>, NEW r \in Requests, Reply(r),
           request[r].op = "oidc_callback"
    PROVE  WellServed(r)
  <1> SUFFICES ASSUME NEW q, q = request[r]
               PROVE  WellServed(r)
    OBVIOUS
  <1> DEFINE u == q.user
  <1>1. q # Idle /\ q.at = "answer"
    BY DEF Reply, Idle
  <1>2. q \in LoginRequests /\ LoginProgress(q) /\ Running
    BY <1>1, Served, InHandFacts DEF Progress
  <1>3. u \in UserIds /\ q.by = Nobody /\ q.names \in SUBSET Names /\ q.sync \in BOOLEAN /\ q.new \in BOOLEAN
    BY <1>2 DEF LoginRequests
  <1>4. /\ sent' \in UpdatesOf(q) /\ response' = Ok(Nobody) /\ request' = [request EXCEPT ![r] = Idle]
        /\ UNCHANGED <<users, groups, name, perms, members, admin, completed>>
    BY <1>3 DEF Reply, Ends, Answer, tables, setup
  <1>5. /\ SameGroups /\ users = before.users \union {u} /\ (q.new <=> u \notin before.users)
        /\ q.sync => admin # NoGroup
        /\ IF q.new /\ D!InitialUser
           THEN admin # NoGroup /\ members = Promoted(q) /\ completed = TRUE
           ELSE members = Synced(q) /\ completed = before.completed
    BY <1>1, <1>2 DEF LoginProgress
  <1>6. IsFiniteSet(users)
    BY <1>5, FinitelyMany
  <1>7. response' # Silent
    BY <1>4 DEF Ok, Silent
  <1>8. D!Running /\ D!Ok(Nobody) = Ok(Nobody) /\ D!SyncMessages(u) = SyncMessages(u)
    BY <1>2 DEF D!Running, Running, D!Ok, Ok, D!SyncMessages, SyncMessages, D!Update, Update
  <1>9. sent' \in IF q.sync THEN {SyncMessages(u)} ELSE IF q.new THEN {{}} ELSE {{}, {Update(u, "user", u)}}
    BY <1>2, <1>4 DEF UpdatesOf, LoginRequests
  <1>10. SUFFICES ASSUME before' = Now'
                  PROVE  D!Next
    BY <1>1, <1>4, <1>6, <1>7, Answers
  <1>11. CASE ~q.new /\ q.sync
    <2>1. D!OidcLoginSync(u, q.names)
      BY <1>4, <1>5, <1>8, <1>9, <1>10, <1>11, NowFacts DEF SameGroups, Synced, D!OidcLoginSync,
         D!setup
    <2>2. QED
      BY <1>3, <2>1, LoginsAreSteps
  <1>12. CASE ~q.new /\ ~q.sync
    <2>1. sent' \in {{}, {D!Update(u, "user", u)}}
      BY <1>9, <1>12 DEF Update, D!Update
    <2>2. D!OidcLoginPlain(u)
      BY <1>4, <1>5, <1>8, <1>10, <1>12, <2>1, NowFacts DEF SameGroups, Synced, D!OidcLoginPlain,
         D!setup, D!tables
    <2>3. QED
      BY <1>3, <2>2, LoginsAreSteps
  <1>13. CASE q.new /\ admin # NoGroup
    <2> DEFINE synced == IF q.sync THEN D!SyncedGroups(u, q.names) ELSE {}
               more == IF D!InitialUser THEN {admin} ELSE {}
    <2>1. members = D!WithGroups(u, synced \union more)
      <3>1. CASE D!InitialUser
        BY <1>5, <1>13, <3>1 DEF Promoted
      <3>2. CASE ~D!InitialUser
        <4>1. members = D!WithGroups(u, synced) /\ synced \union more = synced
          BY <1>5, <1>13, <3>2, StrangersMembers DEF Synced
        <4>2. QED
          BY <4>1
      <3>3. QED
        BY <3>1, <3>2
    <2>2. completed = (before.completed \/ D!InitialUser)
      BY <1>5, <1>13, BeforeFacts DEF D!InitialUser
    <2>3. sent' = IF q.sync THEN D!SyncMessages(u) ELSE {}
      BY <1>8, <1>9, <1>13
    <2>4. D!OidcLoginCreate(u, q.names, q.sync)
      BY <1>4, <1>5, <1>8, <1>10, <1>13, <2>1, <2>2, <2>3, NowFacts DEF SameGroups,
         D!OidcLoginCreate
    <2>5. QED
      BY <1>3, <2>4, LoginsAreSteps
  <1>14. CASE q.new /\ admin = NoGroup
    <2>1. D!OidcLoginCreateEarly(u)
      BY <1>4, <1>5, <1>8, <1>9, <1>10, <1>14, NowFacts DEF SameGroups, Synced,
         D!OidcLoginCreateEarly, D!setup
    <2>2. QED
      BY <1>3, <2>1, LoginsAreSteps
  <1>15. QED
    BY <1>11, <1>12, <1>13, <1>14

-----------------------------------------------------------------------------
(* Requests about users. *)

(* Who sent the request may, as Directory says it. *)
LEMMA AllowedFacts ==
    ASSUME SerialInv, NEW r \in Requests, request[r] # Idle, request[r].by \in UserIds
    PROVE  D!Authorized(request[r].by, Needs(request[r].op))
  BY Served, ConstantsOK DEF Allowed

(* create_user ends as CreateUser, or refused. *)
LEMMA CreateUserServed ==
    ASSUME SerialInv, Follows, UNCHANGED <<boot, skipping>>, NEW r \in Requests,
           CreateUserStep(r) \/ (Reply(r) /\ request[r].op = "create_user")
    PROVE  WellServed(r)
  <1> SUFFICES ASSUME NEW q, q = request[r]
               PROVE  WellServed(r)
    OBVIOUS
  <1>0. q # Idle /\ q.op = "create_user"
    <2>1. CreateUserStep(r) => q.op = "create_user"
      BY DEF CreateUserStep, At
    <2>2. QED
      BY <2>1 DEF Idle
  <1>1. q \in CreateUserRequests /\ CreateUserProgress(q)
    BY <1>0, Served, InHandFacts DEF Progress
  <1>2. q.user \in UserIds /\ q.by \in UserIds /\ q.mailed \in BOOLEAN
    BY <1>1 DEF CreateUserRequests
  <1>3. D!Authorized(q.by, UserEdit)
    BY <1>0, <1>2, AllowedFacts DEF Needs
  <1>4. ASSUME NEW to \in {"insert", "mail", "answer"}
        PROVE  \E n \in InHand : /\ n = [q EXCEPT !.at = to] /\ n.at = to /\ n.op = q.op /\ n.by = q.by
                                 /\ n.user = q.user /\ n.mailed = q.mailed
    <2>1. [q EXCEPT !.at = to] \in CreateUserRequests
      BY <1>1 DEF CreateUserRequests
    <2>2. QED
      BY <1>1, <2>1 DEF CreateUserRequests, InHand
  (* The row is there: the request ends well or not, as the mail has gone. *)
  <1>5. ASSUME NEW mailed \in BOOLEAN, sent' = IF mailed THEN Broadcast("user", q.user) ELSE {},
               response' = IF mailed THEN Ok(q.by) ELSE Error(q.by), Ends(r),
               UNCHANGED <<tables, setup>>, q.at \in {"mail", "answer"}
        PROVE  WellServed(r)
    <2>1. /\ q.user \notin before.users /\ users = before.users \union {q.user}
          /\ SameGroups /\ members = before.members /\ completed = before.completed
      BY <1>1, <1>5 DEF CreateUserProgress
    <2>2. IsFiniteSet(users)
      BY <2>1, FinitelyMany
    <2>3. before' = Now' => D!CreateUser(q.by, q.user, mailed)
      BY <1>3, <1>5, <2>1, NowFacts DEF D!CreateUser, D!Answer, D!Ok, D!Error, Ok, Error,
         D!Broadcast,
         D!Update, Broadcast, Update, SameGroups, tables, setup, D!setup
    <2>4. response' # Silent
      BY <1>5 DEF Ok, Error, Silent
    <2>5. [ids |-> {}, repeats |-> FALSE] \in GroupLists
      BY DEF GroupLists, Lists
    <2>6. before' = Now' => D!Next
      BY <1>2, <1>3, <2>3, <2>5, UserRequestsAreSteps
    <2>7. QED
      BY <1>0, <1>5, <2>2, <2>4, <2>6, Answers DEF Ends, tables, setup
  <1>6. CASE At(r, "create_user", "start") /\ Checks(r, q.user \notin users, "insert")
    <2> PICK n \in InHand : /\ n = [q EXCEPT !.at = "insert"] /\ n.at = "insert" /\ n.op = q.op
                            /\ n.by = q.by /\ n.user = q.user
      BY <1>4
    <2>1. Same /\ Progress(n)
      BY <1>0, <1>1, <1>6 DEF CreateUserProgress, Progress, At
    <2>2. QED
      BY <1>0, <1>6, <2>1, ChecksServed
  <1>7. CASE At(r, "create_user", "insert") /\ CreateRow(r, q.user, "mail")
    <2> PICK n \in InHand : /\ n = [q EXCEPT !.at = "mail"] /\ n.at = "mail" /\ n.op = q.op
                            /\ n.by = q.by /\ n.user = q.user
      BY <1>4
    <2>1. Same
      BY <1>1, <1>7 DEF CreateUserProgress, At
    <2>2. SUFFICES ASSUME /\ users' = users \union {q.user} /\ q.user \notin users
                          /\ UNCHANGED <<before, groups, name, perms, members, admin, completed>>
                          /\ request' = [request EXCEPT ![r] = n]
                   PROVE  WellServed(r)
      BY <1>0, <1>7, <2>1, RowServed
    <2>3. Progress(n)'
      BY <1>0, <2>1, <2>2 DEF CreateUserProgress, Same, SameGroups, Progress
    <2>4. QED
      BY <1>0, <2>2, <2>3, GoesOn
  <1>8. CASE At(r, "create_user", "mail") /\ q.mailed /\ Checks(r, TRUE, "answer")
    <2> PICK n \in InHand : /\ n = [q EXCEPT !.at = "answer"] /\ n.at = "answer" /\ n.op = q.op
                            /\ n.by = q.by /\ n.user = q.user /\ n.mailed = q.mailed
      BY <1>4
    <2>1. Progress(n)
      BY <1>0, <1>1, <1>8 DEF CreateUserProgress, Progress, At
    <2>2. QED
      BY <1>0, <1>8, <2>1, ChecksServed
  <1>9. CASE At(r, "create_user", "mail") /\ Fails(r)
    BY <1>5, <1>9 DEF Fails, At
  <1>10. CASE Reply(r)
    <2>1. UpdatesOf(q) = {Broadcast("user", q.user)}
      BY <1>0 DEF UpdatesOf
    <2>2. QED
      BY <1>5, <1>10, <2>1 DEF Reply, Answer
  <1>11. QED
    BY <1>6, <1>7, <1>8, <1>9, <1>10 DEF CreateUserStep

(* delete_user ends as DeleteUser, or refused. *)
LEMMA DeleteUserServed ==
    ASSUME SerialInv, Follows, UNCHANGED <<boot, skipping>>, NEW r \in Requests,
           DeleteUserStep(r) \/ (Reply(r) /\ request[r].op = "delete_user")
    PROVE  WellServed(r)
  <1> SUFFICES ASSUME NEW q, q = request[r]
               PROVE  WellServed(r)
    OBVIOUS
  <1>0. q # Idle /\ q.op = "delete_user"
    <2>1. DeleteUserStep(r) => q.op = "delete_user"
      BY DEF DeleteUserStep, At
    <2>2. QED
      BY <2>1 DEF Idle
  <1>1. q \in DeleteUserRequests /\ DeleteUserProgress(q)
    BY <1>0, Served, InHandFacts DEF Progress
  <1>2. q.user \in UserIds /\ q.by \in UserIds
    BY <1>1 DEF DeleteUserRequests
  <1>3. D!Authorized(q.by, UserEdit)
    BY <1>0, <1>2, AllowedFacts DEF Needs
  <1>4. ASSUME NEW to \in {"target", "sender", "delete", "answer"}
        PROVE  \E n \in InHand : /\ n = [q EXCEPT !.at = to] /\ n.at = to /\ n.op = q.op /\ n.by = q.by
                                 /\ n.user = q.user
    <2>1. [q EXCEPT !.at = to] \in DeleteUserRequests
      BY <1>1 DEF DeleteUserRequests
    <2>2. QED
      BY <1>1, <2>1 DEF DeleteUserRequests, InHand
  <1>5. CASE At(r, "delete_user", "start") /\ Checks(r, admin # NoGroup /\ ~IsLastAdmin(q.user), "target")
    <2> PICK n \in InHand : /\ n = [q EXCEPT !.at = "target"] /\ n.at = "target" /\ n.op = q.op
                            /\ n.by = q.by /\ n.user = q.user
      BY <1>4
    <2>1. Same
      BY <1>1, <1>5 DEF DeleteUserProgress, At
    <2>2. admin # NoGroup /\ ~IsLastAdmin(q.user) => Progress(n)
      BY <1>0, <2>1 DEF DeleteUserProgress, Progress, Same, IsLastAdmin, D!IsLastAdmin
    <2>3. QED
      BY <1>0, <1>5, <2>1, <2>2, ChecksServed
  <1>6. CASE At(r, "delete_user", "target")
             /\ Checks(r, TRUE, IF InAdminGroup(q.user) THEN "sender" ELSE "delete")
    <2> DEFINE to == IF InAdminGroup(q.user) THEN "sender" ELSE "delete"
    <2> PICK n \in InHand : /\ n = [q EXCEPT !.at = to] /\ n.at = to /\ n.op = q.op
                            /\ n.by = q.by /\ n.user = q.user
      BY <1>4
    <2>1. Progress(n)
      BY <1>0, <1>1, <1>6 DEF DeleteUserProgress, Progress, At, Same, InAdminGroup, D!InAdminGroup
    <2>2. QED
      BY <1>0, <1>6, <2>1, ChecksServed
  <1>7. CASE At(r, "delete_user", "sender") /\ Checks(r, InAdminGroup(q.by), "delete")
    <2> PICK n \in InHand : /\ n = [q EXCEPT !.at = "delete"] /\ n.at = "delete" /\ n.op = q.op
                            /\ n.by = q.by /\ n.user = q.user
      BY <1>4
    <2>1. Same /\ admin # NoGroup /\ ~D!IsLastAdmin(q.user)
      BY <1>1, <1>7 DEF DeleteUserProgress, At
    <2>2. InAdminGroup(q.by) => Progress(n)
      BY <1>0, <2>1 DEF DeleteUserProgress, Progress, Same, InAdminGroup, D!InAdminGroup
    <2>3. QED
      BY <1>0, <1>7, <2>1, <2>2, ChecksServed
  <1>8. CASE /\ At(r, "delete_user", "delete") /\ users' = users \ {q.user}
             /\ members' = WithGroups(q.user, {}) /\ Goes(r, "answer")
             /\ UNCHANGED <<groups, name, perms, setup>>
    <2> PICK n \in InHand : /\ n = [q EXCEPT !.at = "answer"] /\ n.at = "answer" /\ n.op = q.op
                            /\ n.by = q.by /\ n.user = q.user
      BY <1>4
    <2>2. /\ Same /\ admin # NoGroup /\ ~D!IsLastAdmin(q.user)
          /\ D!InAdminGroup(q.user) => D!InAdminGroup(q.by)
      BY <1>1, <1>8 DEF DeleteUserProgress, At
    <2>3. members' = D!WithGroups(q.user, {})
      BY <1>8, <2>2 DEF WithGroups, D!WithGroups, Same
    <2>4. before' = before => DeleteUserProgress(n)'
      BY <1>8, <2>2, <2>3, SyncedStays DEF DeleteUserProgress, Same, SameGroups, setup
    <2>5. before' = before => Progress(n)'
      BY <1>0, <2>4 DEF Progress
    <2>6. QED
      BY <1>0, <1>8, <2>5, GoesOn DEF Goes, setup
  <1>9. CASE Reply(r)
    <2>1. /\ sent' = Broadcast("user", q.user) /\ response' = Ok(q.by)
          /\ UNCHANGED <<users, groups, name, perms, members, admin, completed>>
          /\ request' = [request EXCEPT ![r] = Idle] /\ q.at = "answer"
      BY <1>0, <1>9 DEF Reply, UpdatesOf, Answer, Ends, tables, setup
    <2>2. /\ admin # NoGroup /\ ~D!IsLastAdmin(q.user)
          /\ D!InAdminGroup(q.user) => D!InAdminGroup(q.by)
          /\ users = before.users \ {q.user} /\ members = D!WithGroups(q.user, {})
          /\ SameGroups /\ completed = before.completed
      BY <1>1, <2>1 DEF DeleteUserProgress
    <2>3. before' = Now' => D!DeleteUser(q.by, q.user)
      BY <1>3, <2>1, <2>2, NowFacts DEF D!DeleteUser, D!Answer, D!Ok, Ok, D!Broadcast, D!Update,
         Broadcast, Update, SameGroups, D!setup
    <2>4. [ids |-> {}, repeats |-> FALSE] \in GroupLists
      BY DEF GroupLists, Lists
    <2>5. before' = Now' => D!Next
      BY <1>2, <1>3, <2>3, <2>4, UserRequestsAreSteps
    <2>6. IsFiniteSet(users) /\ response' # Silent
      BY <2>1, <2>2, FinitelyMany DEF Ok, Silent
    <2>7. QED
      BY <1>0, <2>1, <2>5, <2>6, Answers
  <1>10. QED
    BY <1>5, <1>6, <1>7, <1>8, <1>9 DEF DeleteUserStep

(* Where edit_user is once it has read what its sender may do. *)
EditUserAts == {"groups", "target", "last", "row", "clear", "insert", "answer"}

(* edit_user ends as EditUser, with the answer or with the error that      *)
(* leaves the user without groups, or refused.                             *)
LEMMA EditUserServed ==
    ASSUME SerialInv, Follows, UNCHANGED <<boot, skipping>>, NEW r \in Requests,
           EditUserStep(r) \/ (Reply(r) /\ request[r].op = "edit_user")
    PROVE  WellServed(r)
  <1> SUFFICES ASSUME NEW q, q = request[r]
               PROVE  WellServed(r)
    OBVIOUS
  <1>0. q # Idle /\ q.op = "edit_user"
    <2>1. EditUserStep(r) => q.op = "edit_user"
      BY Zenon DEF EditUserStep, At
    <2>2. QED
      BY <2>1 DEF Idle
  <1>1. q \in EditUserRequests /\ EditUserProgress(q)
    BY <1>0, Served, InHandFacts DEF Progress
  <1>2. q.user \in UserIds /\ q.by \in UserIds /\ q.gs \in GroupLists
    BY <1>1 DEF EditUserRequests
  <1>3. D!Authorized(q.by, UserEdit)
    BY <1>0, <1>2, AllowedFacts DEF Needs
  <1>4. ASSUME NEW to \in EditUserAts
        PROVE  \E n \in InHand : /\ n = [q EXCEPT !.at = to] /\ n.at = to /\ n.op = q.op /\ n.by = q.by
                                 /\ n.user = q.user /\ n.gs = q.gs /\ n.had = q.had
    <2>1. [q EXCEPT !.at = to] \in EditUserRequests
      BY <1>1 DEF EditUserRequests, EditUserAts
    <2>2. QED
      BY <1>1, <2>1 DEF EditUserRequests, InHand
  (* Until the old groups are cleared the handler reads. *)
  <1>5. ASSUME NEW holds, NEW to \in EditUserAts, Checks(r, holds, to), Same,
               ASSUME NEW n, n.at = to, n.op = q.op, n.by = q.by, n.user = q.user, n.gs = q.gs,
                      n.had = q.had, holds
               PROVE  EditUserProgress(n)
        PROVE  WellServed(r)
    <2> PICK n \in InHand : /\ n = [q EXCEPT !.at = to] /\ n.at = to /\ n.op = q.op /\ n.by = q.by
                            /\ n.user = q.user /\ n.gs = q.gs /\ n.had = q.had
      BY <1>4
    <2>1. holds => Progress(n)
      BY <1>0, <1>5 DEF Progress
    <2>2. QED
      BY <1>0, <1>5, <2>1, ChecksServed
  <1>6. CASE At(r, "edit_user", "start") /\ Reads(r, [q EXCEPT !.at = "groups", !.had = PermissionsOf(q.by)])
    <2>1. PICK n : n = [q EXCEPT !.at = "groups", !.had = PermissionsOf(q.by)]
      OBVIOUS
    <2>2. PermissionsOf(q.by) \in SUBSET Perms
      BY DEF PermissionsOf
    <2>3. /\ n \in InHand /\ n.at = "groups" /\ n.op = q.op /\ n.by = q.by /\ n.had = PermissionsOf(q.by)
      <3>1. n \in EditUserRequests
        BY <1>1, <2>1, <2>2 DEF EditUserRequests
      <3>2. QED
        BY <1>1, <2>1, <3>1 DEF EditUserRequests, InHand
    <2>4. Same
      BY <1>1, <1>6 DEF EditUserProgress, At
    <2>5. PermissionsOf(q.by) = D!PermissionsOf(q.by)
      BY <2>4 DEF Same, SameGroups, PermissionsOf, D!PermissionsOf, HasPermission, D!HasPermission
    <2>6. Progress(n)
      BY <1>0, <2>3, <2>4, <2>5 DEF EditUserProgress, Progress
    <2>7. QED
      BY <1>0, <1>6, <2>1, <2>3, <2>6, ReadsServed
  <1>7. CASE At(r, "edit_user", "groups")
             /\ Checks(r, \A g \in q.gs.ids \intersect groups : perms[g] \subseteq q.had, "target")
    <2>1. Same /\ q.had = D!PermissionsOf(q.by)
      BY <1>1, <1>7 DEF EditUserProgress, At
    <2>2. (\A g \in q.gs.ids \intersect groups : perms[g] \subseteq q.had) => D!Grantable(q.by, q.gs.ids)
      BY <2>1 DEF Same, SameGroups, D!Grantable
    <2>3. QED
      BY <1>5, <1>7, <2>1, <2>2 DEF EditUserProgress, EditUserAts
  <1>8. CASE At(r, "edit_user", "target") /\ Checks(r, PermissionsOf(q.user) \subseteq q.had, "last")
    <2>1. Same /\ q.had = D!PermissionsOf(q.by) /\ D!Grantable(q.by, q.gs.ids)
      BY <1>1, <1>8 DEF EditUserProgress, At
    <2>2. PermissionsOf(q.user) = D!PermissionsOf(q.user)
      BY <2>1 DEF Same, SameGroups, PermissionsOf, D!PermissionsOf, HasPermission, D!HasPermission
    <2>3. QED
      BY <1>5, <1>8, <2>1, <2>2 DEF EditUserProgress, EditUserAts
  <1>9. CASE At(r, "edit_user", "last")
             /\ Checks(r, admin # NoGroup /\ (admin \in q.gs.ids \/ ~IsLastAdmin(q.user)), "row")
    <2>1. /\ Same /\ q.had = D!PermissionsOf(q.by) /\ D!Grantable(q.by, q.gs.ids)
          /\ D!PermissionsOf(q.user) \subseteq D!PermissionsOf(q.by)
      BY <1>1, <1>9 DEF EditUserProgress, At
    <2>2. IsLastAdmin(q.user) <=> D!IsLastAdmin(q.user)
      BY <2>1 DEF Same, IsLastAdmin, D!IsLastAdmin
    <2>3. QED
      BY <1>5, <1>9, <2>1, <2>2 DEF EditUserProgress, EditUserAts
  <1>10. CASE At(r, "edit_user", "row") /\ Checks(r, q.user \in users, "clear")
    <2>1. /\ Same /\ q.had = D!PermissionsOf(q.by) /\ D!Grantable(q.by, q.gs.ids)
          /\ D!PermissionsOf(q.user) \subseteq D!PermissionsOf(q.by)
          /\ admin # NoGroup /\ (admin \in q.gs.ids \/ ~D!IsLastAdmin(q.user))
      BY <1>1, <1>10 DEF EditUserProgress, At
    <2>2. QED
      BY <1>5, <1>10, <2>1 DEF EditUserProgress, EditUserAts, Same
  (* What the checks have found, once they are past. *)
  <1>11. ASSUME q.at \in {"clear", "insert", "answer"}
         PROVE  /\ q.had = D!PermissionsOf(q.by) /\ D!Grantable(q.by, q.gs.ids)
                /\ D!PermissionsOf(q.user) \subseteq D!PermissionsOf(q.by)
                /\ admin # NoGroup /\ (admin \in q.gs.ids \/ ~D!IsLastAdmin(q.user))
                /\ q.user \in before.users
    BY <1>1, <1>11 DEF EditUserProgress
  <1>12. CASE /\ At(r, "edit_user", "clear") /\ members' = WithGroups(q.user, {}) /\ Goes(r, "insert")
              /\ UNCHANGED <<users, groups, name, perms, setup>>
    <2> PICK n \in InHand : /\ n = [q EXCEPT !.at = "insert"] /\ n.at = "insert" /\ n.op = q.op
                            /\ n.by = q.by /\ n.user = q.user /\ n.gs = q.gs /\ n.had = q.had
      BY <1>4 DEF EditUserAts
    <2>1. Same /\ q.at = "clear"
      BY <1>1, <1>12 DEF EditUserProgress, At
    <2>2. members' = D!WithGroups(q.user, {})
      BY <1>12, <2>1 DEF WithGroups, D!WithGroups, Same
    <2>3. before' = before => EditUserProgress(n)'
      BY <1>11, <1>12, <2>1, <2>2, SyncedStays DEF EditUserProgress, Same, SameGroups, setup
    <2>4. before' = before => Progress(n)'
      BY <1>0, <2>3 DEF Progress
    <2>5. QED
      BY <1>0, <1>12, <2>4, GoesOn DEF Goes, setup
  (* The request ends, with its groups inserted or not. *)
  <1>13. ASSUME NEW ids, ids = IF Insertable(q.gs, before.groups) THEN q.gs.ids ELSE {},
                members = D!WithGroups(q.user, ids), q.at \in {"insert", "answer"},
                sent' = IF Insertable(q.gs, before.groups) THEN Broadcast("user", q.user) ELSE {},
                response' = IF Insertable(q.gs, before.groups) THEN Ok(q.by) ELSE Error(q.by),
                Ends(r), UNCHANGED <<tables, setup>>
         PROVE  WellServed(r)
    <2>1. SameGroups /\ users = before.users /\ completed = before.completed
      BY <1>1, <1>13 DEF EditUserProgress
    <2>2. before' = Now' => D!EditUser(q.by, q.user, q.gs)
      BY <1>3, <1>11, <1>13, <2>1, NowFacts DEF D!EditUser, D!Insertable, Insertable, D!Answer,
         D!Ok, D!Error, Ok,
         Error, D!Broadcast, D!Update, Broadcast, Update, SameGroups, tables, setup, D!setup
    <2>3. before' = Now' => D!Next
      BY <1>2, <1>3, <2>2, UserRequestsAreSteps
    <2>4. IsFiniteSet(users)
      BY <2>1, FinitelyMany
    <2>5. response' # Silent
      BY <1>13 DEF Ok, Error, Silent
    <2>6. QED
      BY <1>0, <1>13, <2>3, <2>4, <2>5, Answers DEF Ends, tables, setup
  <1>14. CASE At(r, "edit_user", "insert") /\ Inserts(r, ~q.gs.repeats, q.gs.ids, {q.user}, "answer")
    <2>1. /\ SameGroups /\ users = before.users /\ completed = before.completed
          /\ members = D!WithGroups(q.user, {}) /\ q.at = "insert"
      BY <1>1, <1>14 DEF EditUserProgress, At
    <2>2. q.gs.ids \in SUBSET GroupIds /\ q.gs.repeats \in BOOLEAN /\ (q.gs.repeats => q.gs.ids # {})
      BY <1>2 DEF GroupLists, Lists
    <2>3. \A g \in q.gs.ids : q.user \notin members[g]
      BY <2>1, <2>2, BeforeFacts DEF D!WithGroups
    <2>4. (q.gs.ids = {} \/ (~q.gs.repeats /\ Fits(q.gs.ids, {q.user}))) <=> Insertable(q.gs, before.groups)
      BY <1>11, <2>1, <2>2, <2>3 DEF Fits, Insertable, SameGroups
    <2>5. CASE Fails(r) /\ ~Insertable(q.gs, before.groups)
      BY <1>13, <2>1, <2>5 DEF Fails
    <2>6. CASE /\ Insertable(q.gs, before.groups) /\ members' = WithMembers(q.gs.ids, {q.user})
               /\ Goes(r, "answer") /\ UNCHANGED <<users, groups, name, perms, setup>>
      <3> PICK n \in InHand : /\ n = [q EXCEPT !.at = "answer"] /\ n.at = "answer" /\ n.op = q.op
                              /\ n.by = q.by /\ n.user = q.user /\ n.gs = q.gs /\ n.had = q.had
        BY <1>4 DEF EditUserAts
      <3>1. {} \union q.gs.ids = q.gs.ids
        OBVIOUS
      <3>2. members' = D!WithGroups(q.user, q.gs.ids)
        BY <2>1, <2>6, <3>1, RewrittenMembers
      <3>3. before' = before => EditUserProgress(n)'
        BY <1>11, <2>1, <2>6, <3>2, SyncedStays DEF EditUserProgress, SameGroups, setup
      <3>4. before' = before => Progress(n)'
        BY <1>0, <3>3 DEF Progress
      <3>5. QED
        BY <1>0, <2>6, <3>4, GoesOn DEF Goes, setup
    <2>7. QED
      BY <1>14, <2>4, <2>5, <2>6 DEF Inserts
  <1>15. CASE Reply(r)
    <2>1. q.at = "answer" /\ UpdatesOf(q) = {Broadcast("user", q.user)}
      BY <1>0, <1>15 DEF Reply, UpdatesOf
    <2>2. Insertable(q.gs, before.groups) /\ members = D!WithGroups(q.user, q.gs.ids)
      BY <1>1, <2>1 DEF EditUserProgress
    <2>3. QED
      BY <1>13, <1>15, <2>1, <2>2 DEF Reply, Answer
  <1>16. QED
    BY <1>6, <1>7, <1>8, <1>9, <1>10, <1>12, <1>14, <1>15 DEF EditUserStep

-----------------------------------------------------------------------------
(* Requests about groups. *)

(* create_group ends as CreateGroup, or refused. *)
LEMMA CreateGroupServed ==
    ASSUME SerialInv, Follows, UNCHANGED <<boot, skipping>>, NEW r \in Requests,
           CreateGroupStep(r) \/ (Reply(r) /\ request[r].op = "create_group")
    PROVE  WellServed(r)
  <1> SUFFICES ASSUME NEW q, q = request[r]
               PROVE  WellServed(r)
    OBVIOUS
  <1>0. q # Idle /\ q.op = "create_group"
    <2>1. CreateGroupStep(r) => q.op = "create_group"
      BY DEF CreateGroupStep, At
    <2>2. QED
      BY <2>1 DEF Idle
  <1>1. q \in CreateGroupRequests /\ CreateGroupProgress(q)
    BY <1>0, Served, InHandFacts DEF Progress
  <1>2. q.by \in UserIds /\ q.name \in Names
    BY <1>1 DEF CreateGroupRequests
  <1>3. D!Authorized(q.by, GroupEdit)
    BY <1>0, <1>2, AllowedFacts DEF Needs
  <1>4. CASE At(r, "create_group", "start") /\ Checks(r, ~NameTaken(q.name), "insert")
    <2>1. PICK n : n = [q EXCEPT !.at = "insert"]
      OBVIOUS
    <2>2. n \in InHand /\ n.at = "insert" /\ n.op = q.op /\ n.by = q.by /\ n.name = q.name
      <3>1. n \in CreateGroupRequests
        BY <1>1, <2>1 DEF CreateGroupRequests
      <3>2. QED
        BY <1>1, <2>1, <3>1 DEF CreateGroupRequests, InHand
    <2>3. Same
      BY <1>1, <1>4 DEF CreateGroupProgress, At
    <2>4. ~NameTaken(q.name) => Progress(n)
      BY <1>0, <2>2, <2>3 DEF CreateGroupProgress, Progress, Same, SameGroups, NameTaken,
         D!NameTaken
    <2>5. QED
      BY <1>0, <1>4, <2>1, <2>2, <2>3, <2>4, ChecksServed
  <1>5. CASE /\ At(r, "create_group", "insert")
             /\ \E g \in GroupIds \ groups :
                  /\ groups' = groups \union {g}
                  /\ name' = [name EXCEPT ![g] = q.name]
                  /\ request' = [request EXCEPT ![r].at = "answer", ![r].group = g]
             /\ Silently /\ UNCHANGED <<users, perms, members, setup>>
    <2>1. PICK g \in GroupIds \ groups :
            /\ groups' = groups \union {g}
            /\ name' = [name EXCEPT ![g] = q.name]
            /\ request' = [request EXCEPT ![r].at = "answer", ![r].group = g]
      BY <1>5
    <2>2. PICK n : n = [q EXCEPT !.at = "answer", !.group = g]
      OBVIOUS
    <2>3. n \in InHand /\ n.at = "answer" /\ n.op = q.op /\ n.by = q.by /\ n.name = q.name /\ n.group = g
      <3>1. n \in CreateGroupRequests
        BY <1>1, <2>2 DEF CreateGroupRequests
      <3>2. QED
        BY <1>1, <2>2, <3>1 DEF CreateGroupRequests, InHand
    <2>4. request' = [request EXCEPT ![r] = n]
      BY <2>1, <2>2 DEF SerialInv, HandlersInv
    <2>5. Same /\ ~D!NameTaken(q.name)
      BY <1>1, <1>5 DEF CreateGroupProgress, At
    <2>6. before' = before => CreateGroupProgress(n)'
      BY <1>5, <2>1, <2>3, <2>5, SyncedStays DEF CreateGroupProgress, Same, SameGroups, setup
    <2>7. before' = before => Progress(n)'
      BY <1>0, <2>3, <2>6 DEF Progress
    <2>8. QED
      BY <1>0, <1>5, <2>3, <2>4, <2>7, GoesOn DEF setup
  <1>6. CASE Reply(r)
    <2>1. /\ sent' = Broadcast("group", q.group) /\ response' = Ok(q.by)
          /\ UNCHANGED <<users, groups, name, perms, members, admin, completed>>
          /\ request' = [request EXCEPT ![r] = Idle] /\ q.at = "answer"
      BY <1>0, <1>6 DEF Reply, UpdatesOf, Answer, Ends, tables, setup
    <2>2. /\ q.group \in GroupIds /\ q.group \notin before.groups /\ ~D!NameTaken(q.name)
          /\ groups = before.groups \union {q.group}
          /\ name = [before.name EXCEPT ![q.group] = q.name]
          /\ users = before.users /\ perms = before.perms /\ members = before.members
          /\ completed = before.completed
      BY <1>1, <2>1 DEF CreateGroupProgress, CreateGroupRequests
    <2>3. before' = Now' => D!CreateGroup(q.by, q.group, q.name)
      BY <1>3, <2>1, <2>2, NowFacts DEF D!CreateGroup, D!Answer, D!Ok, Ok, D!Broadcast, D!Update,
         Broadcast, Update, D!setup
    <2>4. [ids |-> {}, repeats |-> FALSE] \in PermLists /\ [ids |-> {}, repeats |-> FALSE] \in UserLists
      BY DEF PermLists, UserLists, Lists
    <2>5. before' = Now' => D!Next
      BY <1>2, <1>3, <2>2, <2>3, <2>4, GroupRequestsAreSteps
    <2>6. IsFiniteSet(users) /\ response' # Silent
      BY <2>1, <2>2, FinitelyMany DEF Ok, Silent
    <2>7. QED
      BY <1>0, <2>1, <2>5, <2>6, Answers
  <1>7. QED
    BY <1>4, <1>5, <1>6 DEF CreateGroupStep

(* delete_group ends as DeleteGroup, or refused. *)
LEMMA DeleteGroupServed ==
    ASSUME SerialInv, Follows, UNCHANGED <<boot, skipping>>, NEW r \in Requests,
           DeleteGroupStep(r) \/ (Reply(r) /\ request[r].op = "delete_group")
    PROVE  WellServed(r)
  <1> SUFFICES ASSUME NEW q, q = request[r], NEW g, g = q.group
               PROVE  WellServed(r)
    OBVIOUS
  <1>0. q # Idle /\ q.op = "delete_group"
    <2>1. DeleteGroupStep(r) => q.op = "delete_group"
      BY Zenon DEF DeleteGroupStep, At
    <2>2. QED
      BY <2>1 DEF Idle
  <1>1. q \in DeleteGroupRequests /\ DeleteGroupProgress(q)
    BY <1>0, Served, InHandFacts DEF Progress
  <1>2. g \in GroupIds /\ q.by \in UserIds
    BY <1>1 DEF DeleteGroupRequests
  <1>3. D!Authorized(q.by, GroupEdit)
    BY <1>0, <1>2, AllowedFacts DEF Needs
  <1>6. CASE At(r, "delete_group", "start") /\ Checks(r, g # admin, "members")
    <2>1. PICK n : n = [q EXCEPT !.at = "members"]
      OBVIOUS
    <2>2. n \in InHand /\ n.at = "members" /\ n.op = q.op /\ n.by = q.by /\ n.group = g /\ n.were = q.were
      <3>1. n \in DeleteGroupRequests
        BY <1>1, <2>1 DEF DeleteGroupRequests
      <3>2. QED
        BY <1>1, <2>1, <3>1 DEF DeleteGroupRequests, InHand
    <2>3. Same
      BY <1>1, <1>6 DEF DeleteGroupProgress, At
    <2>4. g # admin => Progress(n)
      BY <1>0, <2>2, <2>3 DEF DeleteGroupProgress, Progress
    <2>5. QED
      BY <1>0, <1>6, <2>1, <2>2, <2>3, <2>4, ChecksServed
  <1>7. CASE At(r, "delete_group", "members") /\ Reads(r, [q EXCEPT !.at = "delete", !.were = members[g]])
    <2>1. members[g] \in SUBSET UserIds
      BY <1>2 DEF SerialInv, HandlersInv, DirectoryInv, TypeOK
    <2>2. PICK n : n = [q EXCEPT !.at = "delete", !.were = members[g]]
      OBVIOUS
    <2>3. n \in InHand /\ n.at = "delete" /\ n.op = q.op /\ n.by = q.by /\ n.group = g /\ n.were = members[g]
      <3>1. n \in DeleteGroupRequests
        BY <1>1, <2>1, <2>2 DEF DeleteGroupRequests
      <3>2. QED
        BY <1>1, <2>2, <3>1 DEF DeleteGroupRequests, InHand
    <2>4. Same /\ g # admin
      BY <1>1, <1>7 DEF DeleteGroupProgress, At
    <2>5. Progress(n)
      BY <1>0, <2>3, <2>4 DEF DeleteGroupProgress, Progress, Same
    <2>6. QED
      BY <1>0, <1>7, <2>2, <2>3, <2>5, ReadsServed
  <1>8. CASE At(r, "delete_group", "delete") /\ Checks(r, FALSE, "answer")
    <2>1. Same
      BY <1>1, <1>8 DEF DeleteGroupProgress, At
    <2>2. QED
      BY <1>0, <1>8, <2>1, ChecksServed
  <1>9. CASE /\ At(r, "delete_group", "delete") /\ g \in groups
             /\ groups' = groups \ {g}
             /\ name' = [name EXCEPT ![g] = NoName]
             /\ perms' = [perms EXCEPT ![g] = {}]
             /\ members' = [members EXCEPT ![g] = {}]
             /\ Goes(r, "answer")
             /\ Silently /\ UNCHANGED <<users, setup>>
    <2>1. PICK n : n = [q EXCEPT !.at = "answer"]
      OBVIOUS
    <2>2. n \in InHand /\ n.at = "answer" /\ n.op = q.op /\ n.by = q.by /\ n.group = g /\ n.were = q.were
      <3>1. n \in DeleteGroupRequests
        BY <1>1, <2>1 DEF DeleteGroupRequests
      <3>2. QED
        BY <1>1, <2>1, <3>1 DEF DeleteGroupRequests, InHand
    <2>3. Same /\ g # admin /\ q.were = before.members[g]
      BY <1>1, <1>9 DEF DeleteGroupProgress, At
    <2>4. before' = before => DeleteGroupProgress(n)'
      BY <1>9, <2>2, <2>3 DEF DeleteGroupProgress, Same, SameGroups, setup
    <2>5. before' = before => Progress(n)'
      BY <1>0, <2>2, <2>4 DEF Progress
    <2>6. QED
      BY <1>0, <1>9, <2>1, <2>2, <2>5, GoesOn DEF Goes, setup
  <1>10. CASE Reply(r)
    <2>1. /\ sent' = Broadcast("group", g) \union UserPermissions(q.were) /\ response' = Ok(q.by)
          /\ UNCHANGED <<users, groups, name, perms, members, admin, completed>>
          /\ request' = [request EXCEPT ![r] = Idle] /\ q.at = "answer"
      BY <1>0, <1>10 DEF Reply, UpdatesOf, Answer, Ends, tables, setup
    <2>2. /\ g # admin /\ g \in before.groups /\ q.were = before.members[g]
          /\ groups = before.groups \ {g}
          /\ name = [before.name EXCEPT ![g] = NoName]
          /\ perms = [before.perms EXCEPT ![g] = {}]
          /\ members = [before.members EXCEPT ![g] = {}]
          /\ users = before.users /\ completed = before.completed
      BY <1>1, <2>1 DEF DeleteGroupProgress
    <2>3. UserPermissions(q.were) = D!UserPermissions(before.members[g])
      BY <2>2 DEF UserPermissions, D!UserPermissions, Update, D!Update
    <2>4. before' = Now' => D!DeleteGroup(q.by, g)
      BY <1>3, <2>1, <2>2, <2>3, NowFacts DEF D!DeleteGroup, D!Deletable, D!Answer, D!Ok, Ok,
         D!Broadcast, D!Update, Broadcast, Update, D!setup
    <2>5. /\ [ids |-> {}, repeats |-> FALSE] \in PermLists /\ [ids |-> {}, repeats |-> FALSE] \in UserLists
      BY DEF PermLists, UserLists, Lists
    <2>6. before' = Now' => D!Next
      <3>2. before' = Now' => \E a \in UserIds : D!Manages(a)
        BY <1>2, <1>3, <2>4 DEF D!Manages
      <3>3. QED
        BY <3>2 DEF D!Next
    <2>7. IsFiniteSet(users) /\ response' # Silent
      BY <2>1, <2>2, FinitelyMany DEF Ok, Silent
    <2>8. QED
      BY <1>0, <2>1, <2>6, <2>7, Answers
  <1>11. QED
    BY <1>6, <1>7, <1>8, <1>9, <1>10 DEF DeleteGroupStep

(* Where edit_group is once it has read the group. *)
EditGroupAts ==
    {"info", "rights", "members", "name", "clear_perms", "clear_users", "insert_perms",
     "insert_users", "answer"}

(* A request of edit_group that has gone on. *)
LEMMA EditGroupGoesOn ==
    ASSUME NEW q \in EditGroupRequests, NEW to \in EditGroupAts, NEW n, n = [q EXCEPT !.at = to]
    PROVE  /\ n \in InHand /\ n.at = to /\ n.op = q.op /\ n.by = q.by /\ n.group = q.group
           /\ n.name = q.name /\ n.ps = q.ps /\ n.us = q.us /\ n.had = q.had /\ n.were = q.were
  <1>1. n \in EditGroupRequests
    BY DEF EditGroupRequests, EditGroupAts
  <1>2. QED
    BY <1>1 DEF EditGroupRequests, InHand

(* What the checks of edit_group have found, once they are past. *)
LEMMA EditGroupChecked ==
    ASSUME NEW q, EditGroupProgress(q),
           q.at \in {"name", "clear_perms", "clear_users", "insert_perms", "insert_users", "answer"}
    PROVE  /\ D!NameTaken(q.name) => before.name[q.group] = q.name
           /\ q.group \in before.groups /\ q.had = before.perms[q.group]
           /\ q.had \union q.ps.ids \subseteq D!PermissionsOf(q.by)
           /\ KeepsAdminGroup(q.group, q.had, q.ps, q.us)
           /\ q.were = before.members[q.group]
  BY DEF EditGroupProgress

(* The queries of edit_group. *)
LEMMA EditGroupCheckServed ==
    ASSUME SerialInv, Follows, UNCHANGED <<boot, skipping>>, NEW r \in Requests, EditGroupCheck(r)
    PROVE  WellServed(r)
  <1> SUFFICES ASSUME NEW q, q = request[r], NEW g, g = q.group
               PROVE  WellServed(r)
    OBVIOUS
  <1>0. q # Idle /\ q.op = "edit_group"
    <2>1. q.op = "edit_group"
      BY Zenon DEF EditGroupCheck, At
    <2>2. QED
      BY <2>1 DEF Idle
  <1>1. q \in EditGroupRequests /\ EditGroupProgress(q)
    BY <1>0, Served, InHandFacts DEF Progress
  <1>2. g \in GroupIds /\ q.by \in UserIds
    BY <1>1 DEF EditGroupRequests
  <1>3. CASE At(r, "edit_group", "start") /\ Checks(r, NameTaken(q.name) => name[g] = q.name, "info")
    <2>1. PICK n : n = [q EXCEPT !.at = "info"]
      OBVIOUS
    <2>2. n \in InHand /\ n.at = "info" /\ n.op = q.op /\ n.by = q.by /\ n.group = g /\ n.name = q.name
      BY <1>1, <2>1, EditGroupGoesOn DEF EditGroupAts
    <2>3. Same
      BY <1>1, <1>3 DEF EditGroupProgress, At
    <2>4. (NameTaken(q.name) => name[g] = q.name) => EditGroupProgress(n)
      BY <2>2, <2>3 DEF EditGroupProgress, Same, SameGroups, NameTaken, D!NameTaken
    <2>5. (NameTaken(q.name) => name[g] = q.name) => Progress(n)
      BY <1>0, <2>2, <2>4 DEF Progress
    <2>6. QED
      BY <1>0, <1>3, <2>1, <2>2, <2>3, <2>5, ChecksServed
  <1>4. CASE At(r, "edit_group", "info") /\ Checks(r, FALSE, "rights")
    <2>1. Same
      BY <1>1, <1>4 DEF EditGroupProgress, At
    <2>2. QED
      BY <1>0, <1>4, <2>1, ChecksServed
  <1>5. CASE At(r, "edit_group", "info") /\ g \in groups /\ Reads(r, [q EXCEPT !.at = "rights", !.had = perms[g]])
    <2>1. PICK n : n = [q EXCEPT !.at = "rights", !.had = perms[g]]
      OBVIOUS
    <2>2. /\ n \in InHand /\ n.at = "rights" /\ n.op = q.op /\ n.by = q.by /\ n.group = g
          /\ n.name = q.name /\ n.had = perms[g]
      <3>1. perms[g] \in SUBSET Perms
        BY <1>2 DEF SerialInv, HandlersInv, DirectoryInv, TypeOK
      <3>2. n \in EditGroupRequests
        BY <1>1, <2>1, <3>1 DEF EditGroupRequests
      <3>3. QED
        BY <1>1, <2>1, <3>2 DEF EditGroupRequests, InHand
    <2>3. Same /\ (D!NameTaken(q.name) => before.name[g] = q.name)
      BY <1>1, <1>5 DEF EditGroupProgress, At
    <2>4. EditGroupProgress(n)
      BY <1>5, <2>2, <2>3 DEF EditGroupProgress, Same, SameGroups
    <2>5. Progress(n)
      BY <1>0, <2>2, <2>4 DEF Progress
    <2>6. QED
      BY <1>0, <1>5, <2>1, <2>2, <2>5, ReadsServed
  <1>6. CASE /\ At(r, "edit_group", "rights")
             /\ Checks(r, /\ q.had \union q.ps.ids \subseteq PermissionsOf(q.by)
                          /\ KeepsAdminGroup(g, q.had, q.ps, q.us), "members")
    <2>1. PICK n : n = [q EXCEPT !.at = "members"]
      OBVIOUS
    <2>2. /\ n \in InHand /\ n.at = "members" /\ n.op = q.op /\ n.by = q.by /\ n.group = g
          /\ n.name = q.name /\ n.ps = q.ps /\ n.us = q.us /\ n.had = q.had
      BY <1>1, <2>1, EditGroupGoesOn DEF EditGroupAts
    <2>3. /\ Same /\ (D!NameTaken(q.name) => before.name[g] = q.name)
          /\ g \in before.groups /\ q.had = before.perms[g]
      BY <1>1, <1>6 DEF EditGroupProgress, At
    <2>4. PermissionsOf(q.by) = D!PermissionsOf(q.by)
      BY <2>3 DEF Same, SameGroups, PermissionsOf, D!PermissionsOf, HasPermission, D!HasPermission
    <2>5. /\ q.had \union q.ps.ids \subseteq PermissionsOf(q.by)
          /\ KeepsAdminGroup(g, q.had, q.ps, q.us)
          => EditGroupProgress(n)
      BY <2>2, <2>3, <2>4 DEF EditGroupProgress
    <2>6. /\ q.had \union q.ps.ids \subseteq PermissionsOf(q.by)
          /\ KeepsAdminGroup(g, q.had, q.ps, q.us)
          => Progress(n)
      BY <1>0, <2>2, <2>5 DEF Progress
    <2>7. QED
      BY <1>0, <1>6, <2>1, <2>2, <2>3, <2>6, ChecksServed
  <1>7. CASE At(r, "edit_group", "members") /\ Reads(r, [q EXCEPT !.at = "name", !.were = members[g]])
    <2>1. PICK n : n = [q EXCEPT !.at = "name", !.were = members[g]]
      OBVIOUS
    <2>2. /\ n \in InHand /\ n.at = "name" /\ n.op = q.op /\ n.by = q.by /\ n.group = g
          /\ n.name = q.name /\ n.ps = q.ps /\ n.us = q.us /\ n.had = q.had /\ n.were = members[g]
      <3>1. members[g] \in SUBSET UserIds
        BY <1>2 DEF SerialInv, HandlersInv, DirectoryInv, TypeOK
      <3>2. n \in EditGroupRequests
        BY <1>1, <2>1, <3>1 DEF EditGroupRequests
      <3>3. QED
        BY <1>1, <2>1, <3>2 DEF EditGroupRequests, InHand
    <2>3. /\ Same /\ (D!NameTaken(q.name) => before.name[g] = q.name)
          /\ g \in before.groups /\ q.had = before.perms[g]
          /\ q.had \union q.ps.ids \subseteq D!PermissionsOf(q.by)
          /\ KeepsAdminGroup(g, q.had, q.ps, q.us)
      BY <1>1, <1>7 DEF EditGroupProgress, At
    <2>4. EditGroupProgress(n)
      BY <2>2, <2>3 DEF EditGroupProgress, Same
    <2>5. Progress(n)
      BY <1>0, <2>2, <2>4 DEF Progress
    <2>6. QED
      BY <1>0, <1>7, <2>1, <2>2, <2>5, ReadsServed
  <1>8. QED
    BY <1>3, <1>4, <1>5, <1>6, <1>7, Zenon DEF EditGroupCheck

(* The request ends: all its rows are written, or the permissions are not  *)
(* and so neither are the members, or the members are not.                 *)
LEMMA EditGroupEnds ==
    ASSUME SerialInv, Follows, UNCHANGED <<boot, skipping>>, NEW r \in Requests,
           NEW q, q = request[r], q.op = "edit_group",
           q.at \in {"insert_perms", "insert_users", "answer"}, Ends(r), UNCHANGED <<tables, setup>>,
           NEW all \in BOOLEAN, all <=> ~q.ps.repeats /\ Insertable(q.us, before.users),
           perms = [before.perms EXCEPT ![q.group] = IF ~q.ps.repeats THEN q.ps.ids ELSE {}],
           members = [before.members EXCEPT ![q.group] = IF all THEN q.us.ids ELSE {}],
           sent' = IF all THEN Broadcast("group", q.group)
                                 \union UserPermissions(Notified(q.had, q.were, q.ps, q.us))
                   ELSE {},
           response' = IF all THEN Ok(q.by) ELSE Error(q.by)
    PROVE  WellServed(r)
  <1>0. q # Idle
    BY DEF Idle
  <1>1. q \in EditGroupRequests /\ EditGroupProgress(q)
    BY <1>0, Served, InHandFacts DEF Progress
  <1>2. /\ q.by \in UserIds /\ q.group \in GroupIds /\ q.name \in Names /\ q.ps \in PermLists
        /\ q.us \in UserLists
    BY <1>1 DEF EditGroupRequests
  <1>3. D!Authorized(q.by, GroupEdit)
    BY <1>0, <1>2, AllowedFacts DEF Needs
  <1>4. /\ D!NameTaken(q.name) => before.name[q.group] = q.name
        /\ q.group \in before.groups /\ q.had = before.perms[q.group]
        /\ q.had \union q.ps.ids \subseteq D!PermissionsOf(q.by)
        /\ KeepsAdminGroup(q.group, q.had, q.ps, q.us)
        /\ q.were = before.members[q.group]
    BY <1>1, EditGroupChecked
  <1>5. /\ users = before.users /\ groups = before.groups /\ completed = before.completed
        /\ name = [before.name EXCEPT ![q.group] = q.name]
    BY <1>1 DEF EditGroupProgress
  <1>6. UNCHANGED <<users, groups, name, perms, members, admin, completed>>
    BY DEF tables, setup
  <1>7. UserPermissions(Notified(q.had, q.were, q.ps, q.us))
          = D!UserPermissions(D!Notified(before.perms[q.group], before.members[q.group], q.ps, q.us))
    BY <1>4 DEF UserPermissions, D!UserPermissions, Update, D!Update, Notified, D!Notified
  <1>8. D!KeepsAdminGroup(q.group, before.perms[q.group], q.ps, q.us)
    BY <1>4 DEF KeepsAdminGroup, D!KeepsAdminGroup
  <1>9. Insertable(q.us, before.users) <=> D!Insertable(q.us, before.users)
    BY DEF Insertable, D!Insertable
  <1>10. ASSUME before' = Now'
         PROVE  D!EditGroup(q.by, q.group, q.name, q.ps, q.us)
    <2>1. D!Answer(q.by, ~q.ps.repeats /\ D!Insertable(q.us, before.users),
                   D!Broadcast("group", q.group) \union
                     D!UserPermissions(D!Notified(before.perms[q.group], before.members[q.group], q.ps, q.us)))
      BY <1>7, <1>9, <1>10, NowFacts DEF D!Answer, D!Ok, D!Error, Ok, Error, D!Broadcast, D!Update,
         Broadcast, Update
    <2>2. /\ before'.name = [before.name EXCEPT ![q.group] = q.name]
          /\ before'.perms = [before.perms EXCEPT ![q.group] = IF ~q.ps.repeats THEN q.ps.ids ELSE {}]
          /\ before'.members = [before.members EXCEPT ![q.group] =
                                  IF ~q.ps.repeats /\ D!Insertable(q.us, before.users)
                                  THEN q.us.ids ELSE {}]
      BY <1>5, <1>6, <1>9, <1>10, NowFacts
    <2>3. /\ before'.users = before.users /\ before'.groups = before.groups
          /\ before'.completed = before.completed /\ admin' = admin
      BY <1>5, <1>6, <1>10, NowFacts
    <2>4. before.perms[q.group] \subseteq D!PermissionsOf(q.by) /\ q.ps.ids \subseteq D!PermissionsOf(q.by)
      BY <1>4
    <2>5. QED
      BY <1>3, <1>4, <1>8, <2>1, <2>2, <2>3, <2>4 DEF D!EditGroup, D!setup
  <1>11. before' = Now' => D!Next
    BY <1>2, <1>3, <1>10, GroupRequestsAreSteps
  <1>12. IsFiniteSet(users')
    BY <1>5, <1>6, FinitelyMany
  <1>13. response' # Silent
    BY DEF Ok, Error, Silent
  <1>14. QED
    BY <1>0, <1>6, <1>11, <1>12, <1>13, Answers DEF Ends

(* The writes of edit_group end as EditGroup: answered, or half-done with  *)
(* either of the two lists deleted and not inserted.                       *)
LEMMA EditGroupWriteServed ==
    ASSUME SerialInv, Follows, UNCHANGED <<boot, skipping>>, NEW r \in Requests,
           EditGroupWrite(r) \/ (Reply(r) /\ request[r].op = "edit_group")
    PROVE  WellServed(r)
  <1> SUFFICES ASSUME NEW q, q = request[r], NEW g, g = q.group
               PROVE  WellServed(r)
    OBVIOUS
  <1>0. q # Idle /\ q.op = "edit_group"
    <2>1. EditGroupWrite(r) => q.op = "edit_group"
      BY Zenon DEF EditGroupWrite, At
    <2>2. QED
      BY <2>1 DEF Idle
  <1>1. q \in EditGroupRequests /\ EditGroupProgress(q)
    BY <1>0, Served, InHandFacts DEF Progress
  <1>2. /\ g \in GroupIds /\ q.ps.ids \in SUBSET Perms /\ q.us.ids \in SUBSET UserIds
        /\ q.ps.repeats \in BOOLEAN /\ q.us.repeats \in BOOLEAN
        /\ (q.ps.repeats => q.ps.ids # {}) /\ (q.us.repeats => q.us.ids # {})
    BY <1>1 DEF EditGroupRequests, PermLists, UserLists, Lists
  (* Until the name is written the handler has read. *)
  <1>3. ASSUME q.at \in {"name", "clear_perms", "clear_users", "insert_perms", "insert_users", "answer"}
        PROVE  /\ D!NameTaken(q.name) => before.name[g] = q.name
               /\ g \in before.groups /\ q.had = before.perms[g]
               /\ q.had \union q.ps.ids \subseteq D!PermissionsOf(q.by)
               /\ KeepsAdminGroup(g, q.had, q.ps, q.us)
               /\ q.were = before.members[g]
    BY <1>1, <1>3, EditGroupChecked
  (* How a write that goes on is served. *)
  <1>4. ASSUME NEW to \in {"clear_perms", "clear_users", "insert_perms", "insert_users", "answer"},
               q.at \in {"name", "clear_perms", "clear_users", "insert_perms", "insert_users", "answer"},
               Goes(r, to), UNCHANGED <<users, groups, admin, completed>>,
               users = before.users, groups = before.groups, completed = before.completed,
               name' = [before.name EXCEPT ![g] = q.name],
               perms' = IF to = "clear_perms" THEN before.perms
                        ELSE [before.perms EXCEPT ![g] = IF to \in {"insert_users", "answer"}
                                                         THEN q.ps.ids ELSE {}],
               members' = IF to \in {"clear_perms", "clear_users"} THEN before.members
                          ELSE [before.members EXCEPT ![g] = IF to = "answer" THEN q.us.ids ELSE {}],
               to \in {"insert_users", "answer"} => ~q.ps.repeats,
               to = "answer" => Insertable(q.us, before.users)
        PROVE  WellServed(r)
    <2>1. PICK n : n = [q EXCEPT !.at = to]
      OBVIOUS
    <2>2. /\ n \in InHand /\ n.at = to /\ n.op = q.op /\ n.by = q.by /\ n.group = g
          /\ n.name = q.name /\ n.ps = q.ps /\ n.us = q.us /\ n.had = q.had /\ n.were = q.were
      BY <1>1, <2>1, EditGroupGoesOn DEF EditGroupAts
    <2>3. ASSUME before' = before
          PROVE  EditGroupProgress(n)'
      <3>1. /\ (D!NameTaken(n.name) => before.name[g] = n.name)'
            /\ g \in before'.groups /\ n.had = before'.perms[g]
            /\ (n.had \union n.ps.ids \subseteq D!PermissionsOf(n.by))'
            /\ KeepsAdminGroup(g, n.had, n.ps, n.us)'
            /\ n.were = before'.members[g]
        BY <1>3, <1>4, <2>2, <2>3, SyncedStays
      <3>2. QED
        BY <1>4, <2>2, <2>3, <3>1 DEF EditGroupProgress
    <2>4. before' = before => Progress(n)'
      BY <1>0, <2>2, <2>3 DEF Progress
    <2>5. QED
      BY <1>0, <1>4, <2>1, <2>2, <2>4, GoesOn DEF Goes
  (* What is written before each of the writes. *)
  <1>5. q.at \in {"clear_perms", "clear_users", "insert_perms", "insert_users", "answer"} =>
          /\ users = before.users /\ groups = before.groups /\ completed = before.completed
          /\ name = [before.name EXCEPT ![g] = q.name]
          /\ perms = IF q.at = "clear_perms" THEN before.perms
                     ELSE [before.perms EXCEPT ![g] = IF q.at \in {"insert_users", "answer"}
                                                      THEN q.ps.ids ELSE {}]
          /\ members = IF q.at \in {"clear_perms", "clear_users"} THEN before.members
                       ELSE [before.members EXCEPT ![g] = IF q.at = "answer" THEN q.us.ids ELSE {}]
    BY <1>1 DEF EditGroupProgress
  <1>6. CASE At(r, "edit_group", "name") /\ Checks(r, FALSE, "clear_perms")
    <2>1. Same
      BY <1>1, <1>6 DEF EditGroupProgress, At
    <2>2. QED
      BY <1>0, <1>6, <2>1, ChecksServed
  <1>7. CASE /\ At(r, "edit_group", "name") /\ name' = [name EXCEPT ![g] = q.name]
             /\ Goes(r, "clear_perms") /\ UNCHANGED <<users, groups, perms, members, setup>>
    <2>1. Same /\ q.at = "name"
      BY <1>1, <1>7 DEF EditGroupProgress, At
    <2>2. QED
      BY <1>4, <1>7, <2>1 DEF Same, SameGroups, setup
  <1>8. CASE /\ At(r, "edit_group", "clear_perms") /\ perms' = [perms EXCEPT ![g] = {}]
             /\ Goes(r, "clear_users") /\ UNCHANGED <<users, groups, name, members, setup>>
    <2>1. q.at = "clear_perms"
      BY <1>8 DEF At
    <2>2. QED
      BY <1>4, <1>5, <1>8, <2>1 DEF setup
  <1>9. CASE /\ At(r, "edit_group", "clear_users") /\ members' = [members EXCEPT ![g] = {}]
             /\ Goes(r, "insert_perms") /\ UNCHANGED <<users, groups, name, perms, setup>>
    <2>1. q.at = "clear_users"
      BY <1>9 DEF At
    <2>2. QED
      BY <1>4, <1>5, <1>9, <2>1 DEF setup
  (* The group has no permissions, then no members, so the inserts fit as the lists do. *)
  <1>10. ASSUME q.at = "insert_perms"
         PROVE  /\ g \in groups /\ perms[g] = {} /\ perms = [before.perms EXCEPT ![g] = {}]
                /\ members = [before.members EXCEPT ![g] = {}]
    <2>1. g \in groups
      BY <1>3, <1>5, <1>10
    <2>2. perms = [before.perms EXCEPT ![g] = {}] /\ members = [before.members EXCEPT ![g] = {}]
      BY <1>5, <1>10
    <2>3. perms[g] = {}
      BY <1>2, <2>2, BeforeFacts
    <2>4. QED
      BY <2>1, <2>2, <2>3
  <1>11. CASE /\ At(r, "edit_group", "insert_perms")
              /\ q.ps.ids = {} \/ ~q.ps.repeats
              /\ perms' = [perms EXCEPT ![g] = @ \union q.ps.ids]
              /\ Goes(r, "insert_users") /\ UNCHANGED <<users, groups, name, members, setup>>
    <2>1. q.at = "insert_perms" /\ ~q.ps.repeats
      BY <1>2, <1>11 DEF At
    <2>2. perms' = [before.perms EXCEPT ![g] = q.ps.ids]
      BY <1>2, <1>10, <1>11, <2>1, BeforeFacts
    <2>3. QED
      BY <1>4, <1>5, <1>11, <2>1, <2>2 DEF setup
  <1>12. CASE At(r, "edit_group", "insert_perms") /\ q.ps.repeats /\ Fails(r)
    <2>1. q.at = "insert_perms"
      BY <1>12 DEF At
    <2>2. QED
      BY <1>0, <1>10, <1>12, <2>1, EditGroupEnds DEF Fails
  <1>13. CASE At(r, "edit_group", "insert_users") /\ Inserts(r, ~q.us.repeats, {g}, q.us.ids, "answer")
    <2>1. /\ q.at = "insert_users" /\ ~q.ps.repeats /\ users = before.users /\ groups = before.groups
          /\ perms = [before.perms EXCEPT ![g] = q.ps.ids] /\ g \in groups
          /\ members = [before.members EXCEPT ![g] = {}]
      BY <1>1, <1>3, <1>5, <1>13 DEF EditGroupProgress, At
    <2>2. members[g] = {} /\ members \in [GroupIds -> SUBSET UserIds]
      BY <1>2, <2>1, BeforeFacts
    <2>3. (q.us.ids = {} \/ (~q.us.repeats /\ Fits({g}, q.us.ids))) <=> Insertable(q.us, before.users)
      BY <1>2, <2>1, <2>2 DEF Fits, Insertable
    <2>4. CASE Fails(r) /\ ~Insertable(q.us, before.users)
      BY <1>0, <2>1, <2>4, EditGroupEnds DEF Fails
    <2>5. CASE /\ Insertable(q.us, before.users) /\ members' = WithMembers({g}, q.us.ids)
               /\ Goes(r, "answer") /\ UNCHANGED <<users, groups, name, perms, setup>>
      <3>1. members' = [before.members EXCEPT ![g] = q.us.ids]
        BY <1>2, <2>1, <2>2, <2>5, BeforeFacts DEF WithMembers
      <3>2. QED
        BY <1>4, <1>5, <2>1, <2>5, <3>1 DEF setup
    <2>6. QED
      BY <1>13, <2>3, <2>4, <2>5 DEF Inserts
  <1>14. CASE Reply(r)
    <2>1. /\ q.at = "answer" /\ Ends(r) /\ UNCHANGED <<tables, setup>> /\ response' = Ok(q.by)
          /\ sent' = Broadcast("group", g) \union UserPermissions(Notified(q.had, q.were, q.ps, q.us))
      BY <1>0, <1>14 DEF Reply, UpdatesOf, Answer
    <2>2. ~q.ps.repeats /\ Insertable(q.us, before.users)
      BY <1>1, <2>1 DEF EditGroupProgress
    <2>3. QED
      BY <1>0, <1>5, <2>1, <2>2, EditGroupEnds
  <1>15. EditGroupWrite(r) =>
           \/ At(r, "edit_group", "name") /\ Checks(r, FALSE, "clear_perms")
           \/ /\ At(r, "edit_group", "name") /\ name' = [name EXCEPT ![g] = q.name]
              /\ Goes(r, "clear_perms") /\ UNCHANGED <<users, groups, perms, members, setup>>
           \/ /\ At(r, "edit_group", "clear_perms") /\ perms' = [perms EXCEPT ![g] = {}]
              /\ Goes(r, "clear_users") /\ UNCHANGED <<users, groups, name, members, setup>>
           \/ /\ At(r, "edit_group", "clear_users") /\ members' = [members EXCEPT ![g] = {}]
              /\ Goes(r, "insert_perms") /\ UNCHANGED <<users, groups, name, perms, setup>>
           \/ /\ At(r, "edit_group", "insert_perms") /\ (q.ps.ids = {} \/ ~q.ps.repeats)
              /\ perms' = [perms EXCEPT ![g] = @ \union q.ps.ids]
              /\ Goes(r, "insert_users") /\ UNCHANGED <<users, groups, name, members, setup>>
           \/ /\ At(r, "edit_group", "insert_perms") /\ q.ps.ids # {}
              /\ ~(~q.ps.repeats /\ g \in groups /\ perms[g] \intersect q.ps.ids = {}) /\ Fails(r)
           \/ At(r, "edit_group", "insert_users") /\ Inserts(r, ~q.us.repeats, {g}, q.us.ids, "answer")
    BY Zenon DEF EditGroupWrite
  <1>16. ASSUME At(r, "edit_group", "insert_perms"),
                ~(~q.ps.repeats /\ g \in groups /\ perms[g] \intersect q.ps.ids = {})
         PROVE  q.ps.repeats
    BY <1>2, <1>10, <1>16 DEF At
  <1>17. QED
    BY <1>6, <1>7, <1>8, <1>9, <1>11, <1>12, <1>13, <1>14, <1>15, <1>16

-----------------------------------------------------------------------------
(* Every step of a run of whole requests. *)

(* Every statement of a handler, and every answer. *)
LEMMA HandlerServed ==
    ASSUME SerialInv, Follows, UNCHANGED <<boot, skipping>>, NEW r \in Requests, Handle(r) \/ Reply(r)
    PROVE  WellServed(r)
  <1>1. CASE Handle(r)
    BY <1>1, SetupServed, OidcServed, CreateUserServed, DeleteUserServed, EditUserServed,
       CreateGroupServed, DeleteGroupServed, EditGroupCheckServed, EditGroupWriteServed DEF Handle
  <1>2. CASE Reply(r)
    <2>1. request[r] # Idle
      BY <1>2 DEF Reply, Idle
    <2>2. request[r].op \in {"complete_setup", "oidc_callback", "create_user", "delete_user",
                             "edit_user", "create_group", "delete_group", "edit_group"}
      BY <2>1, Served DEF InHand, SetupRequests, LoginRequests, CreateUserRequests,
         DeleteUserRequests, EditUserRequests, CreateGroupRequests, DeleteGroupRequests,
         EditGroupRequests
    <2>3. QED
      BY <1>2, <2>2, SetupAnswered, LoginAnswered, CreateUserServed, DeleteUserServed,
         EditUserServed, CreateGroupServed, DeleteGroupServed, EditGroupWriteServed
  <1>3. QED
    BY <1>1, <1>2

(* A request begins with nothing written. *)
LEMMA ArrivalServed ==
    ASSUME SerialInv, Follows, Quiet, NEW r \in Requests, Arrives(r)
    PROVE  \E n \in InHand :
             /\ request' = [request EXCEPT ![r] = n] /\ UNCHANGED <<before, tables, setup>>
             /\ Running /\ Allowed(n) /\ Progress(n)
  <1>1. PICK op \in Operations[r] : \E n \in Calls(op) : Begins(r, n)
    BY DEF Arrives
  <1>2. PICK n \in Calls(op) : Begins(r, n)
    BY <1>1
  <1>3. op \in {"complete_setup", "oidc_callback", "create_user", "delete_user", "edit_user",
                "create_group", "delete_group", "edit_group"}
    BY OperationsOK
  <1>4. n \in InHand /\ n.at = "start" /\ n.op = op
    BY <1>3, CallsInHand
  <1>5. request' = [request EXCEPT ![r] = n] /\ UNCHANGED <<tables, setup>> /\ Running
    BY <1>2 DEF Begins
  <1>6. before' = before
    <2>1. request'[r] = n /\ n # Idle
      BY <1>4, <1>5, InHandFacts DEF SerialInv, HandlersInv
    <2>2. QED
      BY <2>1 DEF Follows, Quiet
  <1>7. Same
    BY DEF SerialInv
  <1>8. Allowed(n)
    BY <1>2, <1>7 DEF Begins, Allowed, Authorized, D!Authorized, Running, D!Running, HasPermission,
       D!HasPermission, Same, SameGroups
  <1>9. Progress(n)
    <2>1. SetupProgress(n)
      BY <1>4, <1>7 DEF SetupProgress
    <2>2. CASE op = "oidc_callback"
      <3>1. ~n.new
        BY <2>2 DEF Calls
      <3>2. LoginProgress(n)
        BY <1>4, <1>7, <3>1 DEF LoginProgress, Same, SameGroups
      <3>3. QED
        BY <1>4, <2>2, <3>2 DEF Progress
    <2>3. CASE op # "oidc_callback"
      BY <1>4, <1>7, <2>1, <2>3 DEF Progress, CreateUserProgress, DeleteUserProgress,
         EditUserProgress, CreateGroupProgress, DeleteGroupProgress, EditGroupProgress
    <2>4. QED
      BY <2>2, <2>3
  <1>10. QED
    BY <1>4, <1>5, <1>6, <1>8, <1>9

(* A statement of the boot is one of Directory's. *)
LEMMA BootServed ==
    ASSUME SerialInv, Follows, Quiet, Starts, UNCHANGED request
    PROVE  before' = Now' /\ D!Next /\ users' = users
  <1>1. Same
    BY DEF SerialInv
  <1>2. before' = Now'
    BY DEF Follows, Quiet, Refused
  <1> USE <1>1, <1>2, NowFacts DEF Same, SameGroups, Silent, D!Silent, BootAt, D!BootAt, Creating,
      D!Creating
  <1>3. ASSUME NEW g \in GroupIds, NEW n \in Names, NEW release \in Releases,
               BootCreateGroup(g, n, release)
        PROVE  users' = users /\ D!Starts
    <2>1. D!BootCreateGroup(g, n, release) /\ users' = users
      BY <1>3 DEF BootCreateGroup, D!BootCreateGroup
    <2>2. QED
      BY <2>1 DEF D!Starts
  <1>4. BootGrant => users' = users /\ D!Starts
    BY DEF BootGrant, D!BootGrant, D!Starts
  <1>5. BootRecord => users' = users /\ D!Starts
    BY DEF BootRecord, D!BootRecord, D!Starts
  <1>6. ASSUME NEW release \in Releases, BootUpgrade(release)
        PROVE  users' = users /\ D!Starts
    <2>1. D!BootUpgrade(release) /\ users' = users
      BY <1>6 DEF BootUpgrade, D!BootUpgrade
    <2>2. QED
      BY <2>1 DEF D!Starts
  <1>7. ASSUME NEW n \in Names, BootRename(n)
        PROVE  users' = users /\ D!Starts
    <2>1. D!BootRename(n) /\ users' = users
      BY <1>7 DEF BootRename, D!BootRename
    <2>2. QED
      BY <2>1 DEF D!Starts
  <1>8. SkipSetup => users' = users /\ D!Starts
    BY DEF SkipSetup, D!SkipSetup, D!Starts, Running, D!Running, tables, D!tables
  <1>9. users' = users /\ D!Starts
    BY <1>3, <1>4, <1>5, <1>6, <1>7, <1>8 DEF Starts
  <1>10. QED
    BY <1>9 DEF D!Next, D!Boot

(* Directory's invariant, of the directory as the last whole request left it. *)
LEMMA BeforeStaysWhole ==
    ASSUME SerialInv, DirectoryInv', before' = Now' \/ UNCHANGED <<before, admin, boot, skipping>>
    PROVE  D!DirectoryInv'
  <1> USE DEF D!DirectoryInv, D!TypeOK, D!AdminGroupExists, D!NoMembersBeforeAdminGroup,
      D!BootGroupExists, D!NoDanglingRows, D!BootStates, D!Updates, D!Responses
  <1>1. CASE before' = Now'
    BY <1>1, NowFacts DEF DirectoryInv, TypeOK, AdminGroupExists, NoMembersBeforeAdminGroup,
       BootGroupExists, NoDanglingRows, BootStates, Updates, Responses
  <1>2. CASE UNCHANGED <<before, admin, boot, skipping>>
    BY <1>2 DEF SerialInv
  <1>3. QED
    BY <1>1, <1>2

(* The invariant, where at most the request of r was in hand and n is now. *)
LEMMA OneInHand ==
    ASSUME SerialInv, HandlersInv', D!DirectoryInv', IsFiniteSet(before'.users),
           NEW r \in Requests, \A o \in Requests : request[o] # Idle => o = r,
           NEW n, request' = [request EXCEPT ![r] = n],
           n # Idle => Running' /\ Allowed(n)' /\ Progress(n)',
           n = Idle => Same'
    PROVE  SerialInv'
  <1>1. request'[r] = n /\ \A o \in Requests : o # r => request'[o] = Idle
    BY DEF SerialInv, HandlersInv
  <1>2. (Quiet => Same)'
    BY <1>1 DEF Quiet
  <1>3. ASSUME NEW o \in Requests, (request[o] # Idle)'
        PROVE  o = r /\ Running' /\ Allowed(request[o])' /\ Progress(request[o])'
    <2>1. o = r /\ n # Idle
      BY <1>1, <1>3
    <2>2. Allowed(request[o])' /\ Progress(request[o])'
      BY <1>1, <2>1 DEF Allowed
    <2>3. QED
      BY <2>1, <2>2
  <1>4. QED
    BY <1>2, <1>3 DEF SerialInv

(* Only a request in hand is handled or answered. *)
LEMMA HandledIsBusy ==
    ASSUME NEW r, Handle(r) \/ Reply(r)
    PROVE  request[r] # Idle
  <1>1. ASSUME NEW op, NEW from, At(r, op, from), op # "none"
        PROVE  request[r] # Idle
    BY <1>1 DEF At, Idle
  <1>2. CompleteSetupStep(r) \/ OidcStep(r) => \E op, from : At(r, op, from) /\ op # "none"
    <2>1. CompleteSetupStep(r) => \E from : At(r, "complete_setup", from)
      BY Zenon DEF CompleteSetupStep
    <2>2. OidcStep(r) => \E from : At(r, "oidc_callback", from)
      BY Zenon DEF OidcStep, SyncStep
    <2>3. QED
      BY <2>1, <2>2
  <1>3. CreateUserStep(r) \/ DeleteUserStep(r) \/ EditUserStep(r)
          => \E op, from : At(r, op, from) /\ op # "none"
    <2>1. CreateUserStep(r) => \E from : At(r, "create_user", from)
      BY Zenon DEF CreateUserStep
    <2>2. DeleteUserStep(r) => \E from : At(r, "delete_user", from)
      BY Zenon DEF DeleteUserStep
    <2>3. EditUserStep(r) => \E from : At(r, "edit_user", from)
      BY Zenon DEF EditUserStep
    <2>4. QED
      BY <2>1, <2>2, <2>3
  <1>4. CreateGroupStep(r) \/ DeleteGroupStep(r) \/ EditGroupCheck(r) \/ EditGroupWrite(r)
          => \E op, from : At(r, op, from) /\ op # "none"
    <2>1. CreateGroupStep(r) => \E from : At(r, "create_group", from)
      BY Zenon DEF CreateGroupStep
    <2>2. DeleteGroupStep(r) => \E from : At(r, "delete_group", from)
      BY Zenon DEF DeleteGroupStep
    <2>3. EditGroupCheck(r) => \E from : At(r, "edit_group", from)
      BY Zenon DEF EditGroupCheck
    <2>4. EditGroupWrite(r) => \E from : At(r, "edit_group", from)
      BY Zenon DEF EditGroupWrite
    <2>5. QED
      BY <2>1, <2>2, <2>3, <2>4
  <1>5. Reply(r) => request[r] # Idle
    BY DEF Reply, Idle
  <1>6. QED
    BY <1>1, <1>2, <1>3, <1>4, <1>5, Zenon DEF Handle

(* What a step of a run of whole requests is to Directory. *)
Mapped == D!Next \/ UNCHANGED D!vars

(* Every step of a handler is none of Directory or one, and every step of  *)
(* the boot is the same step of Directory.                                 *)
LEMMA SerialStep ==
    ASSUME SerialInv, [SerialNext]_<<steps, before>>
    PROVE  SerialInv' /\ Mapped
  <1>1. CASE UNCHANGED <<steps, before>>
    <2>1. HandlersInv'
      BY <1>1, HandlersStep DEF SerialInv
    <2>2. D!DirectoryInv'
      BY <1>1, <2>1, BeforeStaysWhole DEF steps, HandlersInv
    <2>3. \A n : Progress(n) => Progress(n)'
      BY <1>1, ProgressStays DEF steps, tables, setup
    <2>4. \A n : Allowed(n) => Allowed(n)'
      BY <1>1 DEF steps, Allowed, D!Authorized, D!Running, D!HasPermission
    <2>5. Running' = Running /\ Same' = Same /\ Quiet' = Quiet
      BY <1>1 DEF steps, Running, Same, SameGroups, Quiet
    <2>6. request' = request /\ before' = before
      BY <1>1 DEF steps
    <2>7. ASSUME NEW r \in Requests, NEW o \in Requests, (request[r] # Idle)', (request[o] # Idle)'
          PROVE  /\ r = o /\ Running' /\ Allowed(request[r])' /\ Progress(request[r])'
      <3>1. r = o /\ Running /\ Allowed(request[r]) /\ Progress(request[r])
        BY <2>6, <2>7 DEF SerialInv
      <3>2. PICK n : n = request[r]
        OBVIOUS
      <3>3. Allowed(n)' /\ Progress(n)' /\ n = request'[r]
        BY <2>3, <2>4, <2>6, <3>1, <3>2
      <3>4. Allowed(request[r])' /\ Progress(request[r])'
        BY <3>3 DEF Allowed
      <3>5. QED
        BY <2>5, <3>1, <3>4
    <2>8. QED
      BY <1>1, <2>1, <2>2, <2>5, <2>6, <2>7 DEF SerialInv, Mapped, D!vars, steps
  <1>2. ASSUME SerialNext
        PROVE  HandlersInv' /\ DirectoryInv' /\ Follows
    <2>1. HandlersNext
      BY <1>2 DEF SerialNext, HandlersNext, Serves
    <2>2. HandlersInv'
      BY <2>1, HandlersStep DEF SerialInv
    <2>3. QED
      BY <1>2, <2>2 DEF SerialNext, Follows, HandlersInv
  <1>3. ASSUME SerialNext, Quiet, NEW r \in Requests, Arrives(r), UNCHANGED <<boot, skipping>>
        PROVE  SerialInv' /\ Mapped
    <2>1. PICK n \in InHand :
            /\ request' = [request EXCEPT ![r] = n] /\ UNCHANGED <<before, tables, setup>>
            /\ Running /\ Allowed(n) /\ Progress(n)
      BY <1>2, <1>3, ArrivalServed
    <2>2. Running' /\ Allowed(n)' /\ Progress(n)' /\ n # Idle
      BY <1>3, <2>1, ProgressStays, InHandFacts DEF Running, Allowed, D!Authorized, D!Running,
         D!HasPermission
    <2>3. D!DirectoryInv' /\ IsFiniteSet(before'.users)
      BY <1>2, <1>3, <2>1, BeforeStaysWhole DEF SerialInv, setup
    <2>4. SerialInv'
      BY <1>2, <1>3, <2>1, <2>2, <2>3, OneInHand DEF Quiet
    <2>5. QED
      BY <1>3, <2>1, <2>4 DEF Mapped, D!vars, setup
  <1>4. ASSUME SerialNext, Quiet, Starts, UNCHANGED request
        PROVE  SerialInv' /\ Mapped
    <2>1. before' = Now' /\ D!Next /\ users' = users
      BY <1>2, <1>4, BootServed
    <2>2. IsFiniteSet(before'.users)
      BY <1>4, <2>1, NowFacts DEF SerialInv, Same
    <2>3. Same'
      BY <2>1, NowFacts DEF Same, SameGroups
    <2>4. D!DirectoryInv'
      BY <1>2, <1>4, <2>1, BeforeStaysWhole
    <2>5. \A r \in Requests : request'[r] = Idle
      BY <1>4 DEF Quiet
    <2>6. SerialInv'
      BY <1>2, <1>4, <2>2, <2>3, <2>4, <2>5 DEF SerialInv
    <2>7. QED
      BY <2>1, <2>6 DEF Mapped
  <1>5. ASSUME SerialNext, NEW r \in Requests, Handle(r) \/ Reply(r), UNCHANGED <<boot, skipping>>
        PROVE  SerialInv' /\ Mapped
    <2>1. request[r] # Idle
      BY <1>5, HandledIsBusy DEF SerialInv
    <2>2. WellServed(r)
      BY <1>2, <1>5, HandlerServed
    <2>3. \A o \in Requests : request[o] # Idle => o = r
      BY <2>1 DEF SerialInv
    <2>4. admin' = admin
      BY <2>2 DEF WellServed
    <2>5. ASSUME NEW n \in InHand, n.op = request[r].op, n.by = request[r].by,
                 request' = [request EXCEPT ![r] = n], before' = before, Progress(n)'
          PROVE  SerialInv' /\ Mapped
      <3>1. Running' /\ Allowed(n)'
        BY <1>5, <2>1, <2>5, Served DEF Running, Allowed, D!Authorized, D!Running, D!HasPermission
      <3>2. D!DirectoryInv' /\ IsFiniteSet(before'.users)
        BY <1>2, <1>5, <2>4, <2>5, BeforeStaysWhole DEF SerialInv
      <3>3. SerialInv'
        BY <1>2, <1>5, <2>3, <2>5, <3>1, <3>2, InHandFacts, OneInHand
      <3>4. QED
        BY <1>5, <2>4, <2>5, <3>3 DEF Mapped, D!vars
    <2>6. ASSUME request' = [request EXCEPT ![r] = Idle], before' = before, Same'
          PROVE  SerialInv' /\ Mapped
      <3>1. D!DirectoryInv' /\ IsFiniteSet(before'.users)
        BY <1>2, <1>5, <2>4, <2>6, BeforeStaysWhole DEF SerialInv
      <3>2. SerialInv'
        BY <1>2, <1>5, <2>3, <2>6, <3>1, OneInHand
      <3>3. QED
        BY <1>5, <2>4, <2>6, <3>2 DEF Mapped, D!vars
    <2>7. ASSUME request' = [request EXCEPT ![r] = Idle], before' = Now', D!Next, IsFiniteSet(users')
          PROVE  SerialInv' /\ Mapped
      <3>1. Same' /\ IsFiniteSet(before'.users)
        BY <2>7, NowFacts DEF Same, SameGroups
      <3>2. D!DirectoryInv'
        BY <1>2, <1>5, <2>7, BeforeStaysWhole
      <3>3. SerialInv'
        BY <1>2, <1>5, <2>3, <2>7, <3>1, <3>2, OneInHand
      <3>4. QED
        BY <2>7, <3>3 DEF Mapped
    <2>8. QED
      BY <2>2, <2>5, <2>6, <2>7 DEF WellServed
  <1>6. QED
    BY <1>1, <1>3, <1>4, <1>5 DEF SerialNext

(* Before the first boot the directory is empty, and so is what is left of it. *)
LEMMA SerialBegins == SerialInit => SerialInv /\ D!Init
  <1> SUFFICES ASSUME SerialInit
               PROVE  SerialInv /\ D!Init
    OBVIOUS
  <1>1. HandlersInv
    BY HandlersInitInv DEF SerialInit
  <1>2. before = Now
    BY DEF SerialInit
  <1>3. Same
    BY <1>2 DEF Now, Same, SameGroups
  <1>4. D!Init
    BY <1>2 DEF SerialInit, HandlersInit, Init, D!Init, Now, BootAt, D!BootAt, Silent, D!Silent
  <1>5. D!DirectoryInv
    BY <1>1, <1>2 DEF HandlersInv, Now, D!DirectoryInv, D!TypeOK, D!AdminGroupExists,
       D!NoMembersBeforeAdminGroup, D!BootGroupExists, D!NoDanglingRows, D!BootStates, D!Updates,
       D!Responses, DirectoryInv, TypeOK, AdminGroupExists, NoMembersBeforeAdminGroup,
       BootGroupExists, NoDanglingRows, BootStates, Updates, Responses
  <1>6. IsFiniteSet(before.users)
    BY <1>2, FS_EmptySet DEF Now, SerialInit, HandlersInit, Init
  <1>7. \A r \in Requests : request[r] = Idle
    BY DEF SerialInit, HandlersInit
  <1>8. QED
    BY <1>1, <1>3, <1>4, <1>5, <1>6, <1>7 DEF SerialInv

(* Between the statements of a handler the directory is what the whole      *)
(* requests before it left, and what this handler has written since.       *)
THEOREM HandlersProgress == SerialSpec => []SerialInv
  <1>1. SerialInit => SerialInv
    BY SerialBegins
  <1>2. SerialInv /\ [SerialNext]_<<steps, before>> => SerialInv'
    BY SerialStep
  <1>3. QED
    BY <1>1, <1>2, PTL DEF SerialSpec

(* The handlers, statement by statement, are Directory's actions: any       *)
(* sequence of whole requests and boot steps, refused and half-done ones    *)
(* included, is a behaviour of Directory, so what is proved there of an     *)
(* action holds of the code of its handler.                                 *)
THEOREM HandlersImplementDirectory == SerialSpec => ImplementsDirectory
  <1> DEFINE Step == D!vars' # D!vars /\ D!Next
  <1>1. SerialInit => D!Init
    BY SerialBegins
  <1>2. SerialInv /\ [SerialNext]_<<steps, before>> => [Step]_(D!vars)
    BY SerialStep DEF Mapped
  <1>3. QED
    BY <1>1, <1>2, HandlersProgress, PTL DEF SerialSpec, ImplementsDirectory

-----------------------------------------------------------------------------
(* What is proved of the actions of Directory, carried over to the requests *)
(* that the statements of their handlers add up to.                         *)

(* The theorems about Directory, of what the requests leave behind. *)
W == INSTANCE DirectoryProofs WITH
    users <- before.users, groups <- before.groups, name <- before.name,
    perms <- before.perms, members <- before.members, completed <- before.completed,
    sent <- before.sent, response <- before.response

(* D and W are one module in one substitution: their queries are the same, *)
LEMMA QueriesAreMapped ==
    /\ \A u, p : D!HasPermission(u, p) <=> W!HasPermission(u, p)
    /\ \A u : D!PermissionsOf(u) = W!PermissionsOf(u)
    /\ \A a, p : D!Authorized(a, p) <=> W!Authorized(a, p)
    /\ \A n : D!NameTaken(n) <=> W!NameTaken(n)
    /\ \A u : D!IsLastAdmin(u) <=> W!IsLastAdmin(u)
    /\ \A u, gs : D!WithGroups(u, gs) = W!WithGroups(u, gs)
    /\ \A u, names : D!SyncedGroups(u, names) = W!SyncedGroups(u, names)
    /\ \A a, ids : D!Grantable(a, ids) <=> W!Grantable(a, ids)
    /\ D!InitialUser <=> W!InitialUser
  <1>1. \A u, p : D!HasPermission(u, p) <=> W!HasPermission(u, p)
    BY DEF D!HasPermission, W!HasPermission
  <1>2. \A u : D!PermissionsOf(u) = W!PermissionsOf(u)
    BY <1>1 DEF D!PermissionsOf, W!PermissionsOf
  <1>3. \A a, p : D!Authorized(a, p) <=> W!Authorized(a, p)
    BY <1>1 DEF D!Authorized, W!Authorized, D!Running, W!Running
  <1>4. \A n : D!NameTaken(n) <=> W!NameTaken(n)
    BY DEF D!NameTaken, W!NameTaken
  <1>5. \A u : D!IsLastAdmin(u) <=> W!IsLastAdmin(u)
    BY DEF D!IsLastAdmin, W!IsLastAdmin
  <1>6. \A u, gs : D!WithGroups(u, gs) = W!WithGroups(u, gs)
    BY DEF D!WithGroups, W!WithGroups
  <1>7. \A u, names : D!SyncedGroups(u, names) = W!SyncedGroups(u, names)
    BY <1>5 DEF D!SyncedGroups, W!SyncedGroups
  <1>8. \A a, ids : D!Grantable(a, ids) <=> W!Grantable(a, ids)
    BY <1>2 DEF D!Grantable, W!Grantable
  <1>9. D!InitialUser <=> W!InitialUser
    BY DEF D!InitialUser, W!InitialUser
  <1>10. QED
    BY <1>1, <1>2, <1>3, <1>4, <1>5, <1>6, <1>7, <1>8, <1>9

(* and so is what they answer, *)
LEMMA AnswersAreMapped ==
    /\ \A a, ok, us : D!Answer(a, ok, us) <=> W!Answer(a, ok, us)
    /\ \A k, i : D!Broadcast(k, i) = W!Broadcast(k, i)
    /\ \A us : D!UserPermissions(us) = W!UserPermissions(us)
    /\ \A u : D!SyncMessages(u) = W!SyncMessages(u)
    /\ \A to, k, i : D!Update(to, k, i) = W!Update(to, k, i)
    /\ \A a : D!Ok(a) = W!Ok(a) /\ D!Error(a) = W!Error(a)
    /\ D!Silent = W!Silent
  BY DEF D!Answer, W!Answer, D!Broadcast, W!Broadcast, D!UserPermissions, W!UserPermissions,
     D!SyncMessages, W!SyncMessages, D!Update, W!Update, D!Ok, W!Ok, D!Error, W!Error, D!Silent,
     W!Silent

(* and their actions. *)
LEMMA ActionsAreMapped ==
    /\ D!Boot <=> W!Boot
    /\ D!Login <=> W!Login
    /\ \A a \in UserIds : D!Manages(a) <=> W!Manages(a)
  <1>1. D!Boot <=> W!Boot
    BY AnswersAreMapped DEF D!Boot, W!Boot, D!Starts, W!Starts, D!BootCreateGroup,
       W!BootCreateGroup, D!BootGrant, W!BootGrant, D!BootRecord, W!BootRecord, D!BootUpgrade,
       W!BootUpgrade, D!BootRename, W!BootRename, D!SkipSetup, W!SkipSetup, D!Crash, W!Crash,
       D!Running, W!Running, D!Creating, W!Creating, D!BootAt, W!BootAt, D!tables, W!tables,
       D!setup, W!setup
  <1>2. D!Login <=> W!Login
    <2> USE QueriesAreMapped, AnswersAreMapped
    <2>1. \A u : D!CompleteSetup(u) <=> W!CompleteSetup(u)
      BY DEF D!CompleteSetup, W!CompleteSetup, D!Running, W!Running
    <2>2. \A u, ns : D!OidcLoginSync(u, ns) <=> W!OidcLoginSync(u, ns)
      BY DEF D!OidcLoginSync, W!OidcLoginSync, D!Running, W!Running, D!setup, W!setup
    <2>3. \A u : D!OidcLoginPlain(u) <=> W!OidcLoginPlain(u)
      BY DEF D!OidcLoginPlain, W!OidcLoginPlain, D!Running, W!Running, D!tables, W!tables, D!setup,
         W!setup
    <2>4. \A u, ns, sync : D!OidcLoginCreate(u, ns, sync) <=> W!OidcLoginCreate(u, ns, sync)
      BY DEF D!OidcLoginCreate, W!OidcLoginCreate, D!Running, W!Running
    <2>5. \A u : D!OidcLoginCreateEarly(u) <=> W!OidcLoginCreateEarly(u)
      BY DEF D!OidcLoginCreateEarly, W!OidcLoginCreateEarly, D!Running, W!Running, D!setup, W!setup
    <2>6. QED
      BY <2>1, <2>2, <2>3, <2>4, <2>5 DEF D!Login, W!Login
  <1>3. ASSUME NEW a \in UserIds PROVE D!Manages(a) <=> W!Manages(a)
    <2> USE QueriesAreMapped, AnswersAreMapped
    <2>1. \A u, mailed : D!CreateUser(a, u, mailed) <=> W!CreateUser(a, u, mailed)
      BY DEF D!CreateUser, W!CreateUser, D!setup, W!setup
    <2>2. \A u : D!DeleteUser(a, u) <=> W!DeleteUser(a, u)
      BY DEF D!DeleteUser, W!DeleteUser, D!InAdminGroup, W!InAdminGroup, D!setup, W!setup
    <2>3. \A u, gs : D!EditUser(a, u, gs) <=> W!EditUser(a, u, gs)
      BY DEF D!EditUser, W!EditUser, D!Insertable, W!Insertable, D!setup, W!setup
    <2>4. \A g, n : D!CreateGroup(a, g, n) <=> W!CreateGroup(a, g, n)
      BY DEF D!CreateGroup, W!CreateGroup, D!setup, W!setup
    <2>5. \A g : D!DeleteGroup(a, g) <=> W!DeleteGroup(a, g)
      BY DEF D!DeleteGroup, W!DeleteGroup, D!Deletable, W!Deletable, D!setup, W!setup
    <2>6. ASSUME NEW g, NEW n, NEW ps, NEW us
          PROVE  D!EditGroup(a, g, n, ps, us) <=> W!EditGroup(a, g, n, ps, us)
      <3>1. /\ \A had : D!KeepsAdminGroup(g, had, ps, us) <=> W!KeepsAdminGroup(g, had, ps, us)
            /\ D!Insertable(us, before.users) <=> W!Insertable(us, before.users)
            /\ \A had, were : D!Notified(had, were, ps, us) = W!Notified(had, were, ps, us)
        BY DEF D!KeepsAdminGroup, W!KeepsAdminGroup, D!Insertable, W!Insertable, D!Notified,
           W!Notified
      <3>2. QED
        BY <3>1 DEF D!EditGroup, W!EditGroup, D!setup, W!setup
    <2>7. D!GroupLists = W!GroupLists /\ D!PermLists = W!PermLists /\ D!UserLists = W!UserLists
      BY DEF D!GroupLists, W!GroupLists, D!PermLists, W!PermLists, D!UserLists, W!UserLists,
         D!Lists, W!Lists
    <2>8. QED
      BY <2>1, <2>2, <2>3, <2>4, <2>5, <2>6, <2>7 DEF D!Manages, W!Manages
  <1>4. QED
    BY <1>1, <1>2, <1>3

(* A behaviour of the one is one of the other. *)
LEMMA DirectoryIsMapped ==
    /\ D!Init <=> W!Init
    /\ [D!vars' # D!vars /\ D!Next]_(D!vars) => [W!Next]_(W!vars)
  <1>1. D!Init <=> W!Init
    BY AnswersAreMapped DEF D!Init, W!Init, D!BootAt, W!BootAt
  <1>2. D!vars = W!vars /\ D!vars' = W!vars'
    BY DEF D!vars, W!vars
  <1>3. D!Next <=> W!Next
    BY ActionsAreMapped DEF D!Next, W!Next
  <1>4. QED
    BY <1>1, <1>2, <1>3

(* The same of what is said of their steps. *)
LEMMA PromisesAreMapped ==
    /\ [W!StepKeepsAMember]_(W!vars) => [D!StepKeepsAMember]_(D!vars)
    /\ [W!StepKeepsPermissions]_(W!vars) => [D!StepKeepsPermissions]_(D!vars)
    /\ [W!StepEscalatesNothing]_(W!vars) => [D!StepEscalatesNothing]_(D!vars)
    /\ [W!StepAnnouncesChanges]_(W!vars) => [D!StepAnnouncesChanges]_(D!vars)
  <1> USE DEF D!vars, W!vars, D!tables, W!tables, D!setup, W!setup
  <1>1. [W!StepKeepsAMember]_(W!vars) => [D!StepKeepsAMember]_(D!vars)
    BY DEF D!StepKeepsAMember, W!StepKeepsAMember, D!Answered, W!Answered
  <1>2. [W!StepKeepsPermissions]_(W!vars) => [D!StepKeepsPermissions]_(D!vars)
    BY DEF D!StepKeepsPermissions, W!StepKeepsPermissions, D!Answered, W!Answered
  <1>3. [W!StepEscalatesNothing]_(W!vars) => [D!StepEscalatesNothing]_(D!vars)
    BY DEF D!StepEscalatesNothing, W!StepEscalatesNothing, D!HasPermission, W!HasPermission
  <1>4. [W!StepAnnouncesChanges]_(W!vars) => [D!StepAnnouncesChanges]_(D!vars)
    BY DEF D!StepAnnouncesChanges, W!StepAnnouncesChanges, D!Answered, W!Answered,
           D!HasPermission, W!HasPermission, D!Announced, W!Announced, D!Update, W!Update,
           D!UserPermissions, W!UserPermissions, D!PermissionsOf, W!PermissionsOf
  <1>5. QED
    BY <1>1, <1>2, <1>3, <1>4

(* Handlers that do not overlap keep what Directory promises of a request:  *)
(* answered with Ok, it leaves the admin group a member and its             *)
(* permissions, and announces every change; answered or not, it gives       *)
(* nobody what its sender lacks; and whoever comes first is an admin        *)
(* (endpoints/group.rs:191-217, user/management.rs:218 and 275-286).        *)
THEOREM WholeRequestsKeepPromises ==
    SerialSpec => /\ D!AdminGroupKeepsAMember /\ D!AdminGroupKeepsPermissions
                  /\ D!NoEscalation /\ D!PermissionChangesAnnounced
                  /\ D!FirstUserIsAdmin /\ D!SetupYieldsAdmin
  <1>1. W!ConstantsOK
    BY ConstantsOK DEF ConstantsOK, W!ConstantsOK
  <1>2. W!Spec => /\ W!AdminGroupKeepsAMember /\ W!AdminGroupKeepsPermissions
                  /\ W!NoEscalation /\ W!PermissionChangesAnnounced
                  /\ W!FirstUserIsAdmin /\ W!SetupYieldsAdmin
    BY <1>1, W!AnsweredRequestsKeepAnAdmin, W!AnsweredRequestsKeepPermissions,
       W!RequestsEscalateNothing, W!ChangesAreAnnounced, W!FirstUsersAreAdmins,
       W!SetupsYieldAdmins, PTL
  <1>3. ImplementsDirectory => W!Spec
    BY DirectoryIsMapped, PTL DEF ImplementsDirectory, W!Spec
  <1>4. W!AdminGroupKeepsAMember => D!AdminGroupKeepsAMember
    BY PromisesAreMapped, PTL DEF W!AdminGroupKeepsAMember, D!AdminGroupKeepsAMember
  <1>5. W!AdminGroupKeepsPermissions => D!AdminGroupKeepsPermissions
    BY PromisesAreMapped, PTL DEF W!AdminGroupKeepsPermissions, D!AdminGroupKeepsPermissions
  <1>6. W!NoEscalation => D!NoEscalation
    BY PromisesAreMapped, PTL DEF W!NoEscalation, D!NoEscalation
  <1>7. W!PermissionChangesAnnounced => D!PermissionChangesAnnounced
    BY PromisesAreMapped, PTL DEF W!PermissionChangesAnnounced, D!PermissionChangesAnnounced
  <1>8. W!FirstUserIsAdmin => D!FirstUserIsAdmin
    BY PTL DEF W!FirstUserIsAdmin, D!FirstUserIsAdmin, W!vars, D!vars
  <1>9. W!SetupYieldsAdmin => D!SetupYieldsAdmin
    BY PTL DEF W!SetupYieldsAdmin, D!SetupYieldsAdmin, W!vars, D!vars, W!Answered, D!Answered
  <1>10. QED
    BY <1>2, <1>3, <1>4, <1>5, <1>6, <1>7, <1>8, <1>9, HandlersImplementDirectory, PTL
=============================================================================

-------------------------- MODULE DirectoryProofs --------------------------
(***************************************************************************)
(* Theorems about Directory, for every set of users, groups, names,        *)
(* permissions and releases.                                               *)
(***************************************************************************)
EXTENDS Directory, TLAPS

-----------------------------------------------------------------------------
(* The actions of Next, one disjunct each: every step proof splits here. *)

(* The alternatives of Next, one by one. *)
LEMMA NextCases ==
    ASSUME Next
    PROVE  \/ \E g \in GroupIds, n \in Names, r \in Releases : BootCreateGroup(g, n, r)
           \/ BootGrant
           \/ BootRecord
           \/ \E r \in Releases : BootUpgrade(r)
           \/ \E n \in Names : BootRename(n)
           \/ SkipSetup
           \/ Crash
           \/ \E u \in UserIds : CompleteSetup(u)
           \/ \E u \in UserIds, ns \in SUBSET Names : OidcLoginSync(u, ns)
           \/ \E u \in UserIds : OidcLoginPlain(u)
           \/ \E u \in UserIds, ns \in SUBSET Names, sync \in BOOLEAN : OidcLoginCreate(u, ns, sync)
           \/ \E u \in UserIds : OidcLoginCreateEarly(u)
           \/ \E a, u \in UserIds, mailed \in BOOLEAN : CreateUser(a, u, mailed)
           \/ \E a, u \in UserIds : DeleteUser(a, u)
           \/ \E a, u \in UserIds, gs \in GroupLists : EditUser(a, u, gs)
           \/ \E a \in UserIds, g \in GroupIds, n \in Names : CreateGroup(a, g, n)
           \/ \E a \in UserIds, g \in GroupIds : DeleteGroup(a, g)
           \/ \E a \in UserIds, g \in GroupIds, n \in Names, ps \in PermLists, us \in UserLists :
                EditGroup(a, g, n, ps, us)
  <1>1. CASE Boot
    BY <1>1 DEF Boot, Starts
  <1>2. CASE Login
    BY <1>2, Zenon DEF Login
  <1>3. ASSUME NEW a \in UserIds, Manages(a)
        PROVE  \/ \E u \in UserIds, mailed \in BOOLEAN : CreateUser(a, u, mailed)
               \/ \E u \in UserIds : DeleteUser(a, u)
               \/ \E u \in UserIds, gs \in GroupLists : EditUser(a, u, gs)
               \/ \E g \in GroupIds, n \in Names : CreateGroup(a, g, n)
               \/ \E g \in GroupIds : DeleteGroup(a, g)
               \/ \E g \in GroupIds, n \in Names, ps \in PermLists, us \in UserLists :
                    EditGroup(a, g, n, ps, us)
    BY <1>3, Zenon DEF Manages
  <1>4. QED
    BY <1>1, <1>2, <1>3, Zenon DEF Next

-----------------------------------------------------------------------------
(* Types *)

LEMMA ListElements ==
    ASSUME NEW S, NEW l \in Lists(S)
    PROVE  l.ids \in SUBSET S /\ l.repeats \in BOOLEAN
  BY DEF Lists

LEMMA WithGroupsType ==
    ASSUME NEW u \in UserIds, NEW gs, members \in [GroupIds -> SUBSET UserIds]
    PROVE  /\ WithGroups(u, gs) \in [GroupIds -> SUBSET UserIds]
           /\ \A g \in GroupIds : WithGroups(u, gs)[g] =
                IF g \in gs THEN members[g] \union {u} ELSE members[g] \ {u}
  BY DEF WithGroups

LEMMA SentType ==
    /\ \A u \in UserIds : Broadcast("user", u) \subseteq Updates
    /\ \A g \in GroupIds : Broadcast("group", g) \subseteq Updates
    /\ \A us \in SUBSET UserIds : UserPermissions(us) \subseteq Updates
    /\ \A u \in UserIds : SyncMessages(u) \subseteq Updates
    /\ \A u \in UserIds : Update(u, "user", u) \in Updates
  BY DEF Broadcast, UserPermissions, SyncMessages, Update, Updates

LEMMA ResponseType ==
    ASSUME NEW a \in UserIds \union {Nobody}
    PROVE  /\ Ok(a) \in Responses
           /\ Error(a) \in Responses
           /\ Silent \in Responses
  BY DEF Ok, Error, Silent, Responses

LEMMA AnswerType ==
    ASSUME NEW a \in UserIds, NEW ok, NEW updates \in SUBSET Updates, Answer(a, ok, updates)
    PROVE  /\ sent' \subseteq Updates
           /\ response' \in Responses
  BY ResponseType DEF Answer

LEMMA BootType ==
    /\ \A at \in {"down", "upgraded", "done"} : BootAt(at) \in BootStates
    /\ \A g \in GroupIds \union {NoGroup}, all \in SUBSET Perms :
         Creating("created", g, all) \in BootStates /\ Creating("granted", g, all) \in BootStates
  BY DEF BootAt, Creating, BootStates

LEMMA InitTypeOK == Init => TypeOK
  BY BootType, ResponseType DEF Init, TypeOK

(* Every action keeps the types. *)
LEMMA NextTypeOK ==
    ASSUME TypeOK, [Next]_vars
    PROVE  TypeOK'
  <1> USE ConstantsOK
  <1>1. ASSUME NEW g \in GroupIds, NEW n \in Names, NEW r \in Releases, BootCreateGroup(g, n, r)
        PROVE  TypeOK'
    BY <1>1, BootType, ResponseType DEF TypeOK, BootCreateGroup
  <1>2. CASE BootGrant
    <2>1. boot.group \in GroupIds \union {NoGroup} /\ boot.perms \in SUBSET Perms
      BY DEF TypeOK, BootStates
    <2>2. boot' \in BootStates
      BY <1>2, <2>1, BootType DEF BootGrant
    <2>3. perms' \in [GroupIds -> SUBSET Perms]
      BY <1>2, <2>1 DEF TypeOK, BootGrant
    <2>4. QED
      BY <1>2, <2>2, <2>3, ResponseType DEF TypeOK, BootGrant
  <1>3. CASE BootRecord
    BY <1>3, BootType, ResponseType DEF TypeOK, BootRecord, BootStates
  <1>4. ASSUME NEW r \in Releases, BootUpgrade(r)
        PROVE  TypeOK'
    BY <1>4, BootType, ResponseType DEF TypeOK, BootUpgrade
  <1>5. ASSUME NEW n \in Names, BootRename(n)
        PROVE  TypeOK'
    BY <1>5, BootType, ResponseType DEF TypeOK, BootRename
  <1>6. CASE SkipSetup
    BY <1>6, BootType, ResponseType DEF TypeOK, SkipSetup, tables
  <1>7. CASE Crash
    BY <1>7, BootType, ResponseType DEF TypeOK, Crash, tables, setup
  <1>8. ASSUME NEW u \in UserIds, CompleteSetup(u)
        PROVE  TypeOK'
    BY <1>8, ResponseType DEF TypeOK, CompleteSetup
  <1>9. ASSUME NEW u \in UserIds, NEW ns \in SUBSET Names, OidcLoginSync(u, ns)
        PROVE  TypeOK'
    BY <1>9, WithGroupsType, SentType, ResponseType DEF TypeOK, OidcLoginSync, setup
  <1>10. ASSUME NEW u \in UserIds, OidcLoginPlain(u)
         PROVE  TypeOK'
    BY <1>10, SentType, ResponseType DEF TypeOK, OidcLoginPlain, tables, setup
  <1>11. ASSUME NEW u \in UserIds, NEW ns \in SUBSET Names, NEW sync \in BOOLEAN,
                OidcLoginCreate(u, ns, sync)
         PROVE  TypeOK'
    <2>1. completed' \in BOOLEAN
      BY <1>11 DEF TypeOK, OidcLoginCreate
    <2>2. QED
      BY <1>11, <2>1, WithGroupsType, SentType, ResponseType DEF TypeOK, OidcLoginCreate
  <1>12. ASSUME NEW u \in UserIds, OidcLoginCreateEarly(u)
         PROVE  TypeOK'
    BY <1>12, ResponseType DEF TypeOK, OidcLoginCreateEarly, setup
  <1>13. ASSUME NEW a \in UserIds, NEW u \in UserIds, NEW mailed \in BOOLEAN,
                CreateUser(a, u, mailed)
         PROVE  TypeOK'
    BY <1>13, AnswerType, SentType DEF TypeOK, CreateUser, setup
  <1>14. ASSUME NEW a \in UserIds, NEW u \in UserIds, DeleteUser(a, u)
         PROVE  TypeOK'
    <2>1. sent' \subseteq Updates /\ response' \in Responses
      BY <1>14, AnswerType, SentType DEF DeleteUser
    <2>2. members' \in [GroupIds -> SUBSET UserIds]
      BY <1>14, WithGroupsType DEF TypeOK, DeleteUser
    <2>3. QED
      BY <1>14, <2>1, <2>2 DEF TypeOK, DeleteUser, setup
  <1>15. ASSUME NEW a \in UserIds, NEW u \in UserIds, NEW gs \in GroupLists, EditUser(a, u, gs)
         PROVE  TypeOK'
    BY <1>15, AnswerType, SentType, WithGroupsType DEF TypeOK, EditUser, setup
  <1>16. ASSUME NEW a \in UserIds, NEW g \in GroupIds, NEW n \in Names, CreateGroup(a, g, n)
         PROVE  TypeOK'
    BY <1>16, AnswerType, SentType DEF TypeOK, CreateGroup, setup
  <1>17. ASSUME NEW a \in UserIds, NEW g \in GroupIds, DeleteGroup(a, g)
         PROVE  TypeOK'
    <2>1. Broadcast("group", g) \union UserPermissions(members[g]) \subseteq Updates
      BY SentType DEF TypeOK
    <2>2. sent' \subseteq Updates /\ response' \in Responses
      BY <1>17, <2>1, AnswerType DEF DeleteGroup
    <2>3. QED
      BY <1>17, <2>2 DEF TypeOK, DeleteGroup, setup
  <1>18. ASSUME NEW a \in UserIds, NEW g \in GroupIds, NEW n \in Names,
                NEW ps \in PermLists, NEW us \in UserLists, EditGroup(a, g, n, ps, us)
         PROVE  TypeOK'
    <2>1. ps.ids \in SUBSET Perms /\ us.ids \in SUBSET UserIds
      BY ListElements DEF PermLists, UserLists
    <2>2. Notified(perms[g], members[g], ps, us) \in SUBSET UserIds
      BY <2>1 DEF Notified, TypeOK
    <2>3. Broadcast("group", g) \union UserPermissions(Notified(perms[g], members[g], ps, us))
            \subseteq Updates
      BY <2>2, SentType
    <2>4. sent' \subseteq Updates /\ response' \in Responses
      BY <1>18, <2>3, AnswerType DEF EditGroup
    <2>5. QED
      BY <1>18, <2>1, <2>4 DEF TypeOK, EditGroup, setup
  <1>19. CASE UNCHANGED vars
    BY <1>19 DEF TypeOK, vars
  <1>20. QED
    BY NextCases, <1>1, <1>2, <1>3, <1>4, <1>5, <1>6, <1>7, <1>8, <1>9, <1>10, <1>11, <1>12,
       <1>13, <1>14, <1>15, <1>16, <1>17, <1>18, <1>19, Zenon

(* Every variable keeps its type. *)
THEOREM TypeCorrect == Spec => []TypeOK
  <1>1. Init => TypeOK
    BY InitTypeOK
  <1>2. TypeOK /\ [Next]_vars => TypeOK'
    BY NextTypeOK
  <1>3. QED
    BY <1>1, <1>2, PTL DEF Spec

-----------------------------------------------------------------------------
(* The inductive invariant *)

(* The invariants on which the theorems rest, without the types. *)
Safe == AdminGroupExists /\ NoMembersBeforeAdminGroup /\ BootGroupExists /\ NoDanglingRows

(* Who sends an authenticated request is a member of some group, so the    *)
(* admin group is recorded.                                                *)
LEMMA Holder ==
    ASSUME TypeOK, Safe, NEW a \in UserIds, NEW p \in Perms, Authorized(a, p)
    PROVE  admin \in groups /\ admin \in GroupIds /\ a \in users
  BY ConstantsOK DEF Authorized, HasPermission, TypeOK, AdminGroupExists,
     NoMembersBeforeAdminGroup, BootGroupExists, NoDanglingRows, Safe

(* Rewriting the groups of one user, to groups that exist, keeps the       *)
(* foreign keys, when the user stays or gets no group.                     *)
LEMMA WithGroupsKeepsRows ==
    ASSUME TypeOK, NoDanglingRows,
           NEW u \in UserIds, NEW gs \in SUBSET groups,
           members' = WithGroups(u, gs),
           groups' = groups, perms' = perms,
           users \ {u} \subseteq users',
           gs = {} \/ u \in users'
    PROVE  NoDanglingRows'
  <1>1. members' \in [GroupIds -> SUBSET UserIds]
    BY WithGroupsType DEF TypeOK
  <1>2. ASSUME NEW g \in GroupIds
        PROVE  members'[g] = IF g \in gs THEN members[g] \union {u} ELSE members[g] \ {u}
    BY DEF WithGroups
  <1>3. ASSUME NEW g \in GroupIds
        PROVE  members'[g] \subseteq users'
    BY <1>2 DEF NoDanglingRows
  <1>4. ASSUME NEW g \in GroupIds \ groups'
        PROVE  members'[g] = {} /\ perms'[g] = {}
    BY <1>2 DEF NoDanglingRows
  <1>5. QED
    BY <1>3, <1>4 DEF NoDanglingRows

LEMMA SyncedGroupsExist ==
    ASSUME NEW u, NEW ns, admin \in groups
    PROVE  SyncedGroups(u, ns) \in SUBSET groups
  BY DEF SyncedGroups

(* Every action keeps Safe. *)
LEMMA NextSafe ==
    ASSUME TypeOK, Safe, [Next]_vars
    PROVE  Safe'
  <1> USE ConstantsOK DEF Safe
  <1>1. ASSUME NEW g \in GroupIds, NEW n \in Names, NEW r \in Releases, BootCreateGroup(g, n, r)
        PROVE  Safe'
    BY <1>1 DEF BootCreateGroup, Creating, TypeOK, AdminGroupExists, NoMembersBeforeAdminGroup,
       BootGroupExists, NoDanglingRows
  <1>2. CASE BootGrant
    BY <1>2 DEF BootGrant, Creating, TypeOK, AdminGroupExists, NoMembersBeforeAdminGroup,
       BootGroupExists, NoDanglingRows
  <1>3. CASE BootRecord
    BY <1>3 DEF BootRecord, BootAt, TypeOK, AdminGroupExists, NoMembersBeforeAdminGroup,
       BootGroupExists, NoDanglingRows
  <1>4. ASSUME NEW r \in Releases, BootUpgrade(r)
        PROVE  Safe'
    BY <1>4 DEF BootUpgrade, BootAt, TypeOK, AdminGroupExists, NoMembersBeforeAdminGroup,
       BootGroupExists, NoDanglingRows
  <1>5. ASSUME NEW n \in Names, BootRename(n)
        PROVE  Safe'
    BY <1>5 DEF BootRename, BootAt, TypeOK, AdminGroupExists, NoMembersBeforeAdminGroup,
       BootGroupExists, NoDanglingRows
  <1>6. CASE SkipSetup
    BY <1>6 DEF SkipSetup, tables, TypeOK, AdminGroupExists, NoMembersBeforeAdminGroup,
       BootGroupExists, NoDanglingRows
  <1>7. CASE Crash
    BY <1>7 DEF Crash, BootAt, tables, setup, TypeOK, AdminGroupExists, NoMembersBeforeAdminGroup,
       BootGroupExists, NoDanglingRows
  <1>8. ASSUME NEW u \in UserIds, CompleteSetup(u)
        PROVE  Safe'
    BY <1>8 DEF CompleteSetup, TypeOK, AdminGroupExists, NoMembersBeforeAdminGroup,
       BootGroupExists, NoDanglingRows
  <1>9. ASSUME NEW u \in UserIds, NEW ns \in SUBSET Names, OidcLoginSync(u, ns)
        PROVE  Safe'
    <2>1. admin \in groups
      BY <1>9 DEF OidcLoginSync, TypeOK, AdminGroupExists
    <2>2. NoDanglingRows'
      BY <1>9, <2>1, SyncedGroupsExist, WithGroupsKeepsRows DEF OidcLoginSync
    <2>3. QED
      BY <1>9, <2>1, <2>2 DEF OidcLoginSync, setup, Safe, AdminGroupExists,
         NoMembersBeforeAdminGroup, BootGroupExists
  <1>10. ASSUME NEW u \in UserIds, OidcLoginPlain(u)
        PROVE  Safe'
    BY <1>10, WithGroupsType DEF OidcLoginPlain, tables, setup, TypeOK, AdminGroupExists,
       NoMembersBeforeAdminGroup, BootGroupExists, NoDanglingRows
  <1>11. ASSUME NEW u \in UserIds, NEW ns \in SUBSET Names, NEW sync \in BOOLEAN, OidcLoginCreate(u, ns, sync)
        PROVE  Safe'
    <2> DEFINE gs == (IF sync THEN SyncedGroups(u, ns) ELSE {})
                       \union (IF InitialUser THEN {admin} ELSE {})
    <2>1. admin \in groups
      BY <1>11 DEF OidcLoginCreate, TypeOK, AdminGroupExists
    <2>2. gs \in SUBSET groups
      BY <2>1, SyncedGroupsExist
    <2>3. /\ members' = WithGroups(u, gs)
          /\ users' = users \union {u}
          /\ UNCHANGED <<groups, perms, admin, boot>>
      BY <1>11 DEF OidcLoginCreate
    <2> HIDE DEF gs
    <2>4. NoDanglingRows'
      BY <2>2, <2>3, WithGroupsKeepsRows
    <2>5. QED
      BY <2>1, <2>3, <2>4 DEF TypeOK, AdminGroupExists, NoMembersBeforeAdminGroup, BootGroupExists
  <1>12. ASSUME NEW u \in UserIds, OidcLoginCreateEarly(u)
        PROVE  Safe'
    BY <1>12, WithGroupsType DEF OidcLoginCreateEarly, setup, TypeOK, AdminGroupExists,
       NoMembersBeforeAdminGroup, BootGroupExists, NoDanglingRows
  <1>13. ASSUME NEW a \in UserIds, NEW u \in UserIds, NEW mailed \in BOOLEAN, CreateUser(a, u, mailed)
        PROVE  Safe'
    BY <1>13, WithGroupsType, Holder DEF CreateUser, setup, TypeOK, AdminGroupExists,
       NoMembersBeforeAdminGroup, BootGroupExists, NoDanglingRows
  <1>14. ASSUME NEW a \in UserIds, NEW u \in UserIds, DeleteUser(a, u)
        PROVE  Safe'
    <2>1. admin \in groups
      BY <1>14, Holder DEF DeleteUser
    <2>2. NoDanglingRows'
      BY <1>14, WithGroupsKeepsRows DEF DeleteUser
    <2>3. QED
      BY <1>14, <2>1, <2>2 DEF DeleteUser, setup, Safe, AdminGroupExists,
         NoMembersBeforeAdminGroup, BootGroupExists
  <1>15. ASSUME NEW a \in UserIds, NEW u \in UserIds, NEW gs \in GroupLists, EditUser(a, u, gs)
        PROVE  Safe'
    <2> DEFINE ids == IF Insertable(gs, groups) THEN gs.ids ELSE {}
    <2>1. admin \in groups
      BY <1>15, Holder DEF EditUser
    <2>2. ids \in SUBSET groups
      BY DEF Insertable
    <2>3. /\ members' = WithGroups(u, ids)
          /\ u \in users
          /\ UNCHANGED <<users, groups, perms, admin, boot>>
      BY <1>15 DEF EditUser, setup
    <2> HIDE DEF ids
    <2>4. NoDanglingRows'
      BY <2>2, <2>3, WithGroupsKeepsRows
    <2>5. QED
      BY <2>1, <2>3, <2>4 DEF TypeOK, AdminGroupExists, NoMembersBeforeAdminGroup, BootGroupExists
  <1>16. ASSUME NEW a \in UserIds, NEW g \in GroupIds, NEW n \in Names, CreateGroup(a, g, n)
        PROVE  Safe'
    BY <1>16, Holder DEF CreateGroup, setup, TypeOK, AdminGroupExists, NoMembersBeforeAdminGroup,
       BootGroupExists, NoDanglingRows
  <1>17. ASSUME NEW a \in UserIds, NEW g \in GroupIds, DeleteGroup(a, g)
        PROVE  Safe'
    <2>1. admin \in groups /\ admin \in GroupIds
      BY <1>17, Holder DEF DeleteGroup
    <2>2. admin \in groups' /\ admin' = admin /\ boot' = boot
      BY <1>17, <2>1 DEF DeleteGroup, Deletable, setup
    <2>3. NoDanglingRows'
      BY <1>17 DEF DeleteGroup, TypeOK, NoDanglingRows
    <2>4. QED
      BY <2>1, <2>2, <2>3 DEF AdminGroupExists, NoMembersBeforeAdminGroup, BootGroupExists
  <1>18. ASSUME NEW a \in UserIds, NEW g \in GroupIds, NEW n \in Names,
                NEW ps \in PermLists, NEW us \in UserLists, EditGroup(a, g, n, ps, us)
        PROVE  Safe'
    BY <1>18, ListElements, Holder DEF EditGroup, setup, UserLists, Insertable, TypeOK,
       AdminGroupExists, NoMembersBeforeAdminGroup, BootGroupExists, NoDanglingRows
  <1>19. CASE UNCHANGED vars
    BY <1>19 DEF vars, TypeOK, AdminGroupExists, NoMembersBeforeAdminGroup, BootGroupExists,
       NoDanglingRows
  <1>20. QED
    BY NextCases, <1>1, <1>2, <1>3, <1>4, <1>5, <1>6, <1>7, <1>8, <1>9, <1>10, <1>11, <1>12,
       <1>13, <1>14, <1>15, <1>16, <1>17, <1>18, <1>19, Zenon

(* A server begins with an empty database. *)
LEMMA InitDirectoryInv == Init => DirectoryInv
  BY InitTypeOK DEF Init, BootAt, DirectoryInv, AdminGroupExists, NoMembersBeforeAdminGroup,
                    BootGroupExists, NoDanglingRows

LEMMA NextDirectoryInv == DirectoryInv /\ [Next]_vars => DirectoryInv'
  BY NextTypeOK, NextSafe DEF DirectoryInv, Safe

(* The typing and the four parts of Safe hold in every reachable state: by  *)
(* the two lemmas, one step of any handler keeps them.                      *)
THEOREM DirectoryInvariant == Spec => []DirectoryInv
  BY InitDirectoryInv, NextDirectoryInv, PTL DEF Spec

(* The recorded admin group is never deleted, in an installation of any    *)
(* size and after any number of crashes during create_admin_group.         *)
THEOREM AdminGroupAlwaysExists == Spec => []AdminGroupExists
  <1>1. DirectoryInv => AdminGroupExists
    BY DEF DirectoryInv
  <1>2. QED
    BY <1>1, DirectoryInvariant, PTL

(* A group that a dying boot leaves behind, with every permission, has     *)
(* nobody in it: nobody is in any group before the admin group is recorded.*)
THEOREM NobodyBeforeAdminGroup == Spec => []NoMembersBeforeAdminGroup
  <1>1. DirectoryInv => NoMembersBeforeAdminGroup
    BY DEF DirectoryInv
  <1>2. QED
    BY <1>1, DirectoryInvariant, PTL

(* Who has a permission has a row: what Permission::check relies on.       *)
THEOREM HoldersAreUsers == Spec => []PermissionImpliesUser
  <1>1. DirectoryInv => PermissionImpliesUser
    BY DEF DirectoryInv, TypeOK, NoDanglingRows, PermissionImpliesUser, HasPermission
  <1>2. QED
    BY <1>1, DirectoryInvariant, PTL

-----------------------------------------------------------------------------
(* What one step may never do, from DirectoryInv.  A step is the boot's, a *)
(* login's or a management request's; the first lemmas say what each kind  *)
(* leaves alone.                                                           *)

(* Boot steps answer nobody, logins answer without authentication. *)

LEMMA BootIsSilent ==
    ASSUME Boot
    PROVE  response' = Silent
  <1>1. ASSUME NEW g, NEW n, NEW r, BootCreateGroup(g, n, r)
        PROVE  response' = Silent
    BY <1>1 DEF BootCreateGroup
  <1>2. ASSUME NEW r, BootUpgrade(r)
        PROVE  response' = Silent
    BY <1>2 DEF BootUpgrade
  <1>3. ASSUME NEW n, BootRename(n)
        PROVE  response' = Silent
    BY <1>3 DEF BootRename
  <1>4. ASSUME BootGrant \/ BootRecord \/ SkipSetup \/ Crash
        PROVE  response' = Silent
    BY <1>4, Zenon DEF BootGrant, BootRecord, SkipSetup, Crash
  <1>5. QED
    BY <1>1, <1>2, <1>3, <1>4, Zenon DEF Boot, Starts

LEMMA LoginIsAnonymous ==
    ASSUME Login
    PROVE  response'.to = Nobody
  <1>1. ASSUME NEW u, CompleteSetup(u) \/ OidcLoginPlain(u) \/ OidcLoginCreateEarly(u)
        PROVE  response'.to = Nobody
    BY <1>1 DEF CompleteSetup, OidcLoginPlain, OidcLoginCreateEarly, Ok, Error
  <1>2. ASSUME NEW u, NEW ns, OidcLoginSync(u, ns)
        PROVE  response'.to = Nobody
    BY <1>2 DEF OidcLoginSync, Ok
  <1>3. ASSUME NEW u, NEW ns, NEW sync, OidcLoginCreate(u, ns, sync)
        PROVE  response'.to = Nobody
    BY <1>3 DEF OidcLoginCreate, Ok
  <1>4. QED
    BY <1>1, <1>2, <1>3, Zenon DEF Login

LEMMA AnswerIsTo ==
    ASSUME NEW a, NEW ok \in BOOLEAN, NEW updates, Answer(a, ok, updates)
    PROVE  /\ response'.to = a
           /\ response'.status = "ok" => ok /\ sent' = updates
  BY DEF Answer, Ok, Error

LEMMA SilentIsNoAnswer ==
    /\ Silent.to = Nobody
    /\ Silent.status # "ok"
  BY DEF Silent

(* The groups of one user are written: nobody else gains or loses anything. *)
LEMMA OthersKeepPermissions ==
    ASSUME TypeOK, NEW u \in UserIds, NEW gs, members' = WithGroups(u, gs),
           groups' = groups, perms' = perms,
           NEW v \in UserIds, v # u
    PROVE  /\ \A p \in Perms : HasPermission(v, p)' <=> HasPermission(v, p)
           /\ PermissionsOf(v)' = PermissionsOf(v)
  <1>1. ASSUME NEW g \in GroupIds
        PROVE  v \in members'[g] <=> v \in members[g]
    BY DEF WithGroups
  <1>2. ASSUME NEW p \in Perms
        PROVE  HasPermission(v, p)' <=> HasPermission(v, p)
    BY <1>1 DEF HasPermission, TypeOK
  <1>3. QED
    BY <1>2 DEF PermissionsOf

(* None of the tables that carry permissions changes. *)
LEMMA SamePermissions ==
    ASSUME UNCHANGED <<groups, perms, members>>
    PROVE  /\ \A v \in UserIds, p \in Perms : HasPermission(v, p)' <=> HasPermission(v, p)
           /\ \A v \in UserIds : PermissionsOf(v)' = PermissionsOf(v)
  BY DEF HasPermission, PermissionsOf

-----------------------------------------------------------------------------
(* The admin group keeps a member *)

(* Who is not the last admin leaves another behind. *)
LEMMA LastAdminStays ==
    ASSUME TypeOK, NEW u \in UserIds, NEW gs, members' = WithGroups(u, gs),
           admin \in GroupIds, IsLastAdmin(u) => admin \in gs, members[admin] # {}
    PROVE  members'[admin] # {}
  <1>1. members'[admin] = IF admin \in gs THEN members[admin] \union {u}
                                          ELSE members[admin] \ {u}
    BY DEF WithGroups
  <1>2. CASE admin \in gs
    BY <1>1, <1>2
  <1>3. CASE admin \notin gs
    BY <1>1, <1>3 DEF IsLastAdmin
  <1>4. QED
    BY <1>2, <1>3

(* No answered action empties the admin group. *)
LEMMA NextKeepsAMember ==
    ASSUME DirectoryInv, [Next]_vars
    PROVE  StepKeepsAMember
  <1> SUFFICES ASSUME Answered, admin # NoGroup, members[admin] # {}
               PROVE  members'[admin] # {}
    BY DEF StepKeepsAMember
  <1> USE ConstantsOK
  <1>0. TypeOK /\ Safe /\ admin \in GroupIds
    BY DEF DirectoryInv, Safe, TypeOK
  <1>1. CASE Boot
    BY <1>1, BootIsSilent, SilentIsNoAnswer DEF Answered
  <1>2. ASSUME NEW u \in UserIds, CompleteSetup(u)
        PROVE  members'[admin] # {}
    BY <1>0, <1>2 DEF CompleteSetup, TypeOK
  <1>3. ASSUME NEW u \in UserIds, NEW ns \in SUBSET Names, OidcLoginSync(u, ns)
        PROVE  members'[admin] # {}
    BY <1>0, <1>3, LastAdminStays DEF OidcLoginSync, SyncedGroups
  <1>4. ASSUME NEW u \in UserIds, OidcLoginPlain(u) \/ OidcLoginCreateEarly(u)
        PROVE  members'[admin] # {}
    BY <1>4 DEF OidcLoginPlain, OidcLoginCreateEarly, tables
  <1>5. ASSUME NEW u \in UserIds, NEW ns \in SUBSET Names, NEW sync \in BOOLEAN,
               OidcLoginCreate(u, ns, sync)
        PROVE  members'[admin] # {}
    (* The user is new, so it is not the last admin. *)
    <2>1. ~IsLastAdmin(u)
      BY <1>0, <1>5 DEF OidcLoginCreate, IsLastAdmin, Safe, NoDanglingRows
    <2>2. QED
      BY <1>0, <1>5, <2>1, LastAdminStays DEF OidcLoginCreate
  <1>6. ASSUME NEW a \in UserIds, NEW u \in UserIds, NEW mailed \in BOOLEAN,
               CreateUser(a, u, mailed)
        PROVE  members'[admin] # {}
    BY <1>6 DEF CreateUser
  <1>7. ASSUME NEW a \in UserIds, NEW u \in UserIds, DeleteUser(a, u)
        PROVE  members'[admin] # {}
    BY <1>0, <1>7, LastAdminStays DEF DeleteUser
  <1>8. ASSUME NEW a \in UserIds, NEW u \in UserIds, NEW gs \in GroupLists, EditUser(a, u, gs)
        PROVE  members'[admin] # {}
    <2>1. Insertable(gs, groups)
      BY <1>8, AnswerIsTo DEF EditUser, Answered, Insertable, GroupLists, Lists
    <2>2. members' = WithGroups(u, gs.ids) /\ (IsLastAdmin(u) => admin \in gs.ids)
      BY <1>8, <2>1 DEF EditUser
    <2>3. QED
      BY <1>0, <2>2, LastAdminStays
  <1>9. ASSUME NEW a \in UserIds, NEW g \in GroupIds, NEW n \in Names, CreateGroup(a, g, n)
        PROVE  members'[admin] # {}
    BY <1>9 DEF CreateGroup
  <1>10. ASSUME NEW a \in UserIds, NEW g \in GroupIds, DeleteGroup(a, g)
         PROVE  members'[admin] # {}
    BY <1>0, <1>10 DEF DeleteGroup, Deletable, TypeOK
  <1>11. ASSUME NEW a \in UserIds, NEW g \in GroupIds, NEW n \in Names,
                NEW ps \in PermLists, NEW us \in UserLists, EditGroup(a, g, n, ps, us)
         PROVE  members'[admin] # {}
    <2>1. ~ps.repeats /\ Insertable(us, users)
      BY <1>11, AnswerIsTo DEF EditGroup, Answered, Insertable, PermLists, UserLists, Lists
    <2>2. members' = [members EXCEPT ![g] = us.ids] /\ (g = admin => us.ids # {})
      BY <1>11, <2>1 DEF EditGroup, KeepsAdminGroup
    <2>3. QED
      BY <1>0, <2>2 DEF TypeOK
  <1>12. CASE UNCHANGED vars
    BY <1>12 DEF vars
  <1>13. QED
    BY NextCases, <1>1, <1>2, <1>3, <1>4, <1>5, <1>6, <1>7, <1>8, <1>9, <1>10, <1>11, <1>12,
       Zenon DEF Boot, Starts

(* No answered request empties the admin group: with requests that do not  *)
(* overlap, an installation that has an administrator keeps one.           *)
THEOREM AnsweredRequestsKeepAnAdmin == Spec => AdminGroupKeepsAMember
  <1>1. DirectoryInv /\ [Next]_vars => [StepKeepsAMember]_vars
    BY NextKeepsAMember
  <1>2. QED
    BY <1>1, DirectoryInvariant, PTL DEF Spec, AdminGroupKeepsAMember

-----------------------------------------------------------------------------
(* Nobody gains a permission from someone who does not have it *)

(* No action gives out what its sender lacks. *)
LEMMA NextEscalatesNothing ==
    ASSUME DirectoryInv, [Next]_vars
    PROVE  StepEscalatesNothing
  <1> SUFFICES ASSUME NEW v \in UserIds, NEW p \in Perms,
                      HasPermission(v, p)', ~HasPermission(v, p),
                      response'.to \in UserIds
               PROVE  HasPermission(response'.to, p)
    BY DEF StepEscalatesNothing
  <1> USE ConstantsOK
  <1>0. TypeOK /\ Safe
    BY DEF DirectoryInv, Safe
  <1>1. CASE Boot
    BY <1>1, BootIsSilent, SilentIsNoAnswer
  <1>2. CASE Login
    BY <1>2, LoginIsAnonymous
  <1>3. ASSUME NEW a \in UserIds, NEW u \in UserIds, NEW mailed \in BOOLEAN,
               CreateUser(a, u, mailed)
        PROVE  FALSE
    BY <1>3, SamePermissions DEF CreateUser
  <1>4. ASSUME NEW a \in UserIds, NEW u \in UserIds, DeleteUser(a, u)
        PROVE  FALSE
    (* Nobody else is touched, and u loses all its groups. *)
    <2>1. members' = WithGroups(u, {}) /\ groups' = groups /\ perms' = perms
      BY <1>4 DEF DeleteUser
    <2>2. v = u
      BY <1>0, <2>1, OthersKeepPermissions
    <2>3. QED
      BY <1>0, <2>1, <2>2 DEF WithGroups, HasPermission, TypeOK
  <1>5. ASSUME NEW a \in UserIds, NEW u \in UserIds, NEW gs \in GroupLists, EditUser(a, u, gs)
        PROVE  HasPermission(response'.to, p)
    <2> DEFINE ids == IF Insertable(gs, groups) THEN gs.ids ELSE {}
    <2>1. members' = WithGroups(u, ids) /\ groups' = groups /\ perms' = perms
      BY <1>5 DEF EditUser
    <2>2. v = u
      BY <1>0, <2>1, OthersKeepPermissions
    <2>3. PICK g \in groups : u \in members'[g] /\ p \in perms[g]
      BY <2>1, <2>2 DEF HasPermission
    <2>4. u \in members[g] \/ g \in ids
      BY <1>0, <2>1, <2>3 DEF WithGroups, TypeOK
    <2>5. g \in gs.ids
      BY <2>2, <2>3, <2>4 DEF HasPermission
    <2>6. HasPermission(a, p)
      BY <1>5, <2>3, <2>5 DEF EditUser, Grantable, PermissionsOf
    <2>7. response'.to = a
      BY <1>5, AnswerIsTo DEF EditUser, Insertable, GroupLists, Lists
    <2>8. QED
      BY <2>6, <2>7
  <1>6. ASSUME NEW a \in UserIds, NEW g \in GroupIds, NEW n \in Names, CreateGroup(a, g, n)
        PROVE  FALSE
    BY <1>0, <1>6 DEF CreateGroup, HasPermission, Safe, NoDanglingRows
  <1>7. ASSUME NEW a \in UserIds, NEW g \in GroupIds, DeleteGroup(a, g)
        PROVE  FALSE
    BY <1>0, <1>7 DEF DeleteGroup, HasPermission, TypeOK
  <1>8. ASSUME NEW a \in UserIds, NEW g \in GroupIds, NEW n \in Names,
               NEW ps \in PermLists, NEW us \in UserLists, EditGroup(a, g, n, ps, us)
        PROVE  HasPermission(response'.to, p)
    <2>1. p \in perms'[g]
      BY <1>0, <1>8 DEF EditGroup, HasPermission, TypeOK
    <2>2. p \in ps.ids
      BY <1>0, <1>8, <2>1 DEF EditGroup, TypeOK
    <2>3. HasPermission(a, p)
      BY <1>8, <2>2 DEF EditGroup, PermissionsOf
    <2>4. response'.to = a
      BY <1>8, AnswerIsTo DEF EditGroup, Insertable, PermLists, UserLists, Lists
    <2>5. QED
      BY <2>3, <2>4
  <1>9. CASE UNCHANGED vars
    BY <1>9, SamePermissions DEF vars
  <1>10. QED
    BY <1>1, <1>2, <1>3, <1>4, <1>5, <1>6, <1>7, <1>8, <1>9, Zenon DEF Next, Manages

(* However groups are composed and edited, a management request hands on   *)
(* only permissions its sender has.                                        *)
THEOREM RequestsEscalateNothing == Spec => NoEscalation
  <1>1. DirectoryInv /\ [Next]_vars => [StepEscalatesNothing]_vars
    BY NextEscalatesNothing
  <1>2. QED
    BY <1>1, DirectoryInvariant, PTL DEF Spec, NoEscalation

-----------------------------------------------------------------------------
(* Whoever's permissions change is told *)

(* Every answered action tells whose permissions it changes. *)
LEMMA NextAnnouncesChanges ==
    ASSUME DirectoryInv, [Next]_vars
    PROVE  StepAnnouncesChanges
  <1> SUFFICES ASSUME NEW v \in users \intersect users',
                      Answered, PermissionsOf(v)' # PermissionsOf(v)
               PROVE  Announced(v, sent')
    BY DEF StepAnnouncesChanges
  <1> USE ConstantsOK
  <1>0. TypeOK /\ Safe /\ v \in UserIds
    BY DEF DirectoryInv, Safe, TypeOK
  <1>1. CASE Boot
    BY <1>1, BootIsSilent, SilentIsNoAnswer DEF Answered
  <1>2. ASSUME NEW u \in UserIds, CompleteSetup(u)
        PROVE  FALSE
    <2>1. v # u
      BY <1>2 DEF CompleteSetup
    <2>2. \A g \in GroupIds : v \in members'[g] <=> v \in members[g]
      BY <1>0, <1>2, <2>1 DEF CompleteSetup, TypeOK
    <2>3. QED
      BY <1>0, <1>2, <2>2 DEF CompleteSetup, PermissionsOf, HasPermission, TypeOK
  <1>3. ASSUME NEW u \in UserIds, NEW ns \in SUBSET Names, OidcLoginSync(u, ns)
        PROVE  Announced(v, sent')
    <2>1. v = u
      BY <1>0, <1>3, OthersKeepPermissions DEF OidcLoginSync
    <2>2. QED
      BY <1>3, <2>1 DEF OidcLoginSync, SyncMessages, Announced
  <1>4. ASSUME NEW u \in UserIds, OidcLoginPlain(u) \/ OidcLoginCreateEarly(u)
        PROVE  FALSE
    BY <1>0, <1>4, SamePermissions DEF OidcLoginPlain, OidcLoginCreateEarly, tables
  <1>5. ASSUME NEW u \in UserIds, NEW ns \in SUBSET Names, NEW sync \in BOOLEAN,
               OidcLoginCreate(u, ns, sync)
        PROVE  FALSE
    BY <1>0, <1>5, OthersKeepPermissions DEF OidcLoginCreate
  <1>6. ASSUME NEW a \in UserIds, NEW u \in UserIds, NEW mailed \in BOOLEAN,
               CreateUser(a, u, mailed)
        PROVE  FALSE
    BY <1>0, <1>6, SamePermissions DEF CreateUser
  <1>7. ASSUME NEW a \in UserIds, NEW u \in UserIds, DeleteUser(a, u)
        PROVE  FALSE
    BY <1>0, <1>7, OthersKeepPermissions DEF DeleteUser
  <1>8. ASSUME NEW a \in UserIds, NEW u \in UserIds, NEW gs \in GroupLists, EditUser(a, u, gs)
        PROVE  Announced(v, sent')
    <2>1. v = u
      BY <1>0, <1>8, OthersKeepPermissions DEF EditUser
    <2>2. Insertable(gs, groups) \in BOOLEAN
      BY DEF Insertable, GroupLists, Lists
    <2>3. sent' = Broadcast("user", u)
      BY <1>8, <2>2, AnswerIsTo DEF EditUser, Answered
    <2>4. QED
      BY <2>1, <2>3 DEF Broadcast, Announced
  <1>9. ASSUME NEW a \in UserIds, NEW g \in GroupIds, NEW n \in Names, CreateGroup(a, g, n)
        PROVE  FALSE
    <2>1. \A p \in Perms : HasPermission(v, p)' <=> HasPermission(v, p)
      BY <1>0, <1>9 DEF CreateGroup, HasPermission, Safe, NoDanglingRows
    <2>2. QED
      BY <2>1 DEF PermissionsOf
  <1>10. ASSUME NEW a \in UserIds, NEW g \in GroupIds, DeleteGroup(a, g)
         PROVE  Announced(v, sent')
    <2>1. CASE v \in members[g]
      <3>1. sent' = Broadcast("group", g) \union UserPermissions(members[g])
        BY <1>10, AnswerIsTo DEF DeleteGroup, Answered
      <3>2. QED
        BY <2>1, <3>1 DEF UserPermissions, Announced
    <2>2. CASE v \notin members[g]
      <3>1. \A p \in Perms : HasPermission(v, p)' <=> HasPermission(v, p)
        BY <1>0, <1>10, <2>2 DEF DeleteGroup, HasPermission, TypeOK
      <3>2. QED
        BY <3>1 DEF PermissionsOf
    <2>3. QED
      BY <2>1, <2>2
  <1>11. ASSUME NEW a \in UserIds, NEW g \in GroupIds, NEW n \in Names,
                NEW ps \in PermLists, NEW us \in UserLists, EditGroup(a, g, n, ps, us)
         PROVE  Announced(v, sent')
    <2> DEFINE toTell == Notified(perms[g], members[g], ps, us)
    <2>1. ~ps.repeats /\ Insertable(us, users)
      BY <1>11, AnswerIsTo DEF EditGroup, Answered, Insertable, PermLists, UserLists, Lists
    <2>2. /\ sent' = Broadcast("group", g) \union UserPermissions(toTell)
          /\ perms' = [perms EXCEPT ![g] = ps.ids]
          /\ members' = [members EXCEPT ![g] = us.ids]
          /\ groups' = groups
      BY <1>11, <2>1, AnswerIsTo DEF EditGroup, Answered, Insertable, PermLists, UserLists, Lists
    <2>3. CASE v \in toTell
      BY <2>2, <2>3 DEF UserPermissions, Announced
    <2>4. CASE v \notin toTell
      <3>1. \/ v \notin members[g] /\ v \notin us.ids
            \/ perms[g] = ps.ids /\ (v \in members[g] <=> v \in us.ids)
        BY <2>4 DEF Notified
      <3>2. \A p \in Perms : HasPermission(v, p)' <=> HasPermission(v, p)
        BY <1>0, <2>2, <3>1 DEF HasPermission, TypeOK
      <3>3. QED
        BY <3>2 DEF PermissionsOf
    <2>5. QED
      BY <2>3, <2>4
  <1>12. CASE UNCHANGED vars
    BY <1>0, <1>12, SamePermissions DEF vars
  <1>13. QED
    BY NextCases, <1>1, <1>2, <1>3, <1>4, <1>5, <1>6, <1>7, <1>8, <1>9, <1>10, <1>11, <1>12,
       Zenon DEF Boot, Starts

(* No handler forgets a user whose permissions it changed.                 *)
THEOREM ChangesAreAnnounced == Spec => PermissionChangesAnnounced
  <1>1. DirectoryInv /\ [Next]_vars => [StepAnnouncesChanges]_vars
    BY NextAnnouncesChanges
  <1>2. QED
    BY <1>1, DirectoryInvariant, PTL DEF Spec, PermissionChangesAnnounced
-----------------------------------------------------------------------------
(* The admin group keeps its permissions *)

(* No answered action takes a permission from the admin group. *)
LEMMA NextKeepsPermissions ==
    ASSUME DirectoryInv, [Next]_vars
    PROVE  StepKeepsPermissions
  <1> SUFFICES ASSUME Answered, admin # NoGroup
               PROVE  perms[admin] \subseteq perms'[admin]
    BY DEF StepKeepsPermissions
  <1>0. TypeOK /\ admin \in GroupIds
    BY DEF DirectoryInv, TypeOK
  <1>1. CASE Boot
    BY <1>1, BootIsSilent, SilentIsNoAnswer DEF Answered
  <1>2. CASE UNCHANGED perms
    BY <1>2
  <1>3. ASSUME NEW a \in UserIds, NEW g \in GroupIds, DeleteGroup(a, g)
        PROVE  perms[admin] \subseteq perms'[admin]
    BY <1>0, <1>3 DEF DeleteGroup, Deletable, TypeOK
  <1>4. ASSUME NEW a \in UserIds, NEW g \in GroupIds, NEW n \in Names,
               NEW ps \in PermLists, NEW us \in UserLists, EditGroup(a, g, n, ps, us)
        PROVE  perms[admin] \subseteq perms'[admin]
    <2>1. ~ps.repeats
      BY <1>4, AnswerIsTo DEF EditGroup, Answered, Insertable, PermLists, UserLists, Lists
    <2>2. perms' = [perms EXCEPT ![g] = ps.ids] /\ (g = admin => perms[g] \subseteq ps.ids)
      BY <1>4, <2>1 DEF EditGroup, KeepsAdminGroup
    <2>3. QED
      BY <1>0, <2>2 DEF TypeOK
  <1>5. \/ Boot \/ UNCHANGED perms
        \/ \E a \in UserIds, g \in GroupIds : DeleteGroup(a, g)
        \/ \E a \in UserIds, g \in GroupIds, n \in Names, ps \in PermLists, us \in UserLists :
             EditGroup(a, g, n, ps, us)
    BY NextCases DEF Boot, Starts, CompleteSetup, OidcLoginSync, OidcLoginPlain, OidcLoginCreate,
       OidcLoginCreateEarly, CreateUser, DeleteUser, EditUser, CreateGroup, tables, vars
  <1>6. QED
    BY <1>1, <1>2, <1>3, <1>4, <1>5, Zenon

(* No answered request takes a permission from the admin group: its        *)
(* members can do tomorrow what they can do today.                         *)
THEOREM AnsweredRequestsKeepPermissions == Spec => AdminGroupKeepsPermissions
  <1>1. DirectoryInv /\ [Next]_vars => [StepKeepsPermissions]_vars
    BY NextKeepsPermissions
  <1>2. QED
    BY <1>1, DirectoryInvariant, PTL DEF Spec, AdminGroupKeepsPermissions

-----------------------------------------------------------------------------
(* The first user is an admin, and the setup ends with one *)

(* Whoever may do anything is a row. *)
LEMMA ManagersAreUsers ==
    ASSUME DirectoryInv, NEW a, NEW p, Authorized(a, p)
    PROVE  users # {}
  BY DEF DirectoryInv, TypeOK, NoDanglingRows, Authorized, HasPermission

(* What a step that makes a user does, and one that ends the setup. *)
StepMakesAdmins ==
    /\ users = {} /\ users' # {} /\ admin # NoGroup => users' \subseteq members'[admin]
    /\ Answered /\ ~completed /\ completed' => admin # NoGroup /\ members'[admin] # {}

(* Whatever makes the first user, or ends the setup, makes an admin. *)
LEMMA NextMakesAdmins ==
    ASSUME DirectoryInv, [Next]_vars
    PROVE  StepMakesAdmins
  <1>0. TypeOK
    BY DEF DirectoryInv
  <1>1. ASSUME NEW u \in UserIds, CompleteSetup(u)
        PROVE  StepMakesAdmins
    <2>1. /\ admin \in GroupIds /\ users' = users \union {u} /\ admin # NoGroup
          /\ members' = [members EXCEPT ![admin] = members[admin] \union {u}]
      BY <1>0, <1>1 DEF CompleteSetup, TypeOK
    <2>2. u \in members'[admin]
      BY <1>0, <2>1 DEF TypeOK
    <2>3. QED
      BY <2>1, <2>2 DEF StepMakesAdmins
  <1>2. ASSUME NEW u \in UserIds, NEW ns \in SUBSET Names, NEW sync \in BOOLEAN,
               OidcLoginCreate(u, ns, sync)
        PROVE  StepMakesAdmins
    <2>1. admin \in GroupIds /\ users' = users \union {u} /\ admin # NoGroup
      BY <1>0, <1>2 DEF OidcLoginCreate, TypeOK
    <2>2. InitialUser => u \in members'[admin]
      <3>1. PICK synced : members' = WithGroups(u, synced \union (IF InitialUser THEN {admin} ELSE {}))
        BY <1>2 DEF OidcLoginCreate
      <3>2. QED
        BY <2>1, <3>1 DEF WithGroups
    <2>3. (users = {} => InitialUser) /\ (~completed /\ completed' => InitialUser)
      BY <1>2 DEF InitialUser
    <2>4. QED
      BY <2>1, <2>2, <2>3 DEF StepMakesAdmins
  <1>3. ASSUME NEW u \in UserIds, OidcLoginCreateEarly(u)
        PROVE  StepMakesAdmins
    BY <1>3 DEF OidcLoginCreateEarly, setup, StepMakesAdmins
  <1>4. CASE Boot
    <2>1. response' = Silent /\ users' = users
      BY <1>4, BootIsSilent DEF Boot, Starts, BootCreateGroup, BootGrant, BootRecord, BootUpgrade,
         BootRename, SkipSetup, Crash, tables
    <2>2. QED
      BY <2>1, SilentIsNoAnswer DEF Answered, StepMakesAdmins
  <1>5. ASSUME NEW a \in UserIds, NEW u \in UserIds, NEW mailed \in BOOLEAN, CreateUser(a, u, mailed)
        PROVE  StepMakesAdmins
    <2>1. users # {} /\ UNCHANGED completed
      BY <1>5, ManagersAreUsers DEF CreateUser, setup
    <2>2. QED
      BY <2>1 DEF StepMakesAdmins
  <1>6. CASE UNCHANGED completed /\ users' \subseteq users
    BY <1>6 DEF StepMakesAdmins
  <1>7. ASSUME NEW u \in UserIds, NEW ns \in SUBSET Names, OidcLoginSync(u, ns)
        PROVE  StepMakesAdmins
    BY <1>6, <1>7 DEF OidcLoginSync, setup
  <1>8. ASSUME NEW u \in UserIds, OidcLoginPlain(u)
        PROVE  StepMakesAdmins
    BY <1>6, <1>8 DEF OidcLoginPlain, tables, setup
  <1>9. ASSUME NEW a \in UserIds, NEW u \in UserIds, DeleteUser(a, u)
        PROVE  StepMakesAdmins
    BY <1>6, <1>9 DEF DeleteUser, setup
  <1>10. ASSUME NEW a \in UserIds, NEW u \in UserIds, NEW gs \in GroupLists, EditUser(a, u, gs)
         PROVE  StepMakesAdmins
    BY <1>6, <1>10 DEF EditUser, setup
  <1>11. ASSUME NEW a \in UserIds, NEW g \in GroupIds, NEW n \in Names, CreateGroup(a, g, n)
         PROVE  StepMakesAdmins
    BY <1>6, <1>11 DEF CreateGroup, setup
  <1>12. ASSUME NEW a \in UserIds, NEW g \in GroupIds, DeleteGroup(a, g)
         PROVE  StepMakesAdmins
    BY <1>6, <1>12 DEF DeleteGroup, setup
  <1>13. ASSUME NEW a \in UserIds, NEW g \in GroupIds, NEW n \in Names,
                NEW ps \in PermLists, NEW us \in UserLists, EditGroup(a, g, n, ps, us)
         PROVE  StepMakesAdmins
    BY <1>6, <1>13 DEF EditGroup, setup
  <1>14. CASE UNCHANGED vars
    BY <1>6, <1>14 DEF vars
  <1>15. QED
    BY NextCases, <1>1, <1>2, <1>3, <1>4, <1>5, <1>7, <1>8, <1>9, <1>10, <1>11, <1>12, <1>13,
       <1>14, Zenon DEF Boot, Starts

(* The first user of an empty directory is an admin, by whatever way it    *)
(* comes: no management request can make it, for lack of a manager.        *)
THEOREM FirstUsersAreAdmins == Spec => FirstUserIsAdmin
  <1>1. DirectoryInv /\ [Next]_vars
        => [users = {} /\ users' # {} /\ admin # NoGroup => users' \subseteq members'[admin]]_vars
    BY NextMakesAdmins DEF StepMakesAdmins
  <1>2. QED
    BY <1>1, DirectoryInvariant, PTL DEF Spec, FirstUserIsAdmin

(* A request that ends the setup leaves an admin.                          *)
THEOREM SetupsYieldAdmins == Spec => SetupYieldsAdmin
  <1>1. DirectoryInv /\ [Next]_vars
        => [Answered /\ ~completed /\ completed' => admin # NoGroup /\ members'[admin] # {}]_vars
    BY NextMakesAdmins DEF StepMakesAdmins
  <1>2. QED
    BY <1>1, DirectoryInvariant, PTL DEF Spec, SetupYieldsAdmin
=============================================================================

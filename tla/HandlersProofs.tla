--------------------------- MODULE HandlersProofs ---------------------------
(***************************************************************************)
(* Theorems about Handlers, for any number of requests at once, and for    *)
(* every set of operations, users, groups, names, permissions, releases.   *)
(***************************************************************************)
EXTENDS Handlers, DirectoryProofs

-----------------------------------------------------------------------------
(* What a request may be while its handler is at work. *)

SetupRequests ==
    [op : {"complete_setup"}, at : {"start", "create", "join", "mark", "answer"},
     by : {Nobody}, user : UserIds]

LoginRequests ==
    [op : {"oidc_callback"},
     at : {"start", "create", "sync", "claims", "last", "clear", "insert", "initial", "count",
           "promote", "join", "mark", "answer"},
     by : {Nobody}, user : UserIds, names : SUBSET Names, sync : BOOLEAN, new : BOOLEAN,
     claimed : SUBSET GroupIds]

CreateUserRequests ==
    [op : {"create_user"}, at : {"start", "insert", "mail", "answer"}, by : UserIds,
     user : UserIds, mailed : BOOLEAN]

DeleteUserRequests ==
    [op : {"delete_user"}, at : {"start", "target", "sender", "delete", "answer"}, by : UserIds,
     user : UserIds]

EditUserRequests ==
    [op : {"edit_user"},
     at : {"start", "groups", "target", "last", "row", "clear", "insert", "answer"},
     by : UserIds, user : UserIds, gs : GroupLists, had : SUBSET Perms]

CreateGroupRequests ==
    {q \in [op : {"create_group"}, at : {"start", "insert", "answer"}, by : UserIds,
            group : GroupIds \union {NoGroup}, name : Names] :
       q.at = "answer" => q.group \in GroupIds}

DeleteGroupRequests ==
    [op : {"delete_group"}, at : {"start", "members", "delete", "answer"}, by : UserIds,
     group : GroupIds, were : SUBSET UserIds]

EditGroupRequests ==
    [op : {"edit_group"},
     at : {"start", "info", "rights", "members", "name", "clear_perms", "clear_users",
           "insert_perms", "insert_users", "answer"},
     by : UserIds, group : GroupIds, name : Names, ps : PermLists, us : UserLists,
     had : SUBSET Perms, were : SUBSET UserIds]

InHand ==
    UNION {SetupRequests, LoginRequests, CreateUserRequests, DeleteUserRequests, EditUserRequests,
           CreateGroupRequests, DeleteGroupRequests, EditGroupRequests}

(* What a handler at this await relies on: who may send a request is in a  *)
(* group, so the admin group is recorded and stays so; memberships are     *)
(* inserted only then, and the setup is marked after somebody was in it.   *)
Pending(q) ==
    /\ q.by # Nobody => admin # NoGroup
    /\ q.op = "delete_group" /\ q.at # "start" => q.group # admin
    /\ q.op \in {"complete_setup", "oidc_callback"} =>
         /\ q.at \in {"join", "clear", "insert"} => admin # NoGroup
         /\ q.at = "mark" => manned

(* DirectoryInv holds at every await, because of what is pending. *)
HandlersInv ==
    /\ DirectoryInv
    /\ manned \in BOOLEAN
    /\ admin # NoGroup /\ members[admin] # {} => manned
    /\ request \in [Requests -> {Idle} \union InHand]
    /\ \A r \in Requests : request[r] # Idle => Pending(request[r])

-----------------------------------------------------------------------------
(* Requests begin well formed. *)
LEMMA CallsInHand ==
    ASSUME NEW op, NEW q \in Calls(op),
           op \in {"complete_setup", "oidc_callback", "create_user", "delete_user", "edit_user",
                   "create_group", "delete_group", "edit_group"}
    PROVE  q \in InHand /\ q.at = "start" /\ q.op = op
  <1>1. CASE op = "complete_setup"
    BY <1>1 DEF Calls, InHand, SetupRequests
  <1>2. CASE op = "oidc_callback"
    BY <1>2 DEF Calls, InHand, LoginRequests
  <1>3. CASE op = "create_user"
    BY <1>3 DEF Calls, InHand, CreateUserRequests
  <1>4. CASE op = "delete_user"
    BY <1>4 DEF Calls, InHand, DeleteUserRequests
  <1>5. CASE op = "edit_user"
    BY <1>5 DEF Calls, InHand, EditUserRequests
  <1>6. CASE op = "create_group"
    BY <1>6 DEF Calls, InHand, CreateGroupRequests
  <1>7. CASE op = "delete_group"
    BY <1>7 DEF Calls, InHand, DeleteGroupRequests
  <1>8. CASE op = "edit_group"
    BY <1>8 DEF Calls, InHand, EditGroupRequests
  <1>9. QED
    BY <1>1, <1>2, <1>3, <1>4, <1>5, <1>6, <1>7, <1>8

(* What a request in hand holds, whatever it asks for. *)
LEMMA InHandFacts ==
    ASSUME NEW q \in InHand
    PROVE  /\ q # Idle
           /\ q.by \in UserIds \union {Nobody}
           /\ q.op = "complete_setup" => q \in SetupRequests
           /\ q.op = "oidc_callback" => q \in LoginRequests
           /\ q.op = "create_user" => q \in CreateUserRequests
           /\ q.op = "delete_user" => q \in DeleteUserRequests
           /\ q.op = "edit_user" => q \in EditUserRequests
           /\ q.op = "create_group" => q \in CreateGroupRequests
           /\ q.op = "delete_group" => q \in DeleteGroupRequests
           /\ q.op = "edit_group" => q \in EditGroupRequests
  <1> DEFINE Facts == q.op # "none" /\ q.by \in UserIds \union {Nobody}
  <1>1. CASE q \in SetupRequests
    BY <1>1 DEF SetupRequests, Idle
  <1>2. CASE q \in LoginRequests
    BY <1>2 DEF LoginRequests, Idle
  <1>3. CASE q \in CreateUserRequests
    BY <1>3 DEF CreateUserRequests, Idle
  <1>4. CASE q \in DeleteUserRequests
    BY <1>4 DEF DeleteUserRequests, Idle
  <1>5. CASE q \in EditUserRequests
    BY <1>5 DEF EditUserRequests, Idle
  <1>6. CASE q \in CreateGroupRequests
    BY <1>6 DEF CreateGroupRequests, Idle
  <1>7. CASE q \in DeleteGroupRequests
    BY <1>7 DEF DeleteGroupRequests, Idle
  <1>8. CASE q \in EditGroupRequests
    BY <1>8 DEF EditGroupRequests, Idle
  <1>9. QED
    BY <1>1, <1>2, <1>3, <1>4, <1>5, <1>6, <1>7, <1>8 DEF InHand

(* The handler of r is in a request for op. *)
LEMMA AtFacts ==
    ASSUME HandlersInv, NEW r \in Requests, NEW op, NEW from, At(r, op, from), op # "none"
    PROVE  /\ request[r] \in InHand /\ request[r] # Idle /\ Pending(request[r])
           /\ request[r].op = op /\ request[r].at = from
  BY DEF HandlersInv, At, Idle

(* A step of r that leaves a request in hand, and the directory whole.     *)
LEMMA RequestMoves ==
    ASSUME HandlersInv, Remembers, DirectoryInv', admin' = admin,
           NEW r \in Requests, NEW q, request' = [request EXCEPT ![r] = q],
           q = Idle \/ (q \in InHand /\ Pending(q)')
    PROVE  HandlersInv'
  <1>1. manned \in BOOLEAN /\ manned' \in BOOLEAN /\ (manned => manned')
    BY DEF HandlersInv, Remembers
  <1>2. admin' # NoGroup /\ members'[admin'] # {} => manned'
    BY DEF Remembers
  <1>3. request' \in [Requests -> {Idle} \union InHand]
    BY DEF HandlersInv
  <1>4. ASSUME NEW o \in Requests, (request[o] # Idle)'
        PROVE  Pending(request[o])'
    <2>1. CASE o = r
      <3>1. request'[o] = q
        BY <2>1 DEF HandlersInv
      <3>2. QED
        BY <1>4, <3>1 DEF Pending
    <2>2. CASE o # r
      <3>1. request'[o] = request[o] /\ Pending(request[o])
        BY <1>4, <2>2 DEF HandlersInv
      <3>2. QED
        BY <1>1, <3>1 DEF Pending
    <2>3. QED
      BY <2>1, <2>2
  <1>5. QED
    BY <1>1, <1>2, <1>3, <1>4 DEF HandlersInv

(* What a handler waits to write stays sound when users and groups only    *)
(* change as another handler may change them.                              *)
LEMMA PendingStays ==
    ASSUME HandlersInv, Remembers, admin' = admin, NEW q, Pending(q)
    PROVE  Pending(q)'
  BY DEF HandlersInv, Remembers, Pending

(* A step that writes nothing keeps the directory. *)
LEMMA NothingWritten ==
    ASSUME HandlersInv, UNCHANGED <<tables, setup>>, UNCHANGED <<boot, skipping>>,
           sent' \subseteq Updates, response' \in Responses
    PROVE  DirectoryInv' /\ admin' = admin
  BY DEF HandlersInv, DirectoryInv, tables, setup, TypeOK, AdminGroupExists,
     NoMembersBeforeAdminGroup,
     BootGroupExists, NoDanglingRows

(* A step that tells and answers nothing leaves both variables typed. *)
LEMMA SilentlyTyped ==
    ASSUME Silently
    PROVE  sent' \subseteq Updates /\ response' \in Responses
  BY ResponseType DEF Silently

(* A query, a read, a failure: the steps of a handler that write nothing.  *)
LEMMA ReadsSafe ==
    ASSUME HandlersInv, Remembers, UNCHANGED <<boot, skipping>>, NEW r \in Requests, NEW q,
           Reads(r, q), q = Idle \/ (q \in InHand /\ Pending(q))
    PROVE  HandlersInv'
  <1>1. DirectoryInv' /\ admin' = admin /\ request' = [request EXCEPT ![r] = q]
    BY NothingWritten, SilentlyTyped DEF Reads
  <1>2. QED
    BY <1>1, PendingStays, RequestMoves

(* A query that decides is a read of the handler, or its refusal. *)
LEMMA ChecksRead ==
    ASSUME NEW r, NEW holds, NEW to, Checks(r, holds, to)
    PROVE  \/ holds /\ Reads(r, [request[r] EXCEPT !.at = to])
           \/ Reads(r, Idle)
  BY DEF Checks, Reads, Goes, Ends

(* A query that decides leaves the tables alone. *)
LEMMA ChecksSafe ==
    ASSUME HandlersInv, Remembers, UNCHANGED <<boot, skipping>>, NEW r \in Requests, NEW holds,
           NEW to, Checks(r, holds, to), NEW q, q = [request[r] EXCEPT !.at = to],
           holds => q \in InHand /\ Pending(q)
    PROVE  HandlersInv'
  BY ChecksRead, ReadsSafe

(* A statement that fails ends the handler and leaves what it wrote. *)
LEMMA FailsSafe ==
    ASSUME HandlersInv, Remembers, UNCHANGED <<boot, skipping>>, NEW r \in Requests, Fails(r),
           request[r] \in InHand
    PROVE  HandlersInv'
  <1>1. sent' \subseteq Updates /\ response' \in Responses
    BY InHandFacts, ResponseType DEF Fails
  <1>2. DirectoryInv' /\ admin' = admin /\ request' = [request EXCEPT ![r] = Idle]
    BY <1>1, NothingWritten DEF Fails, Ends
  <1>3. QED
    BY <1>2, RequestMoves

-----------------------------------------------------------------------------
(* The writes. *)

(* What a write may do, to keep the directory: rows of types that fit, no  *)
(* dangling ones, members only where there is an admin group, and the      *)
(* groups that are recorded or being created stay.                         *)
LEMMA WrittenWell ==
    ASSUME HandlersInv, UNCHANGED <<admin, boot, skipping>>, Silently, completed' \in BOOLEAN,
           users' \subseteq UserIds, groups' \subseteq GroupIds,
           name' \in [GroupIds -> Names \union {NoName}], perms' \in [GroupIds -> SUBSET Perms],
           members' \in [GroupIds -> SUBSET UserIds], NoDanglingRows',
           admin = NoGroup => members' = members /\ groups \subseteq groups',
           admin # NoGroup => admin \in groups'
    PROVE  DirectoryInv'
  <1> USE DEF HandlersInv, DirectoryInv
  <1>1. TypeOK'
    BY SilentlyTyped DEF TypeOK
  <1>2. AdminGroupExists' /\ NoMembersBeforeAdminGroup' /\ BootGroupExists'
    BY DEF AdminGroupExists, NoMembersBeforeAdminGroup, BootGroupExists
  <1>3. QED
    BY <1>1, <1>2

(* An inserted user is in no group yet. *)
LEMMA CreateRowSafe ==
    ASSUME HandlersInv, Remembers, UNCHANGED <<boot, skipping>>, NEW r \in Requests, NEW u \in UserIds,
           NEW to, CreateRow(r, u, to), NEW q, q = [request[r] EXCEPT !.at = to],
           q \in InHand /\ Pending(q)
    PROVE  HandlersInv'
  <1>1. CASE u \in users /\ Checks(r, FALSE, to)
    BY <1>1, ChecksSafe
  <1>2. CASE ~(u \in users /\ Checks(r, FALSE, to))
    <2>1. /\ users' = users \union {u} /\ request' = [request EXCEPT ![r] = q]
          /\ Silently /\ UNCHANGED <<groups, name, perms, members, admin, completed>>
      BY <1>2 DEF CreateRow, Goes, setup
    <2>2. NoDanglingRows'
      BY <2>1 DEF HandlersInv, DirectoryInv, NoDanglingRows
    <2>3. DirectoryInv'
      BY <2>1, <2>2, WrittenWell DEF HandlersInv, DirectoryInv, TypeOK, AdminGroupExists
    <2>4. QED
      BY <2>1, <2>3, PendingStays, RequestMoves
  <1>3. QED
    BY <1>1, <1>2

(* Memberships are inserted under the foreign keys of migration 4, so      *)
(* both ends of each are rows whatever was deleted since the handler       *)
(* looked.                                                                 *)
LEMMA InsertsSafe ==
    ASSUME HandlersInv, Remembers, UNCHANGED <<boot, skipping>>, NEW r \in Requests, NEW fits,
           NEW gs \in SUBSET GroupIds, NEW us \in SUBSET UserIds, NEW to, Inserts(r, fits, gs, us, to),
           NEW q, q = [request[r] EXCEPT !.at = to], request[r] \in InHand, admin # NoGroup,
           q \in InHand, Pending(q)'
    PROVE  HandlersInv'
  <1>1. CASE Fails(r)
    BY <1>1, FailsSafe
  <1>2. CASE ~Fails(r)
    <2>1. /\ gs = {} \/ us = {} \/ Fits(gs, us)
          /\ members' = WithMembers(gs, us) /\ request' = [request EXCEPT ![r] = q]
          /\ Silently /\ UNCHANGED <<users, groups, name, perms, admin, completed>>
      BY <1>2 DEF Inserts, Goes, setup
    <2>2. members' \in [GroupIds -> SUBSET UserIds]
      BY <2>1 DEF WithMembers, HandlersInv, DirectoryInv, TypeOK
    <2>3. NoDanglingRows'
      BY <2>1 DEF WithMembers, Fits, HandlersInv, DirectoryInv, NoDanglingRows
    <2>4. DirectoryInv'
      BY <2>1, <2>2, <2>3, WrittenWell DEF HandlersInv, DirectoryInv, TypeOK, AdminGroupExists
    <2>5. QED
      BY <2>1, <2>4, RequestMoves
  <1>3. QED
    BY <1>1, <1>2

(* Who joins the admin group mans it. *)
LEMMA JoinSafe ==
    ASSUME HandlersInv, Remembers, UNCHANGED <<boot, skipping>>, NEW r \in Requests,
           NEW u \in UserIds, Join(r, u), admin # NoGroup, request[r] \in InHand,
           NEW q, q = [request[r] EXCEPT !.at = "mark"], q \in InHand, q.by = Nobody,
           q.op \in {"complete_setup", "oidc_callback"}
    PROVE  HandlersInv'
  <1>1. CASE Fails(r)
    BY <1>1, FailsSafe
  <1>2. CASE ~Fails(r)
    <2>1. admin \in GroupIds
      BY DEF HandlersInv, DirectoryInv, TypeOK
    <2>2. /\ members' = WithMembers({admin}, {u}) /\ admin' = admin
          /\ Inserts(r, TRUE, {admin}, {u}, "mark")
      BY <1>2 DEF Join, Inserts, SetupPath, setup
    <2>3. members'[admin'] # {}
      BY <2>1, <2>2 DEF WithMembers
    <2>4. Pending(q)'
      <3>1. manned'
        BY <2>2, <2>3 DEF Remembers
      <3>2. q.at = "mark"
        BY InHandFacts DEF SetupRequests, LoginRequests
      <3>3. QED
        BY <3>1, <3>2 DEF Pending
    <2>5. QED
      BY <2>1, <2>2, <2>4, InsertsSafe
  <1>3. QED
    BY <1>1, <1>2

(* The first half of a rewrite of a user's groups, and of a deletion. *)
LEMMA ClearsSafe ==
    ASSUME HandlersInv, Remembers, UNCHANGED <<boot, skipping>>, NEW r \in Requests, NEW u \in UserIds,
           NEW to, Goes(r, to), Silently, members' = WithGroups(u, {}), users' \in {users, users \ {u}},
           UNCHANGED <<groups, name, perms, setup>>, admin # NoGroup,
           NEW q, q = [request[r] EXCEPT !.at = to], q \in InHand, Pending(q)
    PROVE  HandlersInv'
  <1>1. request' = [request EXCEPT ![r] = q]
    BY DEF Goes
  <1>2. members' \in [GroupIds -> SUBSET UserIds]
    BY WithGroupsType DEF HandlersInv, DirectoryInv, TypeOK
  <1>3. NoDanglingRows'
    BY WithGroupsKeepsRows DEF HandlersInv, DirectoryInv
  <1>4. DirectoryInv'
    BY <1>2, <1>3, WrittenWell DEF HandlersInv, DirectoryInv, TypeOK, AdminGroupExists, setup
  <1>5. QED
    BY <1>1, <1>4, PendingStays, RequestMoves DEF setup

(* The setup is marked complete. *)
LEMMA MarkSafe ==
    ASSUME HandlersInv, Remembers, UNCHANGED <<boot, skipping>>, NEW r \in Requests, MarkCompleted(r),
           NEW q, q = [request[r] EXCEPT !.at = SetupPath.mark], q \in InHand, Pending(q)
    PROVE  HandlersInv'
  <1>1. /\ request' = [request EXCEPT ![r] = q] /\ completed' = TRUE
        /\ Silently /\ UNCHANGED <<users, groups, name, perms, members, admin>>
    BY DEF MarkCompleted, Goes, tables
  <1>2. NoDanglingRows'
    BY <1>1 DEF HandlersInv, DirectoryInv, NoDanglingRows
  <1>3. DirectoryInv'
    BY <1>1, <1>2, WrittenWell DEF HandlersInv, DirectoryInv, TypeOK, AdminGroupExists
  <1>4. QED
    BY <1>1, <1>3, PendingStays, RequestMoves

-----------------------------------------------------------------------------
(* The handlers, one await at a time. *)

(* A request arrives; it has read nothing yet. *)
LEMMA BeginsSafe ==
    ASSUME HandlersInv, Remembers, UNCHANGED <<boot, skipping>>, NEW r \in Requests, Arrives(r)
    PROVE  HandlersInv'
  <1>0. PICK op \in Operations[r] : \E q \in Calls(op) : Begins(r, q)
    BY DEF Arrives
  <1>1. PICK q \in Calls(op) : Begins(r, q)
    BY <1>0
  <1>2. q \in InHand /\ q.at = "start"
    BY <1>1, OperationsOK, CallsInHand
  <1>3. q.by # Nobody => admin # NoGroup
    <2>1. Needs(q.op) \in Perms
      BY ConstantsOK DEF Needs
    <2>2. q.by # Nobody => Authorized(q.by, Needs(q.op)) /\ q.by \in UserIds
      BY <1>1, <1>2, InHandFacts DEF Begins
    <2>3. QED
      BY <2>1, <2>2, Holder, ConstantsOK DEF HandlersInv, DirectoryInv, Safe
  <1>4. Pending(q)
    BY <1>2, <1>3 DEF Pending
  <1>5. Reads(r, q)
    BY <1>1 DEF Begins, Reads
  <1>6. QED
    BY <1>2, <1>4, <1>5, ReadsSafe

(* complete_setup: the admin group it reads is never deleted. *)
LEMMA CompleteSetupSafe ==
    ASSUME HandlersInv, Remembers, UNCHANGED <<boot, skipping>>, NEW r \in Requests, CompleteSetupStep(r)
    PROVE  HandlersInv'
  <1> DEFINE q == request[r]
  <1>0. /\ q \in SetupRequests /\ q \in InHand /\ q.op = "complete_setup" /\ q.by = Nobody
        /\ \A to \in {"start", "create", "join", "mark", "answer"} :
             LET n == [q EXCEPT !.at = to]
             IN  n \in InHand /\ n.op = "complete_setup" /\ n.at = to /\ n.by = Nobody
    <2>1. q \in SetupRequests /\ q \in InHand /\ q.op = "complete_setup"
      BY AtFacts, InHandFacts DEF CompleteSetupStep
    <2>2. \A to \in {"start", "create", "join", "mark", "answer"} : [q EXCEPT !.at = to] \in SetupRequests
      BY <2>1 DEF SetupRequests
    <2>3. QED
      BY <2>1, <2>2 DEF SetupRequests, InHand
  <1>1. Pending(q)
    BY AtFacts DEF CompleteSetupStep
  <1> HIDE DEF q
  <1>2. CASE At(r, "complete_setup", "start") /\ Checks(r, ~completed, "create")
    BY <1>0, <1>2, ChecksSafe DEF Pending, q
  <1>3. CASE At(r, "complete_setup", "create") /\ Checks(r, FALSE, "row")
    BY <1>3, ChecksSafe
  <1>4. CASE admin # NoGroup /\ CreateRow(r, q.user, SetupPath.row)
    <2>1. SetupPath.row = "join" /\ q.user \in UserIds
      BY <1>0 DEF SetupPath, SetupRequests
    <2>2. Pending([q EXCEPT !.at = "join"])
      BY <1>0, <1>4 DEF Pending
    <2>3. QED
      BY <1>0, <1>4, <2>1, <2>2, CreateRowSafe DEF q
  <1>5. CASE At(r, "complete_setup", "join") /\ Join(r, q.user)
    <2>1. SetupPath.join = "mark" /\ q.user \in UserIds /\ admin # NoGroup
      BY <1>0, <1>1, <1>5 DEF SetupPath, SetupRequests, Pending, At, q
    <2>2. QED
      BY <1>0, <1>5, <2>1, JoinSafe DEF q
  <1>6. CASE At(r, "complete_setup", "mark") /\ MarkCompleted(r)
    <2>1. SetupPath.mark = "answer" /\ Pending([q EXCEPT !.at = "answer"])
      BY <1>0 DEF SetupPath, Pending
    <2>2. QED
      BY <1>0, <1>6, <2>1, MarkSafe DEF q
  <1>7. QED
    BY <1>2, <1>3, <1>4, <1>5, <1>6 DEF CompleteSetupStep, q

(* The sync of groups in check_code, from the claims to the inserts. *)
LEMMA SyncSafe ==
    ASSUME HandlersInv, Remembers, UNCHANGED <<boot, skipping>>, NEW r \in Requests, SyncStep(r)
    PROVE  HandlersInv'
  <1> DEFINE q == request[r]
  <1>0. q \in LoginRequests /\ q \in InHand /\ q.op = "oidc_callback" /\ q.by = Nobody
    <2>1. PICK from : At(r, "oidc_callback", from)
      BY Zenon DEF SyncStep
    <2>2. QED
      BY <2>1, AtFacts, InHandFacts DEF LoginRequests
  <1>1. Pending(q)
    BY AtFacts DEF SyncStep
  <1>2. AfterSync(q) \in {"initial", "answer"}
    BY DEF AfterSync
  <1>3. q.user \in UserIds /\ q.claimed \in SUBSET GroupIds
    BY <1>0 DEF LoginRequests
  <1> HIDE DEF q
  <1>4. ASSUME NEW to \in {"claims", "initial", "answer", "insert", "last"}, to = "insert" => admin # NoGroup
        PROVE  [q EXCEPT !.at = to] \in InHand /\ Pending([q EXCEPT !.at = to])
    BY <1>0, <1>4 DEF LoginRequests, InHand, Pending
  <1>5. CASE At(r, "oidc_callback", "sync") /\ Goes(r, IF q.sync THEN "claims" ELSE AfterSync(q))
             /\ Silently /\ UNCHANGED <<tables, setup>>
    BY <1>2, <1>4, <1>5, ReadsSafe DEF Reads, Goes, q
  <1>6. CASE Fails(r)
    BY <1>0, <1>6, FailsSafe DEF q
  <1>7. CASE Reads(r, [q EXCEPT !.at = "last", !.claimed = {g \in groups : name[g] \in q.names}])
    <2> DEFINE n == [q EXCEPT !.at = "last", !.claimed = {g \in groups : name[g] \in q.names}]
    <2>1. {g \in groups : name[g] \in q.names} \in SUBSET GroupIds
      BY DEF HandlersInv, DirectoryInv, TypeOK
    <2>2. n \in LoginRequests /\ n.at = "last" /\ n.by = Nobody
      BY <1>0, <2>1 DEF LoginRequests
    <2>3. n \in InHand /\ Pending(n)
      BY <2>2 DEF InHand, Pending, LoginRequests
    <2>4. QED
      BY <1>7, <2>3, ReadsSafe
  <1>8. CASE Reads(r, [q EXCEPT !.at = AfterSync(q), !.sync = FALSE])
    <2> DEFINE n == [q EXCEPT !.at = AfterSync(q), !.sync = FALSE]
    <2>1. n \in LoginRequests /\ n.at \in {"initial", "answer"} /\ n.by = Nobody
      BY <1>0, <1>2 DEF LoginRequests
    <2>2. n \in InHand /\ Pending(n)
      BY <2>1 DEF InHand, Pending, LoginRequests
    <2>3. QED
      BY <1>8, <2>2, ReadsSafe
  <1>9. CASE admin # NoGroup /\ Reads(r, [q EXCEPT !.at = "clear",
                        !.claimed = IF IsLastAdmin(q.user) THEN q.claimed \union {admin} ELSE q.claimed])
    <2> DEFINE claims == IF IsLastAdmin(q.user) THEN q.claimed \union {admin} ELSE q.claimed
               n == [q EXCEPT !.at = "clear", !.claimed = claims]
    <2>1. claims \in SUBSET GroupIds
      BY <1>3, <1>9 DEF HandlersInv, DirectoryInv, TypeOK
    <2>2. n \in LoginRequests /\ n.at = "clear" /\ n.by = Nobody
      BY <1>0, <2>1 DEF LoginRequests
    <2>3. n \in InHand /\ Pending(n)
      BY <1>9, <2>2 DEF InHand, Pending, LoginRequests
    <2>4. QED
      BY <1>9, <2>3, ReadsSafe
  <1>10. CASE At(r, "oidc_callback", "clear") /\ members' = WithGroups(q.user, {}) /\ Goes(r, "insert")
              /\ Silently /\ UNCHANGED <<users, groups, name, perms, setup>>
    <2>1. admin # NoGroup
      BY <1>0, <1>1, <1>10 DEF Pending, At, q
    <2>2. [q EXCEPT !.at = "insert"] \in InHand /\ Pending([q EXCEPT !.at = "insert"])
      BY <1>4, <2>1
    <2>3. QED
      BY <1>3, <1>10, <2>1, <2>2, ClearsSafe DEF q
  <1>11. CASE At(r, "oidc_callback", "insert") /\ Inserts(r, TRUE, q.claimed, {q.user}, AfterSync(q))
    <2>1. admin # NoGroup
      BY <1>0, <1>1, <1>11 DEF Pending, At, q
    <2>2. [q EXCEPT !.at = AfterSync(q)] \in InHand /\ Pending([q EXCEPT !.at = AfterSync(q)])
      BY <1>2, <1>4
    <2>3. admin' = admin
      BY <1>11 DEF Inserts, Fails, setup
    <2>4. QED
      BY <1>0, <1>3, <1>11, <2>1, <2>2, <2>3, PendingStays, InsertsSafe DEF q
  <1>12. QED
    BY <1>5, <1>6, <1>7, <1>8, <1>9, <1>10, <1>11 DEF SyncStep, q

(* The rest of a login: the row, the count of users, the promotion. *)
LEMMA OidcSafe ==
    ASSUME HandlersInv, Remembers, UNCHANGED <<boot, skipping>>, NEW r \in Requests, OidcStep(r)
    PROVE  HandlersInv'
  <1> DEFINE q == request[r]
  <1>0. CASE SyncStep(r)
    BY <1>0, SyncSafe
  <1> SUFFICES ASSUME ~SyncStep(r)
               PROVE  HandlersInv'
    BY <1>0
  <1>1. q \in LoginRequests /\ q \in InHand /\ q.op = "oidc_callback" /\ q.by = Nobody /\ Pending(q)
    BY AtFacts, InHandFacts DEF OidcStep, LoginRequests
  <1>2. q.user \in UserIds
    BY <1>1 DEF LoginRequests
  <1> HIDE DEF q
  <1>3. ASSUME NEW to \in {"sync", "create", "count", "promote", "answer", "mark", "join"},
               to = "join" => admin # NoGroup, to = "mark" => manned
        PROVE  [q EXCEPT !.at = to] \in InHand /\ Pending([q EXCEPT !.at = to])
    BY <1>1, <1>3 DEF LoginRequests, InHand, Pending
  <1>4. CASE Reads(r, IF q.user \in users THEN [q EXCEPT !.at = "sync"]
                      ELSE [q EXCEPT !.at = "create", !.new = TRUE])
    <2>1. [q EXCEPT !.at = "create", !.new = TRUE] \in InHand
            /\ Pending([q EXCEPT !.at = "create", !.new = TRUE])
      BY <1>1 DEF LoginRequests, InHand, Pending
    <2>2. QED
      BY <1>3, <1>4, <2>1, ReadsSafe
  <1>5. CASE CreateRow(r, q.user, "sync")
    BY <1>2, <1>3, <1>5, CreateRowSafe DEF q
  <1>6. CASE Reads(r, [q EXCEPT !.at = IF completed THEN "count" ELSE "promote"])
    BY <1>3, <1>6, ReadsSafe
  <1>7. CASE Reads(r, [q EXCEPT !.at = IF Cardinality(users) = 1 THEN "promote" ELSE "answer"])
    BY <1>3, <1>7, ReadsSafe
  <1>8. CASE Fails(r)
    BY <1>1, <1>8, FailsSafe DEF q
  <1>9. CASE admin # NoGroup
             /\ Reads(r, [q EXCEPT !.at = IF q.user \in members[admin] THEN "mark" ELSE SetupPath.row])
    <2>1. SetupPath.row = "join"
      BY DEF SetupPath
    <2>2. q.user \in members[admin] => manned
      BY <1>9 DEF HandlersInv
    <2>3. QED
      BY <1>3, <1>9, <2>1, <2>2, ReadsSafe
  <1>10. CASE At(r, "oidc_callback", "join") /\ Join(r, q.user)
    <2>1. admin # NoGroup
      BY <1>1, <1>10 DEF Pending, At, q
    <2>2. [q EXCEPT !.at = "mark"] \in InHand /\ [q EXCEPT !.at = "mark"].by = Nobody
            /\ [q EXCEPT !.at = "mark"].op = "oidc_callback"
      BY <1>1 DEF LoginRequests, InHand
    <2>3. QED
      BY <1>1, <1>2, <1>10, <2>1, <2>2, JoinSafe DEF q
  <1>11. CASE MarkCompleted(r)
    BY <1>3, <1>11, MarkSafe DEF SetupPath, q
  <1>12. QED
    BY <1>4, <1>5, <1>6, <1>7, <1>8, <1>9, <1>10, <1>11 DEF OidcStep, q

(* create_user. *)
LEMMA CreateUserSafe ==
    ASSUME HandlersInv, Remembers, UNCHANGED <<boot, skipping>>, NEW r \in Requests, CreateUserStep(r)
    PROVE  HandlersInv'
  <1> DEFINE q == request[r]
  <1>1. q \in CreateUserRequests /\ q \in InHand /\ Pending(q)
    BY AtFacts, InHandFacts DEF CreateUserStep
  <1>2. q.user \in UserIds
    BY <1>1 DEF CreateUserRequests
  <1> HIDE DEF q
  <1>3. ASSUME NEW to \in {"insert", "mail", "answer"}
        PROVE  [q EXCEPT !.at = to] \in InHand /\ Pending([q EXCEPT !.at = to])
    BY <1>1 DEF CreateUserRequests, InHand, Pending
  <1>4. CASE Checks(r, q.user \notin users, "insert")
    BY <1>3, <1>4, ChecksSafe DEF q
  <1>5. CASE CreateRow(r, q.user, "mail")
    BY <1>2, <1>3, <1>5, CreateRowSafe DEF q
  <1>6. CASE Checks(r, TRUE, "answer")
    BY <1>3, <1>6, ChecksSafe DEF q
  <1>7. CASE Fails(r)
    BY <1>1, <1>7, FailsSafe DEF q
  <1>8. QED
    BY <1>4, <1>5, <1>6, <1>7 DEF CreateUserStep, q

(* delete_user: memberships go with the row, by the cascade. *)
LEMMA DeleteUserSafe ==
    ASSUME HandlersInv, Remembers, UNCHANGED <<boot, skipping>>, NEW r \in Requests, DeleteUserStep(r)
    PROVE  HandlersInv'
  <1> DEFINE q == request[r]
  <1>1. q \in DeleteUserRequests /\ q \in InHand /\ Pending(q)
    BY AtFacts, InHandFacts DEF DeleteUserStep
  <1>2. q.user \in UserIds /\ admin # NoGroup
    BY <1>1, ConstantsOK DEF DeleteUserRequests, Pending
  <1> HIDE DEF q
  <1>3. ASSUME NEW to \in {"target", "sender", "delete", "answer"}
        PROVE  [q EXCEPT !.at = to] \in InHand /\ Pending([q EXCEPT !.at = to])
    BY <1>1 DEF DeleteUserRequests, InHand, Pending
  <1>4. CASE \/ Checks(r, admin # NoGroup /\ ~IsLastAdmin(q.user), "target")
             \/ Checks(r, TRUE, IF InAdminGroup(q.user) THEN "sender" ELSE "delete")
             \/ Checks(r, InAdminGroup(q.by), "delete")
    BY <1>3, <1>4, ChecksSafe DEF q
  <1>5. CASE /\ users' = users \ {q.user} /\ members' = WithGroups(q.user, {}) /\ Goes(r, "answer")
             /\ Silently /\ UNCHANGED <<groups, name, perms, setup>>
    BY <1>2, <1>3, <1>5, ClearsSafe DEF q
  <1>6. QED
    BY <1>4, <1>5 DEF DeleteUserStep, q

(* edit_user, of a user who may be deleted between its statements. *)
LEMMA EditUserSafe ==
    ASSUME HandlersInv, Remembers, UNCHANGED <<boot, skipping>>, NEW r \in Requests, EditUserStep(r)
    PROVE  HandlersInv'
  <1> DEFINE q == request[r]
  <1>1. q \in EditUserRequests /\ q \in InHand /\ Pending(q)
    BY AtFacts, InHandFacts DEF EditUserStep
  <1>2. q.user \in UserIds /\ q.gs.ids \in SUBSET GroupIds /\ admin # NoGroup
    BY <1>1, ConstantsOK, ListElements DEF EditUserRequests, Pending, GroupLists
  <1> HIDE DEF q
  <1>3. ASSUME NEW to \in {"target", "last", "row", "clear", "insert", "answer"}
        PROVE  [q EXCEPT !.at = to] \in InHand /\ Pending([q EXCEPT !.at = to])
    BY <1>1 DEF EditUserRequests, InHand, Pending
  <1>4. CASE Reads(r, [q EXCEPT !.at = "groups", !.had = PermissionsOf(q.by)])
    <2> DEFINE n == [q EXCEPT !.at = "groups", !.had = PermissionsOf(q.by)]
    <2>1. PermissionsOf(q.by) \in SUBSET Perms
      BY DEF PermissionsOf
    <2>2. n \in InHand /\ Pending(n)
      BY <1>1, <2>1 DEF EditUserRequests, InHand, Pending
    <2>3. QED
      BY <1>4, <2>2, ReadsSafe
  <1>5. CASE \/ Checks(r, \A g \in q.gs.ids \intersect groups : perms[g] \subseteq q.had, "target")
             \/ Checks(r, PermissionsOf(q.user) \subseteq q.had, "last")
             \/ Checks(r, admin # NoGroup /\ (admin \in q.gs.ids \/ ~IsLastAdmin(q.user)), "row")
             \/ Checks(r, q.user \in users, "clear")
    BY <1>3, <1>5, ChecksSafe DEF q
  <1>6. CASE /\ members' = WithGroups(q.user, {}) /\ Goes(r, "insert") /\ Silently
             /\ UNCHANGED <<users, groups, name, perms, setup>>
    BY <1>2, <1>3, <1>6, ClearsSafe DEF q
  <1>7. CASE Inserts(r, ~q.gs.repeats, q.gs.ids, {q.user}, "answer")
    <2>1. admin' = admin
      BY <1>7 DEF Inserts, Fails, setup
    <2>2. QED
      BY <1>1, <1>2, <1>3, <1>7, <2>1, PendingStays, InsertsSafe DEF q
  <1>8. QED
    BY <1>4, <1>5, <1>6, <1>7 DEF EditUserStep, q

(* create_group. *)
LEMMA CreateGroupSafe ==
    ASSUME HandlersInv, Remembers, UNCHANGED <<boot, skipping>>, NEW r \in Requests, CreateGroupStep(r)
    PROVE  HandlersInv'
  <1> DEFINE q == request[r]
  <1>1. q \in CreateGroupRequests /\ q \in InHand /\ Pending(q)
    BY AtFacts, InHandFacts DEF CreateGroupStep
  <1>2. q.name \in Names
    BY <1>1 DEF CreateGroupRequests
  <1>3. q.op = "create_group" /\ q.by \in UserIds /\ admin # NoGroup
    BY <1>1, ConstantsOK DEF CreateGroupRequests, Pending
  <1> HIDE DEF q
  <1>4. CASE Checks(r, ~NameTaken(q.name), "insert")
    <2>1. [q EXCEPT !.at = "insert"] \in InHand /\ Pending([q EXCEPT !.at = "insert"])
      BY <1>1 DEF CreateGroupRequests, InHand, Pending
    <2>2. QED
      BY <1>4, <2>1, ChecksSafe DEF q
  <1>5. ASSUME NEW g \in GroupIds \ groups,
               groups' = groups \union {g}, name' = [name EXCEPT ![g] = q.name],
               request' = [request EXCEPT ![r].at = "answer", ![r].group = g],
               Silently, UNCHANGED <<users, perms, members, setup>>
        PROVE  HandlersInv'
    <2> DEFINE n == [q EXCEPT !.at = "answer", !.group = g]
    <2>1. n \in InHand /\ Pending(n)
      BY <1>1 DEF CreateGroupRequests, InHand, Pending
    <2>2. request' = [request EXCEPT ![r] = n]
      BY <1>5 DEF HandlersInv, q
    <2>3. NoDanglingRows'
      BY <1>5 DEF HandlersInv, DirectoryInv, NoDanglingRows
    <2>4. DirectoryInv'
      BY <1>2, <1>5, <2>3, WrittenWell DEF HandlersInv, DirectoryInv, TypeOK, AdminGroupExists,
         setup
    <2> HIDE DEF n
    <2>5. QED
      BY <1>5, <2>1, <2>2, <2>4, PendingStays, RequestMoves DEF setup
  <1>6. QED
    BY <1>4, <1>5 DEF CreateGroupStep, q

(* delete_group: it has asked whether the group is the admin group, whose  *)
(* id never changes, so the answer is not stale when it deletes.           *)
LEMMA DeleteGroupSafe ==
    ASSUME HandlersInv, Remembers, UNCHANGED <<boot, skipping>>, NEW r \in Requests, DeleteGroupStep(r)
    PROVE  HandlersInv'
  <1> DEFINE q == request[r]
             g == q.group
  <1>1. q \in DeleteGroupRequests /\ q \in InHand /\ Pending(q)
    BY AtFacts, InHandFacts DEF DeleteGroupStep
  <1>2. g \in GroupIds /\ admin # NoGroup /\ q.op = "delete_group"
    BY <1>1, ConstantsOK DEF DeleteGroupRequests, Pending
  <1> HIDE DEF q
  <1>3. CASE At(r, "delete_group", "start") /\ Checks(r, g # admin, "members")
    <2>1. [q EXCEPT !.at = "members"] \in InHand /\ (g # admin => Pending([q EXCEPT !.at = "members"]))
      BY <1>1 DEF DeleteGroupRequests, InHand, Pending
    <2>2. QED
      BY <1>3, <2>1, ChecksSafe DEF q
  <1>4. ASSUME q.at # "start"
        PROVE  g # admin
    BY <1>1, <1>2, <1>4 DEF Pending
  <1>5. CASE At(r, "delete_group", "members") /\ Reads(r, [q EXCEPT !.at = "delete", !.were = members[g]])
    <2>1. members[g] \in SUBSET UserIds /\ g # admin
      BY <1>2, <1>4, <1>5 DEF HandlersInv, DirectoryInv, TypeOK, At, q
    <2>2. [q EXCEPT !.at = "delete", !.were = members[g]] \in InHand
            /\ Pending([q EXCEPT !.at = "delete", !.were = members[g]])
      BY <1>1, <2>1 DEF DeleteGroupRequests, InHand, Pending
    <2>3. QED
      BY <1>5, <2>2, ReadsSafe
  <1>6. CASE Checks(r, FALSE, "answer")
    BY <1>6, ChecksSafe
  <1>7. CASE /\ At(r, "delete_group", "delete") /\ g \in groups
             /\ groups' = groups \ {g} /\ name' = [name EXCEPT ![g] = NoName]
             /\ perms' = [perms EXCEPT ![g] = {}] /\ members' = [members EXCEPT ![g] = {}]
             /\ Goes(r, "answer") /\ Silently /\ UNCHANGED <<users, setup>>
    <2>1. g # admin
      BY <1>4, <1>7 DEF At, q
    <2>2. [q EXCEPT !.at = "answer"] \in InHand /\ Pending([q EXCEPT !.at = "answer"])
      BY <1>1, <2>1 DEF DeleteGroupRequests, InHand, Pending
    <2>3. NoDanglingRows'
      BY <1>2, <1>7 DEF HandlersInv, DirectoryInv, TypeOK, NoDanglingRows
    <2>4. DirectoryInv'
      BY <1>2, <1>7, <2>1, <2>3, WrittenWell DEF HandlersInv, DirectoryInv, TypeOK,
         AdminGroupExists, setup
    <2>5. QED
      BY <1>7, <2>2, <2>4, PendingStays, RequestMoves DEF Goes, setup, q
  <1>8. QED
    BY <1>3, <1>5, <1>6, <1>7 DEF DeleteGroupStep, q

(* edit_group, up to its last query. *)
LEMMA EditGroupCheckSafe ==
    ASSUME HandlersInv, Remembers, UNCHANGED <<boot, skipping>>, NEW r \in Requests, EditGroupCheck(r)
    PROVE  HandlersInv'
  <1> DEFINE q == request[r]
             g == q.group
  <1>1. q \in EditGroupRequests /\ q \in InHand /\ Pending(q)
    BY AtFacts, InHandFacts DEF EditGroupCheck
  <1>2. g \in GroupIds
    BY <1>1 DEF EditGroupRequests
  <1> HIDE DEF q
  <1>3. ASSUME NEW to \in {"info", "rights", "members"}
        PROVE  [q EXCEPT !.at = to] \in InHand /\ Pending([q EXCEPT !.at = to])
    BY <1>1 DEF EditGroupRequests, InHand, Pending
  <1>4. CASE \/ Checks(r, NameTaken(q.name) => name[g] = q.name, "info")
             \/ Checks(r, FALSE, "rights")
             \/ Checks(r, /\ q.had \union q.ps.ids \subseteq PermissionsOf(q.by)
                          /\ KeepsAdminGroup(g, q.had, q.ps, q.us), "members")
    BY <1>3, <1>4, ChecksSafe DEF q
  <1>5. CASE Reads(r, [q EXCEPT !.at = "rights", !.had = perms[g]])
    <2>1. perms[g] \in SUBSET Perms
      BY <1>2 DEF HandlersInv, DirectoryInv, TypeOK
    <2>2. [q EXCEPT !.at = "rights", !.had = perms[g]] \in InHand
            /\ Pending([q EXCEPT !.at = "rights", !.had = perms[g]])
      BY <1>1, <2>1 DEF EditGroupRequests, InHand, Pending
    <2>3. QED
      BY <1>5, <2>2, ReadsSafe
  <1>6. CASE Reads(r, [q EXCEPT !.at = "name", !.were = members[g]])
    <2>1. members[g] \in SUBSET UserIds
      BY <1>2 DEF HandlersInv, DirectoryInv, TypeOK
    <2>2. [q EXCEPT !.at = "name", !.were = members[g]] \in InHand
            /\ Pending([q EXCEPT !.at = "name", !.were = members[g]])
      BY <1>1, <2>1 DEF EditGroupRequests, InHand, Pending
    <2>3. QED
      BY <1>6, <2>2, ReadsSafe
  <1>7. QED
    BY <1>4, <1>5, <1>6 DEF EditGroupCheck, q

(* edit_group, from its first write; the group may be gone by then. *)
LEMMA EditGroupWriteSafe ==
    ASSUME HandlersInv, Remembers, UNCHANGED <<boot, skipping>>, NEW r \in Requests, EditGroupWrite(r)
    PROVE  HandlersInv'
  <1> DEFINE q == request[r]
             g == q.group
             kept == ~q.ps.repeats /\ g \in groups /\ perms[g] \intersect q.ps.ids = {}
  <1>1. q \in EditGroupRequests /\ q \in InHand /\ Pending(q)
    <2>1. PICK from : At(r, "edit_group", from)
      BY Zenon DEF EditGroupWrite
    <2>2. QED
      BY <2>1, AtFacts, InHandFacts
  <1>2. /\ g \in GroupIds /\ q.name \in Names /\ admin # NoGroup
        /\ q.ps.ids \in SUBSET Perms /\ q.us.ids \in SUBSET UserIds
    BY <1>1, ConstantsOK, ListElements DEF EditGroupRequests, Pending, PermLists, UserLists
  <1> HIDE DEF q
  <1>3. ASSUME NEW to \in {"clear_perms", "clear_users", "insert_perms", "insert_users", "answer"}
        PROVE  [q EXCEPT !.at = to] \in InHand /\ Pending([q EXCEPT !.at = to])
    BY <1>1 DEF EditGroupRequests, InHand, Pending
  <1>4. CASE Checks(r, FALSE, "clear_perms")
    BY <1>4, ChecksSafe
  <1>5. CASE Fails(r)
    BY <1>1, <1>5, FailsSafe DEF q
  (* The three statements that write one column or the rows of one table.  *)
  <1>6. ASSUME NEW to \in {"clear_perms", "clear_users", "insert_perms", "insert_users"},
               Goes(r, to), Silently, UNCHANGED <<users, groups, setup>>,
               name' \in [GroupIds -> Names \union {NoName}], perms' \in [GroupIds -> SUBSET Perms],
               members' \in [GroupIds -> SUBSET UserIds], NoDanglingRows'
        PROVE  HandlersInv'
    <2>1. DirectoryInv'
      BY <1>2, <1>6, WrittenWell DEF HandlersInv, DirectoryInv, TypeOK, AdminGroupExists, setup
    <2>2. QED
      BY <1>3, <1>6, <2>1, PendingStays, RequestMoves DEF Goes, setup, q
  <1>7. CASE /\ name' = [name EXCEPT ![g] = q.name] /\ Goes(r, "clear_perms")
             /\ Silently /\ UNCHANGED <<users, groups, perms, members, setup>>
    BY <1>2, <1>6, <1>7 DEF HandlersInv, DirectoryInv, TypeOK, NoDanglingRows
  <1>8. CASE /\ perms' = [perms EXCEPT ![g] = {}] /\ Goes(r, "clear_users")
             /\ Silently /\ UNCHANGED <<users, groups, name, members, setup>>
    BY <1>2, <1>6, <1>8 DEF HandlersInv, DirectoryInv, TypeOK, NoDanglingRows
  <1>9. CASE /\ members' = [members EXCEPT ![g] = {}] /\ Goes(r, "insert_perms")
             /\ Silently /\ UNCHANGED <<users, groups, name, perms, setup>>
    BY <1>2, <1>6, <1>9 DEF HandlersInv, DirectoryInv, TypeOK, NoDanglingRows
  <1>10. CASE /\ q.ps.ids = {} \/ kept
              /\ perms' = [perms EXCEPT ![g] = perms[g] \union q.ps.ids] /\ Goes(r, "insert_users")
              /\ Silently /\ UNCHANGED <<users, groups, name, members, setup>>
    <2>1. perms' \in [GroupIds -> SUBSET Perms]
      BY <1>2, <1>10 DEF HandlersInv, DirectoryInv, TypeOK
    <2>2. NoDanglingRows'
      BY <1>2, <1>10 DEF HandlersInv, DirectoryInv, TypeOK, NoDanglingRows
    <2>3. QED
      BY <1>6, <1>10, <2>1, <2>2 DEF HandlersInv, DirectoryInv, TypeOK
  <1>11. CASE Inserts(r, ~q.us.repeats, {g}, q.us.ids, "answer")
    <2>1. admin' = admin
      BY <1>11 DEF Inserts, Fails, setup
    <2>2. QED
      BY <1>1, <1>2, <1>3, <1>11, <2>1, PendingStays, InsertsSafe DEF q
  <1>12. QED
    BY <1>4, <1>5, <1>7, <1>8, <1>9, <1>10, <1>11 DEF EditGroupWrite, q

(* Whom a handler at its end tells is somebody, about something.           *)
LEMMA UpdatesTyped ==
    ASSUME NEW q \in InHand, q.at = "answer", NEW updates \in UpdatesOf(q)
    PROVE  updates \subseteq Updates
  <1>1. CASE q \in SetupRequests
    BY <1>1 DEF SetupRequests, UpdatesOf
  <1>2. CASE q \in LoginRequests
    BY <1>2, SentType DEF LoginRequests, UpdatesOf
  <1>3. CASE q \in CreateUserRequests \/ q \in DeleteUserRequests \/ q \in EditUserRequests
    BY <1>3, SentType DEF CreateUserRequests, DeleteUserRequests, EditUserRequests, UpdatesOf
  <1>4. CASE q \in CreateGroupRequests
    BY <1>4, SentType DEF CreateGroupRequests, UpdatesOf
  <1>5. CASE q \in DeleteGroupRequests
    BY <1>5, SentType DEF DeleteGroupRequests, UpdatesOf
  <1>6. CASE q \in EditGroupRequests
    <2>1. q.op = "edit_group" /\ q.group \in GroupIds /\ q.were \in SUBSET UserIds /\ q.us \in Lists(UserIds)
      BY <1>6 DEF EditGroupRequests, UserLists
    <2>2. Notified(q.had, q.were, q.ps, q.us) \in SUBSET UserIds
      BY <2>1, ListElements DEF Notified
    <2>3. QED
      BY <2>1, <2>2, SentType DEF UpdatesOf
  <1>7. QED
    BY <1>1, <1>2, <1>3, <1>4, <1>5, <1>6 DEF InHand

(* The last step of a request that is answered. *)
LEMMA ReplySafe ==
    ASSUME HandlersInv, Remembers, UNCHANGED <<boot, skipping>>, NEW r \in Requests, Reply(r)
    PROVE  HandlersInv'
  <1>1. request[r] \in InHand
    <2>1. request[r] # Idle
      BY DEF Reply, Idle
    <2>2. QED
      BY <2>1 DEF HandlersInv
  <1>2. PICK updates \in UpdatesOf(request[r]) : Answer(request[r].by, TRUE, updates)
    BY DEF Reply
  <1>3. sent' \subseteq Updates /\ response' \in Responses
    BY <1>1, <1>2, UpdatesTyped, InHandFacts, ResponseType DEF Reply, Answer
  <1>4. DirectoryInv' /\ admin' = admin /\ request' = [request EXCEPT ![r] = Idle]
    BY <1>3, NothingWritten DEF Reply, Ends
  <1>5. QED
    BY <1>4, RequestMoves

(* A handler dropped where it is leaves what it has written. *)
LEMMA CancelSafe ==
    ASSUME HandlersInv, Remembers, UNCHANGED <<boot, skipping>>, NEW r \in Requests, Cancel(r)
    PROVE  HandlersInv'
  BY ReadsSafe DEF Cancel, Reads, Ends

(* Boot steps are Directory's.  The one that records the admin group comes *)
(* when no handler can rely on another: without a group nobody is known.   *)
LEMMA BootStepSafe ==
    ASSUME HandlersInv, Remembers, Starts, request' = request
    PROVE  HandlersInv'
  <1>1. DirectoryInv'
    BY NextDirectoryInv DEF HandlersInv, Next, Boot
  <1>2. /\ admin' = admin \/ admin = NoGroup
        /\ admin # NoGroup => admin' # NoGroup
    BY DEF Starts, BootCreateGroup, BootGrant, BootRecord, BootUpgrade, BootRename, SkipSetup,
       HandlersInv, DirectoryInv, BootGroupExists
  <1>3. manned' \in BOOLEAN /\ (manned => manned') /\ (admin' # NoGroup /\ members'[admin'] # {} => manned')
    BY DEF HandlersInv, Remembers
  <1>4. ASSUME NEW o \in Requests, (request[o] # Idle)'
        PROVE  Pending(request[o])'
    <2>1. Pending(request[o]) /\ request[o] \in InHand
      BY <1>4 DEF HandlersInv
    <2>2. request[o].op = "delete_group" => request[o].by \in UserIds
      BY <2>1, InHandFacts DEF DeleteGroupRequests
    <2>3. request[o].op = "delete_group" => admin' = admin
      BY <1>2, <2>1, <2>2, ConstantsOK DEF Pending
    <2>4. QED
      BY <1>2, <1>3, <2>1, <2>3 DEF Pending
  <1>5. QED
    BY <1>1, <1>3, <1>4 DEF HandlersInv

(* A crash drops every handler. *)
LEMMA CrashSafe ==
    ASSUME HandlersInv, Remembers, Crash, request' = [r \in Requests |-> Idle]
    PROVE  HandlersInv'
  <1>1. DirectoryInv'
    BY NextDirectoryInv DEF HandlersInv, Next, Boot
  <1>2. QED
    BY <1>1 DEF HandlersInv, Remembers, Crash

(* The server begins with no request. *)
LEMMA HandlersInitInv ==
    ASSUME HandlersInit
    PROVE  HandlersInv
  <1>1. DirectoryInv
    BY InitDirectoryInv DEF HandlersInit
  <1>2. QED
    BY <1>1 DEF HandlersInit, Init, HandlersInv

(* Every step of every handler, of the boot, and every end of one. *)
LEMMA HandlersStep ==
    ASSUME HandlersInv, [HandlersNext]_steps
    PROVE  HandlersInv'
  <1>1. CASE UNCHANGED steps
    <2>1. DirectoryInv' /\ admin' = admin
      BY <1>1, NextDirectoryInv DEF steps, vars, HandlersInv
    <2>2. QED
      BY <1>1, <2>1 DEF steps, HandlersInv, Pending
  <1>2. ASSUME Remembers, NEW r \in Requests, Serves(r)
        PROVE  HandlersInv'
    BY <1>2, BeginsSafe, CompleteSetupSafe, OidcSafe, CreateUserSafe, DeleteUserSafe, EditUserSafe,
       CreateGroupSafe, DeleteGroupSafe, EditGroupCheckSafe, EditGroupWriteSafe, ReplySafe, Zenon
       DEF Serves, Handle
  <1>3. ASSUME Remembers, NEW r \in Requests, Cancel(r), UNCHANGED <<boot, skipping>>
        PROVE  HandlersInv'
    BY <1>3, CancelSafe
  <1>4. CASE Remembers /\ Starts /\ UNCHANGED request
    BY <1>4, BootStepSafe
  <1>5. CASE Remembers /\ Crash /\ request' = [r \in Requests |-> Idle]
    BY <1>5, CrashSafe
  <1>6. QED
    BY <1>1, <1>2, <1>3, <1>4, <1>5, Zenon DEF HandlersNext

(* The invariant of the theorems below. *)
LEMMA HandlersInvariant == HandlersSpec => []HandlersInv
  <1>1. HandlersInit => HandlersInv
    BY HandlersInitInv
  <1>2. HandlersInv /\ [HandlersNext]_steps => HandlersInv'
    BY HandlersStep
  <1>3. QED
    BY <1>1, <1>2, PTL DEF HandlersSpec

(* Whatever handlers overlap, are dropped, or die with the process: between *)
(* any two of their statements the directory has no dangling row, the       *)
(* recorded admin group exists, and nobody is in a group before it does.    *)
THEOREM EveryAwaitIsSafe == HandlersSpec => []DirectoryInv
  <1>1. HandlersInv => DirectoryInv
    BY DEF HandlersInv
  <1>2. QED
    BY <1>1, HandlersInvariant, PTL

(* Nor does anybody without a row hold a permission there, half deleted or  *)
(* half made: Permission::check need not ask for the row (permission.rs:19).*)
THEOREM NoPermissionWithoutRow == HandlersSpec => []PermissionImpliesUser
  <1>1. DirectoryInv => PermissionImpliesUser
    BY DEF DirectoryInv, TypeOK, NoDanglingRows, PermissionImpliesUser, HasPermission
  <1>2. QED
    BY <1>1, EveryAwaitIsSafe, PTL

-----------------------------------------------------------------------------
(* The setup is marked only after somebody was an admin. *)

(* The step of SetupMarkedByAdmin. *)
StepMarksManned == ~completed /\ completed' /\ skipping' = skipping => manned

(* Handlers that are not at their mark leave `completed` alone. *)
LEMMA OnlyMarksComplete ==
    ASSUME HandlersInv, NEW r \in Requests, Handle(r), UNCHANGED <<boot, skipping>>
    PROVE  completed' = completed \/ manned
  <1>1. CASE MarkCompleted(r) /\ \E op \in {"complete_setup", "oidc_callback"} : At(r, op, "mark")
    BY <1>1, AtFacts DEF Pending
  <1>2. ASSUME NEW holds, NEW to, Checks(r, holds, to)
        PROVE  completed' = completed
    BY <1>2 DEF Checks, setup
  <1>3. ASSUME NEW q, Reads(r, q)
        PROVE  completed' = completed
    BY <1>3 DEF Reads, setup
  <1>4. Fails(r) => completed' = completed
    BY DEF Fails, setup
  <1>5. ASSUME NEW fits, NEW gs, NEW us, NEW to, Inserts(r, fits, gs, us, to)
        PROVE  completed' = completed
    BY <1>4, <1>5 DEF Inserts, setup
  <1>6. ASSUME NEW u, NEW to, CreateRow(r, u, to)
        PROVE  completed' = completed
    BY <1>2, <1>6 DEF CreateRow, setup
  <1>7. CASE CompleteSetupStep(r)
    BY <1>1, <1>2, <1>5, <1>6, <1>7 DEF CompleteSetupStep, Join
  <1>8. CASE SyncStep(r)
    BY <1>3, <1>4, <1>5, <1>8 DEF SyncStep, setup
  <1>9. CASE OidcStep(r)
    BY <1>1, <1>3, <1>4, <1>5, <1>6, <1>8, <1>9 DEF OidcStep, Join
  <1>10. CASE CreateUserStep(r) \/ DeleteUserStep(r)
    BY <1>2, <1>4, <1>6, <1>10 DEF CreateUserStep, DeleteUserStep, setup
  <1>11. CASE EditUserStep(r)
    BY <1>2, <1>3, <1>5, <1>11 DEF EditUserStep, setup
  <1>12. CASE CreateGroupStep(r) \/ DeleteGroupStep(r)
    BY <1>2, <1>3, <1>12 DEF CreateGroupStep, DeleteGroupStep, setup
  <1>13. CASE EditGroupCheck(r) \/ EditGroupWrite(r)
    BY <1>2, <1>3, <1>4, <1>5, <1>13 DEF EditGroupCheck, EditGroupWrite, setup
  <1>14. QED
    BY <1>7, <1>9, <1>10, <1>11, <1>12, <1>13 DEF Handle

(* The setup is marked by a handler that has put somebody in the admin     *)
(* group, or has seen somebody there.                                      *)
LEMMA NextMarksManned ==
    ASSUME HandlersInv, [HandlersNext]_steps
    PROVE  StepMarksManned
  <1>1. ASSUME NEW r \in Requests, Serves(r)
        PROVE  completed' = completed \/ manned
    <2>1. CASE Handle(r)
      BY <1>1, <2>1, OnlyMarksComplete DEF Serves
    <2>2. CASE Arrives(r) \/ Reply(r)
      BY <2>2 DEF Arrives, Begins, Reply, setup
    <2>3. QED
      BY <1>1, <2>1, <2>2 DEF Serves
  <1>2. CASE \E r \in Requests : Cancel(r)
    BY <1>2 DEF Cancel, setup, StepMarksManned
  <1>3. CASE Starts
    <2>1. CASE SkipSetup
      <3>1. skipping \in BOOLEAN
        BY DEF HandlersInv, DirectoryInv, TypeOK
      <3>2. QED
        BY <2>1, <3>1 DEF SkipSetup, StepMarksManned
    <2>2. CASE ~SkipSetup
      <3>1. completed' = completed
        BY <1>3, <2>2 DEF Starts, BootCreateGroup, BootGrant, BootRecord, BootUpgrade, BootRename
      <3>2. QED
        BY <3>1 DEF StepMarksManned
    <2>3. QED
      BY <2>1, <2>2
  <1>4. CASE Crash \/ UNCHANGED steps
    BY <1>4 DEF Crash, steps, setup, StepMarksManned
  <1>5. QED
    BY <1>1, <1>2, <1>3, <1>4, Zenon DEF HandlersNext, StepMarksManned

(* However requests interleave and wherever they are cut short, one that   *)
(* completes the setup comes after a member of the admin group.            *)
THEOREM SetupsAreManned == HandlersSpec => SetupMarkedByAdmin
  <1>1. HandlersInv /\ [HandlersNext]_steps
        => [~completed /\ completed' /\ skipping' = skipping => manned]_steps
    BY NextMarksManned DEF StepMarksManned
  <1>2. QED
    BY <1>1, HandlersInvariant, PTL DEF HandlersSpec, SetupMarkedByAdmin
=============================================================================

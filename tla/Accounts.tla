------------------------------ MODULE Accounts ------------------------------
(***************************************************************************)
(* Who a user is and how a user signs in: the email, the password and the  *)
(* OIDC identity of a row of `user`.  A handler queries the table, decides *)
(* on a write and then writes; between the two other handlers run.  Here a *)
(* handler is the write it has decided on: it is written at once, or it is *)
(* overtaken, that is, kept in `slow` while others go on, and written, or  *)
(* lost in a crash, later.  Bound: one handler at a time is overtaken.     *)
(*                                                                         *)
(* Permissions are the matter of Directory: here whoever asks may.  Which  *)
(* password a row has is left out, only that somebody knows one (a hash of *)
(* the empty string is never stored, so "" is none); so are names.         *)
(***************************************************************************)
CONSTANTS
    AccountIds,
    Addresses,
    Lowercase,    \* str::to_lowercase, on addresses
    Subjects,     \* the `sub` of a user at the provider
    NoSubject,
    NoRow,
    Nothing       \* no handler is overtaken

ASSUME AccountsOK ==
    /\ Lowercase \in [Addresses -> Addresses]
    /\ \A a \in Addresses : Lowercase[Lowercase[a]] = Lowercase[a]
    /\ NoSubject \notin Subjects

VARIABLES
    account,  \* the rows of `user`
    links,    \* ResetPasswordState: the addresses with a live reset token
    slow,     \* the write of the handler that is overtaken
    home      \* history: the account a subject signed in to, while it has it

accountVars == <<account, links, slow, home>>

Rows ==
    [email : Addresses, password : BOOLEAN, oidc : BOOLEAN, subject : Subjects \union {NoSubject}]

Writes ==
    [does : {"insert"}, user : AccountIds, row : Rows]
      \union [does : {"delete", "password", "relink", "convert", "unflag"}, user : AccountIds]
      \union [does : {"email"}, user : AccountIds, email : Addresses]
      \union [does : {"remind"}, email : Addresses]
      \union [does : {"login", "link"}, user : AccountIds, subject : Subjects, email : Addresses]

ASSUME NoRowOK ==
    /\ NoRow \notin AccountIds /\ NoRow \notin Rows
    /\ Nothing \notin Writes

AccountsTypeOK ==
    /\ account \in [AccountIds -> Rows \union {NoRow}]
    /\ links \subseteq Addresses
    /\ slow \in Writes \union {Nothing}
    /\ home \in [Subjects -> AccountIds \union {NoRow}]

-----------------------------------------------------------------------------
Present == {u \in AccountIds : account[u] # NoRow}

(* Addresses are compared as they are spelt. *)
Holding(a) == {u \in Present : account[u].email = a}

Local    == {u \in Present : ~account[u].oidc}
Provided == {u \in Present : account[u].oidc}

(* Ids are not used again: nobody's, and not the target of a slow handler. *)
Fresh ==
    {u \in AccountIds \ Present :
       slow = Nothing \/ slow.does = "remind" \/ slow.user # u}

Row(a, password, oidc, s) ==
    [email |-> a, password |-> password, oidc |-> oidc, subject |-> s]

-----------------------------------------------------------------------------
(* What the handlers decide on.  {} is a handler that is refused.          *)

CreateUser ==
    [does : {"insert"}, user : Fresh,
     row : {Row(a, TRUE, FALSE, NoSubject) : a \in {b \in Addresses : Holding(b) = {}}}]

DeleteUser == [does : {"delete"}, user : AccountIds]

(* authenticate admits whose password is known, and writes nothing.        *)
UpdatePassword ==
    [does : {"password"}, user : {u \in Local : account[u].password}]

(* Mutant: an admin may give a password to any user. *)
ResetUserPassword_Any == [does : {"password"}, user : Present]

ResetUserPassword == [does : {"password"}, user : Local]

(* Mutant: the flag goes first, and the password never comes. *)
ConvertOidcUser_FlagOnly == [does : {"unflag"}, user : Provided]

ConvertOidcUser == [does : {"convert"}, user : Provided]

ChangeUserEmail ==
    [does : {"email"}, user : Local, email : {a \in Addresses : Holding(a) = {}}]

(* The address was free and the user local when the change began.  A local *)
(* user stays local; the address may be taken by now (see EmailChange).    *)
ConfirmEmailChange == [does : {"email"}, user : Local, email : Addresses]

SendResetLink == [does : {"remind"}, email : {account[u].email : u \in Local}]

(* Whoever has the address now, unlike in SendResetLink an OIDC user too.  *)
ResetPassword == [does : {"relink"}, user : {u \in Present : account[u].email \in links}]

(* Mutant: the account with the address, whoever it belongs to. *)
ResolveOidcUser_ByEmail(s, a) ==
    IF Holding(a) # {} THEN [does : {"login"}, user : Holding(a), subject : {s}, email : {a}]
    ELSE {}

(* The account of the subject; else the account with the address, if it    *)
(* has no subject yet.                                                     *)
ResolveOidcUser(s, a) ==
    LET own == {u \in Present : account[u].subject = s}
    IN  IF own # {} THEN [does : {"login"}, user : own, subject : {s}, email : {a}]
        ELSE [does : {"link"}, user : {u \in Holding(a) : account[u].subject = NoSubject},
              subject : {s}, email : {a}]

(* A login of a user the provider knows as s with address a.               *)
OidcLogin(s, a) ==
    IF ResolveOidcUser(s, a) # {} THEN ResolveOidcUser(s, a)
    ELSE {[does |-> "insert", user |-> u, row |-> Row(a, FALSE, TRUE, s)] : u \in Fresh}

(* The logins of users of the provider, whatever address it has for them.  *)
OidcLogins == UNION {UNION {OidcLogin(s, a) : a \in Addresses} : s \in Subjects}

Decided ==
    CreateUser \union DeleteUser \union UpdatePassword \union ResetUserPassword
      \union ConvertOidcUser \union ChangeUserEmail \union ConfirmEmailChange
      \union SendResetLink \union ResetPassword \union OidcLogins

-----------------------------------------------------------------------------
(* The writes.  A row that is gone is not updated, and the unique indexes  *)
(* on email and subject refuse a second row: the handler ends there.       *)

Update(u, row) == account' = [account EXCEPT ![u] = row]

EmailFits(u, a) == Holding(a) \subseteq {u}

SubjectFits(u, s) == \A v \in Present \ {u} : account[v].subject # s

(* Who lives in u has moved out: u is deleted, or another subject's now.   *)
HomesWithout(u) == [s \in Subjects |-> IF home[s] = u THEN NoRow ELSE home[s]]

Insert(w) ==
    /\ w.user \notin Present
    /\ EmailFits(w.user, w.row.email)
    /\ w.row.subject # NoSubject => SubjectFits(w.user, w.row.subject)
    /\ Update(w.user, w.row)
    /\ UNCHANGED <<links, home>>

Delete(w) ==
    /\ Update(w.user, NoRow)
    /\ home' = HomesWithout(w.user)
    /\ UNCHANGED links

SetPassword(w) ==
    /\ Update(w.user, [account[w.user] EXCEPT !.password = TRUE])
    /\ UNCHANGED <<links, home>>

ToLocalUser(w) ==
    /\ Update(w.user, [account[w.user] EXCEPT !.oidc = FALSE])
    /\ UNCHANGED <<links, home>>

Convert(w) ==
    /\ Update(w.user, [account[w.user] EXCEPT !.password = TRUE, !.oidc = FALSE])
    /\ UNCHANGED <<links, home>>

ChangeEmail(w) ==
    /\ EmailFits(w.user, Lowercase[w.email])
    /\ Update(w.user, [account[w.user] EXCEPT !.email = Lowercase[w.email]])
    /\ UNCHANGED <<links, home>>

SetSubject(w) ==
    /\ SubjectFits(w.user, w.subject)
    /\ Update(w.user, [account[w.user] EXCEPT !.subject = w.subject])
    /\ home' = HomesWithout(w.user)
    /\ UNCHANGED links

(* sync_from_oidc, and the session of the account that was resolved.  An   *)
(* address somebody else has is left alone.                                *)
SignIn(w) ==
    LET a == Lowercase[w.email] IN
    /\ Update(w.user, IF EmailFits(w.user, a) THEN [account[w.user] EXCEPT !.email = a]
                      ELSE account[w.user])
    /\ home' = [home EXCEPT ![w.subject] = w.user]
    /\ UNCHANGED links

Remind(w) == links' = links \union {w.email} /\ UNCHANGED <<account, home>>

Write(w) ==
    \/ w.does = "insert" /\ Insert(w)
    \/ w.does = "delete" /\ Delete(w)
    \/ w.does = "remind" /\ Remind(w)
    \/ /\ w.does \notin {"insert", "delete", "remind"} /\ w.user \in Present
       /\ \/ w.does \in {"password", "relink", "convert"} /\ SetPassword(w)
          \/ w.does = "unflag" /\ ToLocalUser(w)
          \/ w.does = "email" /\ ChangeEmail(w)
          \/ w.does = "link" /\ SetSubject(w)
          \/ w.does = "login" /\ SignIn(w)

-----------------------------------------------------------------------------
Login(u, s, a) == [does |-> "login", user |-> u, subject |-> s, email |-> a]

Continues(w) ==
    CASE w.does = "convert" -> [does |-> "unflag", user |-> w.user]
      [] w.does = "link" -> Login(w.user, w.subject, w.email)
      [] w.does = "insert" /\ w.row.oidc -> Login(w.user, w.row.subject, w.row.email)
      [] OTHER -> Nothing

(* A handler that nobody overtakes, to its end; but of the writes of a     *)
(* login that links or makes its account it does the first, and the next   *)
(* login does the second.                                                  *)
Handle ==
    /\ \E w \in Decided : IF w.does = "convert" THEN Convert(w) ELSE Write(w)
    /\ UNCHANGED slow

Overtaken ==
    /\ slow = Nothing
    /\ slow' \in Decided
    /\ UNCHANGED <<account, links, home>>

Resume ==
    /\ slow # Nothing
    /\ Write(slow)
    /\ slow' = Continues(slow)

(* The slow handler is refused, or its client is gone, or the process is:  *)
(* then the links go too.                                                  *)
Abandon ==
    /\ slow # Nothing
    /\ slow' = Nothing
    /\ links' \in {links, {}}
    /\ UNCHANGED <<account, home>>

(* The sweep of reset tokens (see Expiry). *)
Sweep ==
    /\ \E a \in links : links' = links \ {a}
    /\ UNCHANGED <<account, slow, home>>

(* Empty, or with a row from before m6: an OIDC user without a subject.    *)
AccountsInit ==
    /\ LET empty == [u \in AccountIds |-> NoRow] IN
       \/ account = empty
       \/ \E u \in AccountIds, a \in Addresses :
            account = [empty EXCEPT ![u] = Row(a, FALSE, TRUE, NoSubject)]
    /\ links = {}
    /\ slow = Nothing
    /\ home = [s \in Subjects |-> NoRow]

AccountsNext == Handle \/ Overtaken \/ Resume \/ Abandon \/ Sweep

AccountsSpec == AccountsInit /\ [][AccountsNext]_accountVars

-----------------------------------------------------------------------------
(* Properties *)

(* A user who has signed in through the provider comes back to the same    *)
(* account, whatever address the provider has for the user by now and      *)
(* whoever has the old one: resolve_oidc_user.  It ends with the account,  *)
(* or when a login that found the account without a subject links it late, *)
(* over the subject that another login linked in the meantime.             *)
HomeKept ==
    \A s \in Subjects, a \in Addresses :
       home[s] # NoRow => OidcLogin(s, a) = {Login(home[s], s, a)}

(* The OIDC user u gets a password. *)
GetsPassword(u) ==
    /\ u \in Provided /\ u \in Provided'
    /\ ~account[u].password /\ account'[u].password

(* "OIDC users cannot change their password" (account.rs), nor have it     *)
(* reset or sent a link: a user of the provider gets one only in a         *)
(* conversion, or by a link sent when a local user had the same address.   *)
ProviderPasswords ==
    [][\A u \in AccountIds : GetsPassword(u) =>
         \/ account[u].email \in links \/ slow = [does |-> "relink", user |-> u]
         \/ slow' = [does |-> "unflag", user |-> u]]_accountVars

(* There is a way in: the provider for its users, a password for others.   *)
CanSignIn(u) == IF u \in Provided THEN account[u].subject # NoSubject ELSE account[u].password

(* No write, in whatever order writes come and wherever a handler stops,   *)
(* takes from an account the last way to sign in to it.                    *)
SignInKept ==
    [][\A u \in AccountIds :
         /\ u \in Present' /\ (u \in Present => CanSignIn(u))
         => CanSignIn(u)']_accountVars
=============================================================================

---------------------------- MODULE ServerProofs ----------------------------
(***************************************************************************)
(* Expiry, Storage, Accounts, Avatars and LiveSettings, with any number of *)
(* entries, callers, users, handlers, painters and saves; Layers, with any *)
(* choice of features; and the ten components together.                    *)
(***************************************************************************)
EXTENDS MCServer, BootProofs, CredentialProofs, SequenceTheorems

-----------------------------------------------------------------------------
(* Expiry.  NoneOutlives alone is not inductive: an entry may be as old as *)
(* it can get only when the sweep is due.                                  *)

(* The sweeper starts with an empty map. *)
LEMMA ExpiryInitInv == ExpiryInit => ExpiryInv
BY ExpiryOK DEF ExpiryInit, ExpiryInv, ExpiryTypeOK, Entries

(* Time takes from the sweeper's rest what it adds to the ages; a sweep    *)
(* leaves what is younger than Life, and begins an interval.               *)
LEMMA ExpiryStep == ExpiryInv /\ [ExpiryNext]_expiryVars => ExpiryInv'
<1> SUFFICES ASSUME ExpiryInv, [ExpiryNext]_expiryVars
             PROVE  ExpiryInv'
    OBVIOUS
<1> USE ExpiryOK DEF ExpiryInv, ExpiryTypeOK, Entries
<1>1. ASSUME NEW k \in Keys, Enter(k)
      PROVE  ExpiryInv'
    <2>1. ExpiryTypeOK'
        BY <1>1 DEF Enter
    <2>2. \A j \in Entries' : age'[j] + rests' < Life + Interval
        BY <1>1 DEF Enter
    <2> QED BY <2>1, <2>2
<1>2. ASSUME NEW k \in Keys, TakeOut(k)
      PROVE  ExpiryInv'
    BY <1>2 DEF TakeOut
<1>3. CASE Passes
    <2>1. ExpiryTypeOK'
        BY <1>3 DEF Passes
    <2>2. \A j \in Entries' : age'[j] + rests' < Life + Interval
        BY <1>3 DEF Passes
    <2> QED BY <2>1, <2>2
<1>4. CASE SweepMap
    <2>1. ExpiryTypeOK'
        BY <1>4 DEF SweepMap
    <2>2. \A j \in Entries' : age'[j] + rests' < Life + Interval
        BY <1>4 DEF SweepMap, Kept
    <2> QED BY <2>1, <2>2
<1>5. CASE UNCHANGED expiryVars
    BY <1>5 DEF expiryVars
<1> QED
    BY <1>1, <1>2, <1>3, <1>4, <1>5 DEF ExpiryNext

(* No reset link, email change or OIDC state can be used when it is older  *)
(* than its life and one interval of the sweeper.                          *)
THEOREM NoEntryOutlives == ExpirySpec => []NoneOutlives
<1>1. ExpiryInv => NoneOutlives
    <2> SUFFICES ASSUME ExpiryInv, NEW k \in Entries
                 PROVE  age[k] < Life + Interval
        BY DEF NoneOutlives
    <2>1. /\ age[k] + rests < Life + Interval
          /\ age[k] \in Nat /\ rests \in Nat
        BY ExpiryOK DEF ExpiryInv, ExpiryTypeOK, Entries
    <2> QED BY <2>1, ExpiryOK
<1> QED
    BY <1>1, ExpiryInitInv, ExpiryStep, PTL DEF ExpirySpec

-----------------------------------------------------------------------------
(* Storage: what is stored is seen by every call under way; who acts has   *)
(* seen a file.                                                            *)

StorageCalls ==
    [does : {"nothing", "save", "get", "delete"}, at : {"copying", "head", "act", "answered"},
     with : Contents \union Ranges \union {NoContent, WholeFile},
     answer : Contents \union {NoContent, "ok", "400", "404", "500"},
     seen : SUBSET (Contents \union {NoContent}), failed : BOOLEAN]

(* What a call under way has seen. *)
Watches(q) ==
    /\ q.does # "nothing" /\ stored \in q.seen
    /\ q.at = "copying" <=> q.does = "save"
    /\ q.does = "save" => q.with \in Contents
    /\ q.at = "act" => \E x \in q.seen : x # NoContent

(* AnswersTrue, of one call. *)
AnswerTrue(q) ==
    q.at = "answered" /\ ~q.failed =>
      /\ q.answer \in Contents => q.does = "get" /\ q.answer \in q.seen
      /\ q.answer = "404" => NoContent \in q.seen
      /\ q.answer = "ok" /\ q.does = "delete" => NoContent \in q.seen
      /\ q.answer = "ok" /\ q.does = "save" => q.with \in q.seen
      /\ q.answer = "500" =>
           \/ NoContent \in q.seen /\ q.seen # {NoContent}
           \/ q.does = "get" /\ \E x \in q.seen \ {NoContent} : ~Satisfiable(q.with, x)

(* The inductive invariant of the storage. *)
StorageInv ==
    /\ stored \in Contents \union {NoContent}
    /\ calls \in [Callers -> StorageCalls]
    /\ \A c \in Callers : ~Resting(c) => Watches(calls[c])
    /\ \A c \in Callers : AnswerTrue(calls[c])

LEMMA StorageInitInv == StorageInit => StorageInv
BY StorageOK DEF StorageInit, StorageInv, StorageCalls, Call, AnswerTrue, Resting

(* One call has taken a step from which it comes out as q, and the file is *)
(* as it was.                                                              *)
LEMMA CallSteps ==
    ASSUME StorageInv, NEW c \in Callers, NEW q \in StorageCalls,
           q.at # "answered" => Watches(q), AnswerTrue(q),
           calls' = [calls EXCEPT ![c] = q], UNCHANGED stored
    PROVE  StorageInv'
BY DEF StorageInv, Resting, Watches, AnswerTrue

(* One call has ended as q, and the file is x now. *)
LEMMA FileChanges ==
    ASSUME StorageInv, NEW c \in Callers, NEW q \in StorageCalls, q.at = "answered",
           AnswerTrue(q), NEW x \in Contents \union {NoContent}, stored' = x,
           calls' = [See(x) EXCEPT ![c] = q]
    PROVE  StorageInv'
<1>1. See(x) \in [Callers -> StorageCalls]
    BY DEF See, StorageInv, StorageCalls
<1>2. calls' \in [Callers -> StorageCalls]
    BY <1>1
<1>3. calls'[c] = q
    BY <1>1
<1>4. ASSUME NEW d \in Callers, d # c
      PROVE  /\ calls'[d].at # "answered" => Watches(calls[d])'
             /\ AnswerTrue(calls'[d])
    <2>1. calls'[d] = IF Resting(d) THEN calls[d] ELSE [calls[d] EXCEPT !.seen = @ \union {x}]
        BY <1>1, <1>4 DEF See
    <2>2. CASE Resting(d)
        BY <2>1, <2>2 DEF StorageInv, Resting
    <2>3. CASE ~Resting(d)
        BY <2>1, <2>3 DEF StorageInv, Resting, Watches, AnswerTrue, StorageCalls
    <2> QED BY <2>2, <2>3
<1> QED
    BY <1>2, <1>3, <1>4 DEF StorageInv, Resting, AnswerTrue

(* Every step of a call leaves the others with what they have seen. *)
LEMMA StorageStep == StorageInv /\ [StorageNext]_storageVars => StorageInv'
<1> SUFFICES ASSUME StorageInv, [StorageNext]_storageVars
             PROVE  StorageInv'
    OBVIOUS
<1> USE StorageOK
<1>1. ASSUME NEW c \in Callers, NEW content \in Contents, SaveFile(c, content)
      PROVE  StorageInv'
    <2> DEFINE q == Call("save", "copying", content, {stored})
    <2>1. q \in StorageCalls /\ Watches(q) /\ AnswerTrue(q)
        BY DEF StorageInv, StorageCalls, Call, Watches, AnswerTrue
    <2> QED BY <1>1, <2>1, CallSteps DEF SaveFile
<1>2. ASSUME NEW c \in Callers, NEW range \in Ranges \union {WholeFile}, GetFile(c, range)
      PROVE  StorageInv'
    <2> DEFINE q == Call("get", "head", range, {stored})
    <2>1. q \in StorageCalls /\ Watches(q) /\ AnswerTrue(q)
        BY DEF StorageInv, StorageCalls, Call, Watches, AnswerTrue
    <2> QED BY <1>2, <2>1, CallSteps DEF GetFile
<1>3. ASSUME NEW c \in Callers, DeleteFile(c)
      PROVE  StorageInv'
    <2> DEFINE q == Call("delete", "head", NoContent, {stored})
    <2>1. q \in StorageCalls /\ Watches(q) /\ AnswerTrue(q)
        BY DEF StorageInv, StorageCalls, Call, Watches, AnswerTrue
    <2> QED BY <1>3, <2>1, CallSteps DEF DeleteFile
<1>4. ASSUME NEW c \in Callers, Put(c)
      PROVE  StorageInv'
    <2> DEFINE x == calls[c].with
               q == [calls[c] EXCEPT !.seen = @ \union {x}, !.at = "answered", !.answer = "ok"]
    <2>1. ~Resting(c) /\ calls[c] \in StorageCalls /\ Watches(calls[c])
        BY <1>4 DEF StorageInv, Put, Resting
    <2>2. x \in Contents /\ q \in StorageCalls /\ AnswerTrue(q)
        BY <1>4, <2>1 DEF StorageCalls, Watches, AnswerTrue, Put
    <2>3. calls' = [See(x) EXCEPT ![c] = q]
        BY <1>4, <2>1, <2>2 DEF Put, See, StorageCalls
    <2> QED BY <1>4, <2>2, <2>3, FileChanges DEF Put, StorageCalls
<1>5. ASSUME NEW c \in Callers, AskHead(c)
      PROVE  StorageInv'
    <2>1. calls[c] \in StorageCalls /\ Watches(calls[c])
        BY <1>5 DEF StorageInv, AskHead, Resting
    <2>2. CASE Exists
        <3> DEFINE q == [calls[c] EXCEPT !.at = "act"]
        <3>1. q \in StorageCalls /\ Watches(q) /\ AnswerTrue(q)
            BY <1>5, <2>1, <2>2 DEF StorageInv, StorageCalls, Watches, AnswerTrue, Exists, AskHead
        <3>2. calls' = [calls EXCEPT ![c] = q]
            BY <1>5, <2>2 DEF AskHead, StorageInv
        <3> QED BY <1>5, <3>1, <3>2, CallSteps DEF AskHead
    <2>3. CASE ~Exists
        <3> DEFINE q == [calls[c] EXCEPT !.at = "answered",
                                         !.answer = IF calls[c].does = "get" THEN "404" ELSE "ok"]
        <3>1. q \in StorageCalls /\ q.at = "answered" /\ AnswerTrue(q)
            BY <1>5, <2>1, <2>3 DEF StorageCalls, Watches, AnswerTrue, Exists, AskHead
        <3>2. calls' = [calls EXCEPT ![c] = q]
            BY <1>5, <2>3 DEF AskHead, StorageInv, Answers
        <3> QED BY <1>5, <3>1, <3>2, CallSteps DEF AskHead
    <2> QED BY <2>2, <2>3
<1>6. ASSUME NEW c \in Callers, Get(c)
      PROVE  StorageInv'
    <2>1. calls[c] \in StorageCalls /\ Watches(calls[c])
        BY <1>6 DEF StorageInv, Get, Resting
    <2> DEFINE good == stored # NoContent /\ Satisfiable(calls[c].with, stored)
               q == [calls[c] EXCEPT !.at = "answered", !.answer = IF good THEN stored ELSE "500"]
    <2>2. calls' = [calls EXCEPT ![c] = q]
        BY <1>6 DEF Get, StorageInv, Answers
    <2>3. q \in StorageCalls /\ q.at = "answered"
        BY <2>1 DEF StorageCalls, StorageInv
    <2>4. AnswerTrue(q)
        <3>1. CASE good
            BY <1>6, <2>1, <3>1 DEF StorageCalls, Watches, AnswerTrue, Get, StorageInv
        <3>2. CASE ~good
            BY <1>6, <2>1, <3>2 DEF StorageCalls, Watches, AnswerTrue, Get, StorageInv
        <3> QED BY <3>1, <3>2
    <2> QED BY <1>6, <2>2, <2>3, <2>4, CallSteps DEF Get
<1>7. ASSUME NEW c \in Callers, DeleteObject(c)
      PROVE  StorageInv'
    <2> DEFINE answer == IF stored = NoContent /\ kind = "Local" THEN "500" ELSE "ok"
               q == [calls[c] EXCEPT !.seen = @ \union {NoContent}, !.at = "answered",
                                     !.answer = answer]
    <2>1. ~Resting(c) /\ calls[c] \in StorageCalls /\ Watches(calls[c])
        BY <1>7 DEF StorageInv, DeleteObject, Resting
    <2>2. q \in StorageCalls /\ q.at = "answered" /\ AnswerTrue(q)
        BY <1>7, <2>1 DEF StorageCalls, Watches, AnswerTrue, DeleteObject
    <2>3. calls' = [See(NoContent) EXCEPT ![c] = q]
        BY <1>7, <2>1 DEF DeleteObject, See, StorageCalls
    <2> QED BY <1>7, <2>2, <2>3, FileChanges DEF DeleteObject
<1>8. ASSUME NEW c \in Callers, Fail(c)
      PROVE  StorageInv'
    <2>1. calls[c] \in StorageCalls
        BY DEF StorageInv
    <2> DEFINE q == [calls[c] EXCEPT !.at = "answered",
                                     !.answer = IF calls[c].at = "head" THEN "400" ELSE "500",
                                     !.failed = TRUE]
    <2>2. q \in StorageCalls /\ q.at = "answered" /\ AnswerTrue(q)
        BY <2>1 DEF StorageCalls, AnswerTrue
    <2>3. calls' = [calls EXCEPT ![c] = q]
        BY <1>8 DEF Fail, StorageInv, Fails
    <2> QED BY <1>8, <2>2, <2>3, CallSteps DEF Fail
<1>9. CASE UNCHANGED storageVars
    BY <1>9 DEF storageVars, StorageInv, Resting, Watches, AnswerTrue
<1> QED
    BY <1>1, <1>2, <1>3, <1>4, <1>5, <1>6, <1>7, <1>8, <1>9 DEF StorageNext

(* Whatever callers do at once, what they are told of the file was true at *)
(* a moment of their call.                                                 *)
THEOREM StorageAnswersTruly == StorageSpec => []AnswersTrue
<1>1. StorageInv => AnswersTrue
    BY DEF StorageInv, AnswersTrue, AnswerTrue, Resting
<1> QED
    BY <1>1, StorageInitInv, StorageStep, PTL DEF StorageSpec
-----------------------------------------------------------------------------
(* Accounts: the subjects of two rows differ, the account a subject signed *)
(* in to has the subject, and what the overtaken handler has seen of its   *)
(* row still holds of it when it writes.                                   *)

(* What a write that is decided on relies on, until it is written. *)
Good(w) ==
    /\ w.does = "login" /\ w.user \in Present => account[w.user].subject = w.subject
    /\ w.does = "insert" => IF w.row.oidc THEN w.row.subject \in Subjects
                            ELSE w.row.password /\ w.row.subject = NoSubject
    /\ w.does = "password" /\ w.user \in Present => ~account[w.user].oidc
    /\ w.does = "unflag" /\ w.user \in Present => account[w.user].password

SubjectsDiffer ==
    \A u, v \in Present :
       account[u].subject = account[v].subject /\ account[u].subject # NoSubject => u = v

HomesOwned ==
    \A s \in Subjects : home[s] # NoRow => home[s] \in Present /\ account[home[s]].subject = s

(* The inductive invariant of the accounts. *)
AccountsInv ==
    /\ AccountsTypeOK
    /\ SubjectsDiffer
    /\ HomesOwned
    /\ slow # Nothing => Good(slow)

(* The fields a write has. *)
LEMMA WriteFields ==
    ASSUME NEW w \in Writes
    PROVE  /\ w.does \in {"insert", "delete", "password", "relink", "convert", "unflag", "email",
                          "remind", "login", "link"}
           /\ w.does # "remind" => w.user \in AccountIds
           /\ w.does = "insert" => w.row \in Rows
           /\ w.does \in {"email", "login", "link", "remind"} => w.email \in Addresses
           /\ w.does \in {"login", "link"} => w.subject \in Subjects
BY DEF Writes

(* A login goes to the account of the subject, links one without a subject *)
(* or makes one. *)
LEMMA OidcDecided ==
    ASSUME AccountsInv, NEW s \in Subjects, NEW a \in Addresses, NEW w \in OidcLogin(s, a)
    PROVE  /\ w \in Writes
           /\ \/ /\ w.does = "login" /\ w.user \in Present /\ w.subject = s
                 /\ account[w.user].subject = s
              \/ /\ w.does = "link" /\ w.user \in Present /\ account[w.user].subject = NoSubject
              \/ /\ w.does = "insert" /\ w.user \in Fresh
                 /\ w.row = Row(a, FALSE, TRUE, s)
<1>1. CASE w \in ResolveOidcUser(s, a)
    <2> DEFINE own == {u \in Present : account[u].subject = s}
               free == {u \in Holding(a) : account[u].subject = NoSubject}
    <2>1. CASE w \in [does : {"login"}, user : own, subject : {s}, email : {a}]
        BY <2>1 DEF Writes, Present
    <2>2. CASE w \in [does : {"link"}, user : free, subject : {s}, email : {a}]
        BY <2>2 DEF Writes, Present, Holding
    <2> QED BY <1>1, <2>1, <2>2 DEF ResolveOidcUser
<1>2. CASE w \notin ResolveOidcUser(s, a)
    <2>1. PICK u \in Fresh : w = [does |-> "insert", user |-> u, row |-> Row(a, FALSE, TRUE, s)]
        BY <1>2 DEF OidcLogin
    <2>2. Row(a, FALSE, TRUE, s) \in Rows
        BY DEF Row, Rows
    <2> QED BY <2>1, <2>2 DEF Writes, Fresh
<1> QED BY <1>1, <1>2

(* What is decided on is good, *)
LEMMA DecidedIsGood ==
    ASSUME AccountsInv, NEW w \in Decided
    PROVE  /\ w \in Writes /\ Good(w)
           /\ w.does \in {"login", "link", "relink", "convert"} => w.user \in Present
           /\ w.does = "insert" => w.user \in Fresh
           /\ w.does = "link" => account[w.user].subject = NoSubject
           /\ w.does = "relink" => account[w.user].email \in links
           /\ w.does # "unflag"
<1> DEFINE Fit == /\ w \in Writes /\ Good(w)
                  /\ w.does \in {"login", "link", "relink", "convert"} => w.user \in Present
                  /\ w.does = "insert" => w.user \in Fresh
                  /\ w.does = "link" => account[w.user].subject = NoSubject
                  /\ w.does = "relink" => account[w.user].email \in links
                  /\ w.does # "unflag"
<1>1. CASE w \in CreateUser
    <2>1. \A a \in Addresses : LET r == Row(a, TRUE, FALSE, NoSubject)
                              IN  r \in Rows /\ r.password /\ ~r.oidc /\ r.subject = NoSubject
        BY DEF Row, Rows
    <2>2. w \in [does : {"insert"}, user : Fresh,
                 row : {Row(a, TRUE, FALSE, NoSubject) : a \in Addresses}]
        BY <1>1 DEF CreateUser
    <2>3. w \in Writes
        <3>1. Fresh \subseteq AccountIds
            BY DEF Fresh
        <3>2. {Row(a, TRUE, FALSE, NoSubject) : a \in Addresses} \subseteq Rows
            BY <2>1
        <3>3. w \in [does : {"insert"}, user : AccountIds, row : Rows]
            BY <2>2, <3>1, <3>2
        <3> QED BY <3>3 DEF Writes
    <2> QED BY <2>1, <2>2, <2>3 DEF Good
<1>2. CASE w \in DeleteUser
    BY <1>2 DEF DeleteUser, Writes, Good
<1>3. CASE w \in UpdatePassword
    BY <1>3 DEF UpdatePassword, Writes, Good, Local, Present
<1>4. CASE w \in ResetUserPassword
    BY <1>4 DEF ResetUserPassword, Writes, Good, Local, Present
<1>5. CASE w \in ConvertOidcUser
    BY <1>5 DEF ConvertOidcUser, Writes, Good, Provided, Present
<1>6. CASE w \in ChangeUserEmail
    BY <1>6 DEF ChangeUserEmail, Writes, Good, Local, Present
<1>7. CASE w \in ConfirmEmailChange
    BY <1>7 DEF ConfirmEmailChange, Writes, Good, Local, Present
<1>8. CASE w \in SendResetLink
    <2>1. \A u \in Local : account[u].email \in Addresses
        BY DEF AccountsInv, AccountsTypeOK, Rows, Local, Present
    <2> QED BY <1>8, <2>1 DEF SendResetLink, Writes, Good
<1>9. CASE w \in ResetPassword
    BY <1>9 DEF ResetPassword, Writes, Good, Present
<1>10. ASSUME NEW s \in Subjects, NEW a \in Addresses, w \in OidcLogin(s, a)
       PROVE  Fit
    <2>1. w \in Writes
        BY <1>10, OidcDecided
    <2>2. CASE w.does = "insert"
        <3>1. w.row = Row(a, FALSE, TRUE, s) /\ w.user \in Fresh
            BY <1>10, <2>2, OidcDecided
        <3>2. w.row.oidc /\ w.row.subject = s
            BY <3>1 DEF Row
        <3> QED BY <2>1, <2>2, <3>1, <3>2 DEF Good
    <2>3. CASE w.does # "insert"
        BY <1>10, <2>1, <2>3, OidcDecided DEF Good
    <2> QED BY <2>2, <2>3
<1>11. \/ w \in CreateUser \/ w \in DeleteUser \/ w \in UpdatePassword
       \/ w \in ResetUserPassword \/ w \in ConvertOidcUser \/ w \in ChangeUserEmail
       \/ w \in ConfirmEmailChange \/ w \in SendResetLink \/ w \in ResetPassword
       \/ w \in OidcLogins
    <2> HIDE DEF Fit
    <2> QED BY DEF Decided
<1>12. w \in OidcLogins => \E s \in Subjects, a \in Addresses : w \in OidcLogin(s, a)
    <2> HIDE DEF Fit
    <2> QED BY DEF OidcLogins
<1> QED
    BY <1>1, <1>2, <1>3, <1>4, <1>5, <1>6, <1>7, <1>8, <1>9, <1>10, <1>11, <1>12

(* An update changes its row and no other. *)
LEMMA Updated ==
    ASSUME AccountsTypeOK, NEW u \in AccountIds, NEW rec \in Rows \union {NoRow}, Update(u, rec)
    PROVE  /\ account' \in [AccountIds -> Rows \union {NoRow}]
           /\ account'[u] = rec
           /\ \A v \in AccountIds \ {u} : account'[v] = account[v]
BY DEF AccountsTypeOK, Update

(* The row of a user who stays, after a write other than "link": *)
Held(u, rec) ==
    /\ rec.subject = account[u].subject
    /\ account[u].password => rec.password
    /\ rec.oidc => account[u].oidc

(* What a write makes of its row, *)
Makes(w, rec) ==
    \/ /\ w.does = "insert" /\ w.user \notin Present /\ rec = w.row /\ home' = home
       /\ rec.subject # NoSubject => SubjectFits(w.user, rec.subject)
    \/ w.does = "delete" /\ rec = NoRow /\ home' = HomesWithout(w.user)
    \/ /\ w.does = "link" /\ w.user \in Present /\ SubjectFits(w.user, w.subject)
       /\ rec \in Rows /\ rec.subject = w.subject /\ home' = HomesWithout(w.user)
       /\ rec.oidc = account[w.user].oidc /\ rec.password = account[w.user].password
    \/ /\ w.does = "login" /\ w.user \in Present /\ rec \in Rows /\ Held(w.user, rec)
       /\ rec.oidc = account[w.user].oidc /\ rec.password = account[w.user].password
       /\ home' = [home EXCEPT ![w.subject] = w.user]
    \/ /\ w.does \in {"password", "relink", "convert", "email", "unflag"}
       /\ w.user \in Present /\ rec \in Rows /\ Held(w.user, rec) /\ home' = home
       /\ IF w.does \in {"unflag", "email"} THEN rec.password = account[w.user].password
          ELSE rec.password
       /\ w.does = "email" => rec.oidc = account[w.user].oidc

(* A write as it is done: of a conversion both halves may be done at once. *)
Does(w) == IF w.does = "convert" THEN Convert(w) \/ Write(w) ELSE Write(w)

(* Each write updates at most the row of its user, to what Makes says. *)
LEMMA WriteMakes ==
    ASSUME AccountsTypeOK, NEW w \in Writes, Does(w), w.does = "convert" => w.user \in Present
    PROVE  /\ links' \subseteq Addresses
           /\ \/ w.does = "remind" /\ account' = account /\ home' = home
              \/ /\ w.does # "remind" /\ w.user \in AccountIds
                 /\ \E rec \in Rows \union {NoRow} : Update(w.user, rec) /\ Makes(w, rec)
<1>0. ASSUME w.does # "remind", NEW rec \in Rows \union {NoRow}, Update(w.user, rec),
             Makes(w, rec), links' = links
      PROVE  /\ links' \subseteq Addresses /\ w.user \in AccountIds
             /\ \E r \in Rows \union {NoRow} : Update(w.user, r) /\ Makes(w, r)
    BY <1>0, WriteFields DEF AccountsTypeOK
<1>u. w.user \in Present => w.user \in AccountIds /\ account[w.user] \in Rows
    BY DEF Present, AccountsTypeOK
<1>1. CASE w.does = "insert" /\ Insert(w)
    <2>1. w.row \in Rows /\ Update(w.user, w.row) /\ Makes(w, w.row) /\ links' = links
        BY <1>1, WriteFields DEF Insert, Makes
    <2> QED BY <1>0, <1>1, <2>1
<1>2. CASE w.does = "delete" /\ Delete(w)
    <2>1. Update(w.user, NoRow) /\ Makes(w, NoRow) /\ links' = links
        BY <1>2 DEF Delete, Makes
    <2> QED BY <1>0, <1>2, <2>1
<1>3. CASE w.does = "remind" /\ Remind(w)
    BY <1>3, WriteFields DEF Remind, AccountsTypeOK
<1>4. ASSUME w.user \in Present, w.does \in {"password", "relink", "convert"},
             SetPassword(w)
      PROVE  \E r \in Rows : Update(w.user, r) /\ Makes(w, r) /\ links' = links
    <2> DEFINE r == [account[w.user] EXCEPT !.password = TRUE]
    <2>1. r \in Rows /\ Held(w.user, r) /\ r.password
        BY <1>4, <1>u DEF Rows, Held
    <2>2. Update(w.user, r) /\ home' = home /\ links' = links
        BY <1>4 DEF SetPassword
    <2> QED BY <1>4, <2>1, <2>2 DEF Makes
<1>5. ASSUME w.user \in Present, w.does = "unflag", ToLocalUser(w)
      PROVE  \E r \in Rows : Update(w.user, r) /\ Makes(w, r) /\ links' = links
    <2> DEFINE r == [account[w.user] EXCEPT !.oidc = FALSE]
    <2>1. r \in Rows /\ Held(w.user, r) /\ r.password = account[w.user].password
        BY <1>5, <1>u DEF Rows, Held
    <2>2. Update(w.user, r) /\ home' = home /\ links' = links
        BY <1>5 DEF ToLocalUser
    <2> QED BY <1>5, <2>1, <2>2 DEF Makes
<1>6. ASSUME w.user \in Present, w.does = "convert", Convert(w)
      PROVE  \E r \in Rows : Update(w.user, r) /\ Makes(w, r) /\ links' = links
    <2> DEFINE r == [account[w.user] EXCEPT !.password = TRUE, !.oidc = FALSE]
    <2>1. r \in Rows /\ Held(w.user, r) /\ r.password
        BY <1>6, <1>u DEF Rows, Held
    <2>2. Update(w.user, r) /\ home' = home /\ links' = links
        BY <1>6 DEF Convert
    <2> QED BY <1>6, <2>1, <2>2 DEF Makes
<1>7. ASSUME w.user \in Present, w.does = "email", ChangeEmail(w)
      PROVE  \E r \in Rows : Update(w.user, r) /\ Makes(w, r) /\ links' = links
    <2> DEFINE r == [account[w.user] EXCEPT !.email = Lowercase[w.email]]
    <2>1. /\ r \in Rows /\ Held(w.user, r)
          /\ r.password = account[w.user].password /\ r.oidc = account[w.user].oidc
        BY <1>7, <1>u, WriteFields, AccountsOK DEF Rows, Held
    <2>2. Update(w.user, r) /\ home' = home /\ links' = links
        BY <1>7 DEF ChangeEmail
    <2> QED BY <1>7, <2>1, <2>2 DEF Makes
<1>8. ASSUME w.user \in Present, w.does = "link", SetSubject(w)
      PROVE  \E r \in Rows : Update(w.user, r) /\ Makes(w, r) /\ links' = links
    <2> DEFINE r == [account[w.user] EXCEPT !.subject = w.subject]
    <2>1. /\ r \in Rows /\ r.subject = w.subject
          /\ r.oidc = account[w.user].oidc /\ r.password = account[w.user].password
        BY <1>8, <1>u, WriteFields DEF Rows
    <2>2. /\ Update(w.user, r) /\ links' = links
          /\ SubjectFits(w.user, w.subject) /\ home' = HomesWithout(w.user)
        BY <1>8 DEF SetSubject
    <2> QED BY <1>8, <2>1, <2>2 DEF Makes
<1>9. ASSUME w.user \in Present, w.does = "login", SignIn(w)
      PROVE  \E r \in Rows : Update(w.user, r) /\ Makes(w, r) /\ links' = links
    <2> DEFINE r == IF EmailFits(w.user, Lowercase[w.email])
                    THEN [account[w.user] EXCEPT !.email = Lowercase[w.email]]
                    ELSE account[w.user]
    <2>1. /\ r \in Rows /\ Held(w.user, r)
          /\ r.oidc = account[w.user].oidc /\ r.password = account[w.user].password
        BY <1>9, <1>u, WriteFields, AccountsOK DEF Rows, Held
    <2>2. Update(w.user, r) /\ links' = links /\ home' = [home EXCEPT ![w.subject] = w.user]
        BY <1>9 DEF SignIn
    <2> QED BY <1>9, <2>1, <2>2 DEF Makes
<1>10. \/ w.does = "insert" /\ Insert(w)
       \/ w.does = "delete" /\ Delete(w)
       \/ w.does = "remind" /\ Remind(w)
       \/ /\ w.user \in Present
          /\ \/ w.does \in {"password", "relink", "convert"} /\ SetPassword(w)
             \/ w.does = "unflag" /\ ToLocalUser(w)
             \/ w.does = "convert" /\ Convert(w)
             \/ w.does = "email" /\ ChangeEmail(w)
             \/ w.does = "link" /\ SetSubject(w)
             \/ w.does = "login" /\ SignIn(w)
    BY DEF Does, Write
<1>11. ASSUME w.does # "remind", \E r \in Rows : Update(w.user, r) /\ Makes(w, r) /\ links' = links
       PROVE  /\ links' \subseteq Addresses /\ w.user \in AccountIds
              /\ \E r \in Rows \union {NoRow} : Update(w.user, r) /\ Makes(w, r)
    BY <1>0, <1>11
<1> QED BY <1>1, <1>2, <1>3, <1>4, <1>5, <1>6, <1>7, <1>8, <1>9, <1>10, <1>11

(* and what is true of the rows and homes after it. *)
LEMMA MakesKeeps ==
    ASSUME AccountsTypeOK, SubjectsDiffer, HomesOwned,
           NEW w \in Writes, Good(w), w.does # "remind", w.user \in AccountIds,
           NEW rec \in Rows \union {NoRow}, Update(w.user, rec), Makes(w, rec)
    PROVE  /\ account' \in [AccountIds -> Rows \union {NoRow}]
           /\ home' \in [Subjects -> AccountIds \union {NoRow}]
           /\ SubjectsDiffer' /\ HomesOwned'
<1> DEFINE u == w.user
<1>1. /\ account' \in [AccountIds -> Rows \union {NoRow}] /\ account'[u] = rec
      /\ \A v \in AccountIds \ {u} : account'[v] = account[v]
    BY Updated
<1>2. /\ NoRow \notin AccountIds /\ NoRow \notin Rows
      /\ Present' = {v \in AccountIds : account'[v] # NoRow}
      /\ Present = {v \in AccountIds : account[v] # NoRow}
    BY NoRowOK DEF Present
<1>3. w.does \in {"login", "link"} => w.subject \in Subjects
    BY WriteFields
<1>4. home' \in [Subjects -> AccountIds \union {NoRow}]
    BY <1>3 DEF Makes, HomesWithout, AccountsTypeOK
<1>5. rec # NoRow /\ rec.subject # NoSubject
      => \A v \in Present \ {u} : account[v].subject # rec.subject
    <2>1. CASE w.does = "insert"
        BY <2>1 DEF Makes, SubjectFits
    <2>2. CASE w.does = "link"
        BY <2>2 DEF Makes, SubjectFits
    <2>3. CASE w.does \notin {"insert", "link"}
        <3>1. rec # NoRow => u \in Present /\ rec.subject = account[u].subject
            BY <2>3 DEF Makes, Held
        <3> QED BY <3>1 DEF SubjectsDiffer
    <2> QED BY <2>1, <2>2, <2>3
<1>6. SubjectsDiffer'
    <2> SUFFICES ASSUME NEW v \in Present', NEW x \in Present',
                        account'[v].subject = account'[x].subject,
                        account'[v].subject # NoSubject
                 PROVE  v = x
        BY DEF SubjectsDiffer
    <2>1. v = u \/ (v \in Present /\ account'[v] = account[v])
        BY <1>1, <1>2
    <2>2. x = u \/ (x \in Present /\ account'[x] = account[x])
        BY <1>1, <1>2
    <2>3. u \in Present' => rec # NoRow /\ account'[u] = rec
        BY <1>1, <1>2
    <2> QED BY <2>1, <2>2, <2>3, <1>5 DEF SubjectsDiffer
<1>7. HomesOwned'
    <2> SUFFICES ASSUME NEW s \in Subjects, home'[s] # NoRow
                 PROVE  home'[s] \in Present' /\ account'[home'[s]].subject = s
        BY DEF HomesOwned
    <2>1. home[s] # NoRow => home[s] \in Present /\ account[home[s]].subject = s
        BY DEF HomesOwned
    <2>2. CASE home'[s] = home[s] /\ home[s] # u
        BY <2>1, <2>2, <1>1, <1>2
    <2>3. CASE w.does \in {"delete", "link"}
        <3>1. home'[s] = IF home[s] = u THEN NoRow ELSE home[s]
            BY <2>3 DEF Makes, HomesWithout
        <3> QED BY <2>2, <3>1
    <2>4. CASE w.does = "insert"
        <3>1. home' = home /\ u \notin Present
            BY <2>4 DEF Makes
        <3> QED BY <2>1, <2>2, <3>1
    <2>5. CASE w.does \notin {"delete", "link", "insert"}
        <3>1. /\ u \in Present /\ rec \in Rows /\ rec.subject = account[u].subject
              /\ \/ home' = home
                 \/ w.does = "login" /\ home' = [home EXCEPT ![w.subject] = u]
            BY <2>5 DEF Makes, Held
        <3>2. u \in Present' /\ account'[u].subject = account[u].subject
            BY <3>1, <1>1, <1>2
        <3>3. CASE home'[s] = home[s]
            BY <2>1, <2>2, <3>2, <3>3
        <3>4. CASE w.does = "login" /\ s = w.subject /\ home'[s] = u
            BY <3>1, <3>2, <3>4 DEF Good
        <3> QED BY <3>1, <3>3, <3>4, <1>3 DEF AccountsTypeOK
    <2> QED BY <2>3, <2>4, <2>5
<1> QED BY <1>1, <1>4, <1>6, <1>7

(* A write keeps the invariant of rows and homes. *)
LEMMA WriteKeeps ==
    ASSUME AccountsTypeOK, SubjectsDiffer, HomesOwned,
           NEW w \in Writes, Good(w), Does(w), w.does = "convert" => w.user \in Present
    PROVE  /\ account' \in [AccountIds -> Rows \union {NoRow}]
           /\ home' \in [Subjects -> AccountIds \union {NoRow}]
           /\ links' \subseteq Addresses
           /\ SubjectsDiffer' /\ HomesOwned'
<1>1. CASE w.does = "remind"
    <2>1. account' = account /\ home' = home /\ links' \subseteq Addresses
        BY <1>1, WriteMakes DEF Makes
    <2>2. Present' = Present
        BY <2>1 DEF Present
    <2> QED BY <2>1, <2>2 DEF AccountsTypeOK, SubjectsDiffer, HomesOwned
<1>2. CASE w.does # "remind"
    BY <1>2, WriteMakes, MakesKeeps
<1> QED BY <1>1, <1>2

(* What a write leaves to a user who was there before, *)
LEMMA Others ==
    ASSUME AccountsTypeOK, NEW w \in Writes, Good(w), Does(w),
           w.does = "convert" => w.user \in Present,
           NEW x \in Present', ~(w.does = "insert" /\ w.user = x)
    PROVE  /\ x \in Present
           /\ account[x].password => account'[x].password
           /\ account'[x].oidc => account[x].oidc
           /\ account[x].oidc => account'[x].oidc \/ account'[x].password
           /\ ~(w.does = "link" /\ w.user = x) => account'[x].subject = account[x].subject
           /\ account'[x].password =>
                \/ account[x].password
                \/ w.does \in {"password", "relink", "convert"} /\ w.user = x
<1>1. CASE w.does = "remind"
    BY <1>1, WriteMakes DEF Makes, Present
<1>2. CASE w.does # "remind"
    <2>1. PICK rec \in Rows \union {NoRow} : Update(w.user, rec) /\ Makes(w, rec)
        BY <1>2, WriteMakes
    <2>2. /\ w.user \in AccountIds /\ account'[w.user] = rec
          /\ \A v \in AccountIds \ {w.user} : account'[v] = account[v]
        BY <1>2, <2>1, WriteFields, Updated
    <2>3. x \in AccountIds /\ account'[x] # NoRow
        BY DEF Present
    <2>4. CASE x # w.user
        BY <2>2, <2>3, <2>4 DEF Present
    <2>5. CASE x = w.user
        BY <2>1, <2>2, <2>3, <2>5 DEF Makes, Held, Good
    <2> QED BY <2>4, <2>5
<1> QED BY <1>1, <1>2

(* and what it gives to its own. *)
LEMMA Target ==
    ASSUME AccountsTypeOK, NEW w \in Writes, Does(w),
           w.does \in {"insert", "link", "convert"}, w.does = "convert" => w.user \in Present
    PROVE  /\ w.does = "insert" => account'[w.user] = w.row
           /\ w.does = "link" => account'[w.user].subject = w.subject
           /\ w.does = "convert" => account'[w.user].password
<1>1. PICK rec \in Rows \union {NoRow} : Update(w.user, rec) /\ Makes(w, rec)
    BY WriteMakes
<1>2. w.user \in AccountIds /\ account'[w.user] = rec
    BY <1>1, WriteFields, Updated
<1> QED BY <1>1, <1>2 DEF Makes

(* A slow handler may count on what it relies on when others write, *)
LEMMA HandleLeavesGood ==
    ASSUME AccountsInv, Handle, slow # Nothing
    PROVE  Good(slow)'
<1>1. PICK w \in Decided : IF w.does = "convert" THEN Convert(w) ELSE Write(w)
    BY DEF Handle
<1>2. /\ w \in Writes /\ Good(w) /\ Does(w)
      /\ w.does = "insert" => w.user \in Fresh
      /\ w.does = "link" => account[w.user].subject = NoSubject
    BY <1>1, DecidedIsGood DEF Does
<1>3. w.does = "convert" => w.user \in Present
    BY <1>1, DecidedIsGood
<1>4. slow' = slow /\ slow \in Writes /\ Good(slow) /\ AccountsTypeOK
    BY DEF Handle, AccountsInv, AccountsTypeOK
<1>5. ASSUME slow.user \in Present', slow.does # "remind"
      PROVE  /\ slow.user \in Present
             /\ account[slow.user].password => account'[slow.user].password
             /\ account'[slow.user].oidc => account[slow.user].oidc
             /\ account[slow.user].subject # NoSubject
                => account'[slow.user].subject = account[slow.user].subject
    <2>1. ~(w.does = "insert" /\ w.user = slow.user)
        BY <1>2, <1>5 DEF Fresh
    <2> QED BY <2>1, <1>2, <1>3, <1>4, <1>5, Others
<1>6. slow.does = "login" => slow.subject # NoSubject
    BY <1>4, WriteFields, AccountsOK
<1> QED BY <1>4, <1>5, <1>6 DEF Good

(* and goes on with a write that is good. *)
LEMMA ResumeLeavesGood ==
    ASSUME AccountsInv, Resume
    PROVE  slow' \in Writes \union {Nothing} /\ (slow' # Nothing => Good(slow)')
<1>1. /\ slow \in Writes /\ Good(slow) /\ Does(slow) /\ AccountsTypeOK
      /\ slow.does = "convert" => slow.user \in Present
    BY DEF AccountsInv, AccountsTypeOK, Resume, Does, Write
<1>2. CASE slow.does = "convert"
    <2>1. slow' = [does |-> "unflag", user |-> slow.user] /\ slow.user \in AccountIds
        BY <1>1, <1>2, WriteFields DEF Resume, Continues
    <2>2. account'[slow.user].password
        BY <1>1, <1>2, Target
    <2> QED BY <2>1, <2>2 DEF Good, Writes
<1>3. CASE slow.does = "link"
    <2>1. /\ slow' = Login(slow.user, slow.subject, slow.email)
          /\ slow.user \in AccountIds /\ slow.subject \in Subjects /\ slow.email \in Addresses
        BY <1>1, <1>3, WriteFields DEF Resume, Continues
    <2>2. account'[slow.user].subject = slow.subject
        BY <1>1, <1>3, Target
    <2> QED BY <2>1, <2>2 DEF Good, Writes, Login
<1>4. CASE slow.does = "insert" /\ slow.row.oidc
    <2>1. /\ slow' = Login(slow.user, slow.row.subject, slow.row.email)
          /\ slow.user \in AccountIds /\ slow.row \in Rows /\ slow.row.subject \in Subjects
        BY <1>1, <1>4, WriteFields DEF Resume, Continues, Good
    <2>2. slow.row.email \in Addresses
        BY <2>1 DEF Rows
    <2>3. account'[slow.user] = slow.row
        BY <1>1, <1>4, Target
    <2> QED BY <2>1, <2>2, <2>3 DEF Good, Writes, Login
<1>5. CASE /\ slow.does \notin {"convert", "link"}
           /\ ~(slow.does = "insert" /\ slow.row.oidc)
    BY <1>5 DEF Resume, Continues
<1> QED BY <1>2, <1>3, <1>4, <1>5

(* So every step keeps the invariant, *)
LEMMA AccountsStep ==
    AccountsInv /\ [AccountsNext]_accountVars => AccountsInv'
<1> SUFFICES ASSUME AccountsInv, [AccountsNext]_accountVars
             PROVE  AccountsInv'
    OBVIOUS
<1> USE DEF AccountsInv
<1>1. CASE Handle
    <2>1. PICK w \in Decided : IF w.does = "convert" THEN Convert(w) ELSE Write(w)
        BY <1>1 DEF Handle
    <2>2. /\ w \in Writes /\ Good(w) /\ Does(w)
          /\ w.does = "convert" => w.user \in Present
        BY <2>1, DecidedIsGood DEF Does
    <2>3. slow' = slow
        BY <1>1 DEF Handle
    <2>4. SubjectsDiffer' /\ HomesOwned' /\ AccountsTypeOK'
        BY <2>2, <2>3, WriteKeeps DEF AccountsTypeOK
    <2> QED BY <1>1, <2>3, <2>4, HandleLeavesGood
<1>2. CASE Overtaken
    <2>1. slow' \in Decided /\ account' = account /\ links' = links /\ home' = home
        BY <1>2 DEF Overtaken
    <2>2. slow' \in Writes /\ \A w : w = slow' => Good(w)
        BY <2>1, DecidedIsGood
    <2>3. Present' = Present
        BY <2>1 DEF Present
    <2>4. AccountsTypeOK' /\ SubjectsDiffer' /\ HomesOwned'
        BY <2>1, <2>2, <2>3 DEF AccountsTypeOK, SubjectsDiffer, HomesOwned
    <2>5. Good(slow)'
        BY <2>1, <2>2, <2>3 DEF Good
    <2> QED BY <2>4, <2>5
<1>3. CASE Resume
    <2>1. /\ slow \in Writes /\ Good(slow) /\ Does(slow) /\ AccountsTypeOK
          /\ slow.does = "convert" => slow.user \in Present
        BY <1>3 DEF AccountsTypeOK, Resume, Does, Write
    <2>2. SubjectsDiffer' /\ HomesOwned' /\ AccountsTypeOK'
        BY <1>3, <2>1, ResumeLeavesGood, WriteKeeps DEF AccountsTypeOK
    <2> QED BY <1>3, <2>2, ResumeLeavesGood
<1>4. CASE Abandon \/ Sweep \/ UNCHANGED accountVars
    <2>1. /\ account' = account /\ home' = home /\ links' \subseteq links
          /\ slow' \in {slow, Nothing}
        BY <1>4 DEF Abandon, Sweep, accountVars
    <2>2. Present' = Present
        BY <2>1 DEF Present
    <2>3. AccountsTypeOK' /\ SubjectsDiffer' /\ HomesOwned'
        BY <2>1, <2>2 DEF AccountsTypeOK, SubjectsDiffer, HomesOwned
    <2>4. slow' # Nothing => Good(slow)'
        BY <2>1, <2>2 DEF Good
    <2> QED BY <2>3, <2>4
<1> QED BY <1>1, <1>2, <1>3, <1>4 DEF AccountsNext

(* which the empty table satisfies, and that with a row from before m6. *)
LEMMA AccountsInitInv == AccountsInit => AccountsInv
<1> SUFFICES ASSUME AccountsInit PROVE AccountsInv
    OBVIOUS
<1>1. /\ links = {} /\ slow = Nothing /\ home = [s \in Subjects |-> NoRow]
    BY DEF AccountsInit
<1>2. \A a \in Addresses : /\ Row(a, FALSE, TRUE, NoSubject) \in Rows
                           /\ Row(a, FALSE, TRUE, NoSubject).subject = NoSubject
    BY DEF Row, Rows
<1>3. /\ account \in [AccountIds -> Rows \union {NoRow}]
      /\ \A u \in Present : account[u].subject = NoSubject
    <2> DEFINE empty == [u \in AccountIds |-> NoRow]
    <2>1. CASE account = empty
        BY <2>1 DEF Present
    <2>2. ASSUME NEW u \in AccountIds, NEW a \in Addresses,
                 account = [empty EXCEPT ![u] = Row(a, FALSE, TRUE, NoSubject)]
          PROVE  /\ account \in [AccountIds -> Rows \union {NoRow}]
                 /\ \A v \in Present : account[v].subject = NoSubject
        <3>1. \A v \in AccountIds :
                account[v] = IF v = u THEN Row(a, FALSE, TRUE, NoSubject) ELSE NoRow
            BY <2>2
        <3>2. account \in [AccountIds -> Rows \union {NoRow}]
            BY <2>2, <1>2
        <3> QED BY <3>1, <3>2, <1>2 DEF Present
    <2> QED BY <2>1, <2>2 DEF AccountsInit
<1> QED BY <1>1, <1>3 DEF AccountsInv, AccountsTypeOK, SubjectsDiffer, HomesOwned

(* A user of the provider who has signed in comes back to the same account *)
(* (resolve_oidc_user), whatever became of the addresses.                  *)
THEOREM UsersComeHome == AccountsSpec => []HomeKept
<1>1. AccountsInv => HomeKept
    <2> SUFFICES ASSUME AccountsInv, NEW s \in Subjects, NEW a \in Addresses, home[s] # NoRow
                 PROVE  OidcLogin(s, a) = {Login(home[s], s, a)}
        BY DEF HomeKept
    <2> DEFINE own == {u \in Present : account[u].subject = s}
    <2>1. home[s] \in own
        BY DEF AccountsInv, HomesOwned
    <2>2. own = {home[s]}
        BY <2>1, AccountsOK DEF AccountsInv, SubjectsDiffer
    <2>3. ResolveOidcUser(s, a)
          = [does : {"login"}, user : {home[s]}, subject : {s}, email : {a}]
        BY <2>1, <2>2 DEF ResolveOidcUser
    <2>4. ResolveOidcUser(s, a) = {Login(home[s], s, a)}
        <3>1. \A w \in [does : {"login"}, user : {home[s]}, subject : {s}, email : {a}] :
                w = [does |-> "login", user |-> home[s], subject |-> s, email |-> a]
            OBVIOUS
        <3>2. Login(home[s], s, a)
              \in [does : {"login"}, user : {home[s]}, subject : {s}, email : {a}]
            BY DEF Login
        <3> QED BY <2>3, <3>1, <3>2 DEF Login
    <2> QED BY <2>4 DEF OidcLogin
<1> QED BY <1>1, AccountsInitInv, AccountsStep, PTL DEF AccountsSpec

(* No write takes from an account the last way to sign in to it, wherever  *)
(* convert_oidc_user or a login stops and whoever writes in between.       *)
THEOREM NobodyIsShutOut == AccountsSpec => SignInKept
<1> DEFINE Kind(w) == /\ w \in Writes /\ Good(w) /\ Does(w)
                      /\ w.does = "convert" => w.user \in Present
           Safe(u) == u \in Present' /\ (u \in Present => CanSignIn(u)) => CanSignIn(u)'
<1>1. ASSUME AccountsInv, NEW w, Kind(w), NEW u \in AccountIds,
             u \in Present', u \in Present => CanSignIn(u)
      PROVE  CanSignIn(u)'
    <2>1. /\ w \in Writes /\ Good(w) /\ Does(w) /\ AccountsTypeOK
          /\ w.does = "convert" => w.user \in Present
        BY <1>1 DEF AccountsInv
    <2>2. CASE w.does = "insert" /\ w.user = u
        <3>1. account'[u] = w.row
            BY <2>1, <2>2, Target
        <3> QED BY <1>1, <2>1, <2>2, <3>1, AccountsOK DEF CanSignIn, Good, Provided
    <2>3. CASE ~(w.does = "insert" /\ w.user = u)
        <3> DEFINE way == /\ account[u].password => account'[u].password
                          /\ account'[u].oidc => account[u].oidc
                          /\ account[u].oidc => account'[u].oidc \/ account'[u].password
                          /\ account[u].subject # NoSubject => account'[u].subject # NoSubject
        <3>1. u \in Present /\ way
            <4>1. CASE w.does = "link" /\ w.user = u
                <5>1. account'[u].subject \in Subjects
                    BY <2>1, <4>1, Target, WriteFields
                <5> QED BY <1>1, <2>1, <2>3, <5>1, Others, AccountsOK
            <4>2. CASE ~(w.does = "link" /\ w.user = u)
                BY <1>1, <2>1, <2>3, <4>2, Others
            <4> QED BY <4>1, <4>2
        <3> QED BY <1>1, <3>1 DEF CanSignIn, Provided
    <2> QED BY <2>2, <2>3
<1>2. ASSUME AccountsInv, [AccountsNext]_accountVars, NEW u \in AccountIds
      PROVE  Safe(u)
    <2>1. CASE Handle
        <3>1. PICK w \in Decided : IF w.does = "convert" THEN Convert(w) ELSE Write(w)
            BY <2>1 DEF Handle
        <3>2. Kind(w)
            BY <1>2, <3>1, DecidedIsGood DEF Does
        <3> QED BY <1>1, <1>2, <3>2
    <2>2. CASE Resume
        <3>1. Kind(slow)
            BY <1>2, <2>2 DEF AccountsInv, AccountsTypeOK, Resume, Does, Write
        <3> QED BY <1>1, <1>2, <3>1
    <2>3. CASE account' = account
        BY <2>3 DEF CanSignIn, Provided, Present
    <2> QED BY <1>2, <2>1, <2>2, <2>3
            DEF AccountsNext, Overtaken, Abandon, Sweep, accountVars
<1>3. ASSUME AccountsInv, [AccountsNext]_accountVars
      PROVE  \A u \in AccountIds :
               /\ u \in Present' /\ (u \in Present => CanSignIn(u))
               => CanSignIn(u)'
    BY <1>2, <1>3
<1> HIDE DEF Kind, Safe
<1> QED
    BY <1>3, AccountsInitInv, AccountsStep, PTL DEF AccountsSpec, SignInKept

(* A user of the provider gets a password in a conversion or by a link     *)
(* that was sent to a local user with the address, and in no other way:    *)
(* update_password and reset_user_password wrote for a local user, who     *)
(* does not become a user of the provider while they are overtaken.        *)
THEOREM ProvidersSignIn == AccountsSpec => ProviderPasswords
<1> DEFINE Granted(u) == GetsPassword(u) =>
                           \/ account[u].email \in links \/ slow = [does |-> "relink", user |-> u]
                           \/ slow' = [does |-> "unflag", user |-> u]
<1>1. ASSUME AccountsInv, NEW w \in Writes, Good(w), Does(w),
             w.does = "convert" => w.user \in Present,
             NEW u \in AccountIds, GetsPassword(u)
      PROVE  w.does \in {"relink", "convert"} /\ w.user = u
    <2>1. AccountsTypeOK /\ u \in Present /\ u \in Present' /\ account[u].oidc
          /\ ~account[u].password /\ account'[u].password
        BY <1>1 DEF AccountsInv, GetsPassword, Provided
    <2>2. ~(w.does = "insert" /\ w.user = u)
        BY <1>1, <2>1 DEF Does, Write, Insert
    <2>3. w.does \in {"password", "relink", "convert"} /\ w.user = u
        BY <1>1, <2>1, <2>2, Others
    <2> QED BY <1>1, <2>1, <2>3 DEF Good
<1>2. ASSUME AccountsInv, [AccountsNext]_accountVars, NEW u \in AccountIds, GetsPassword(u)
      PROVE  Granted(u)
    <2>1. CASE Handle
        <3>1. PICK w \in Decided : IF w.does = "convert" THEN Convert(w) ELSE Write(w)
            BY <2>1 DEF Handle
        <3>2. /\ w \in Writes /\ Good(w) /\ Does(w)
              /\ w.does = "convert" => w.user \in Present
              /\ w.does = "relink" => account[w.user].email \in links
            BY <1>2, <3>1, DecidedIsGood DEF Does
        <3>3. w.does \in {"relink", "convert"} /\ w.user = u
            BY <1>1, <1>2, <3>2
        <3>4. w.does # "convert"
            <4> SUFFICES ASSUME w.does = "convert" PROVE FALSE
                OBVIOUS
            <4>1. /\ u \in AccountIds /\ account[u] \in Rows
                  /\ account' = [account EXCEPT ![u] = [account[u] EXCEPT !.password = TRUE,
                                                                        !.oidc = FALSE]]
                BY <1>2, <3>1, <3>3 DEF Convert, Update, GetsPassword, Provided, Present,
                   AccountsInv, AccountsTypeOK
            <4>2. ~account'[u].oidc
                BY <1>2, <4>1 DEF Rows, AccountsInv, AccountsTypeOK
            <4> QED BY <1>2, <4>2 DEF GetsPassword, Provided
        <3> QED BY <3>2, <3>3, <3>4
    <2>2. CASE Resume
        <3>1. /\ slow \in Writes /\ Good(slow) /\ Does(slow)
              /\ slow.does = "convert" => slow.user \in Present
            BY <1>2, <2>2 DEF AccountsInv, AccountsTypeOK, Resume, Does, Write
        <3>2. slow.does \in {"relink", "convert"} /\ slow.user = u
            BY <1>1, <1>2, <3>1
        <3>3. CASE slow.does = "relink"
            BY <3>1, <3>2, <3>3 DEF Writes
        <3>4. CASE slow.does = "convert"
            BY <2>2, <3>2, <3>4 DEF Resume, Continues
        <3> QED BY <3>2, <3>3, <3>4
    <2>3. CASE account' = account
        BY <1>2, <2>3 DEF GetsPassword
    <2> QED BY <1>2, <2>1, <2>2, <2>3
            DEF AccountsNext, Overtaken, Abandon, Sweep, accountVars
<1>3. ASSUME AccountsInv, [AccountsNext]_accountVars
      PROVE  \A u \in AccountIds : Granted(u)
    BY <1>2, <1>3
<1> QED
    BY <1>3, AccountsInitInv, AccountsStep, PTL DEF AccountsSpec, ProviderPasswords

-----------------------------------------------------------------------------
(* Avatars: what a painter decided on fits the row unless it was crossed;  *)
(* whom the last change was announced to shows the row.                    *)

(* A decision still fits the row, unless the row was written meanwhile. *)
PainterWorks(p) ==
    /\ work[p].does \in {"nothing", "upload", "login", "reset"}
    /\ work[p].at \in {"rest", "fetch", "find", "insert", "update", "announce", "failed"}
    /\ work[p].with \in Images \union {NoPicture}
    /\ At(p, "insert") \/ At(p, "update") \/ At(p, "find") \/ At(p, "fetch") => work[p].with \in Images
    /\ At(p, "insert") => work[p].crossed \/ avatar = NoPicture
    /\ At(p, "update") => work[p].crossed \/ avatar # NoPicture
    /\ At(p, "failed") => work[p].crossed \/ ~owner

(* What a painter may be at. *)
Items == [does : {"nothing", "upload", "login", "reset"},
          at : {"rest", "fetch", "find", "insert", "update", "announce", "failed"},
          with : Images \union {NoPicture}, crossed : BOOLEAN]

(* Whoever is not hushed shows the row; a user who is deleted has no       *)
(* avatar, and needs none.                                                 *)
AvatarsInv ==
    /\ owner \in BOOLEAN
    /\ avatar \in Images \union {NoPicture}
    /\ shown \in [Sides -> Images \union {NoPicture}]
    /\ hushed \subseteq Sides
    /\ work \in [Painters -> Items]
    /\ avatar # NoPicture => owner
    /\ owner => \A s \in Sides \ hushed : shown[s] = avatar
    /\ \A p \in Painters : PainterWorks(p)

(* At first there is no avatar, and none is shown. *)
LEMMA AvatarsInitInv == AvatarsInit => AvatarsInv
BY DEF AvatarsInit, AvatarsInv, PainterWorks, Items, Idling, Work, At, Sides

(* A painter whose step leaves the row alone. *)
LEMMA WorkSteps ==
    ASSUME AvatarsInv, NEW p \in Painters, NEW q \in Items, work' = [work EXCEPT ![p] = q],
           UNCHANGED <<owner, avatar, shown, hushed>>,
           q.at \in {"insert", "update", "find", "fetch"} => q.with \in Images,
           q.at = "insert" => q.crossed \/ avatar = NoPicture,
           q.at = "update" => q.crossed \/ avatar # NoPicture,
           q.at = "failed" => q.crossed \/ ~owner
    PROVE  AvatarsInv'
<1>1. work' \in [Painters -> Items]
    BY DEF AvatarsInv
<1>2. \A o \in Painters : PainterWorks(o)'
    BY DEF AvatarsInv, PainterWorks, At, Items
<1> QED BY <1>1, <1>2 DEF AvatarsInv

(* A painter that writes or deletes the row crosses all the others, and    *)
(* hushes everyone until it announces.                                     *)
LEMMA RowChanges ==
    ASSUME AvatarsInv, NEW p \in Painters, NEW q \in Items, work' = Crossed(p, q),
           q.at \in {"rest", "announce"}, owner' = owner, shown' = shown, hushed' = Sides,
           avatar' \in Images \union {NoPicture}, avatar' # NoPicture => owner
    PROVE  AvatarsInv'
<1>1. \A o \in Painters : work[o] \in Items /\ [work[o] EXCEPT !.crossed = TRUE] \in Items
    BY DEF AvatarsInv, Items
<1>2. work' \in [Painters -> Items]
    BY <1>1 DEF Crossed
<1>3. ASSUME NEW o \in Painters
      PROVE  PainterWorks(o)'
    <2>1. CASE o = p
        BY <2>1, <1>2 DEF Crossed, PainterWorks, At, Items
    <2>2. CASE o # p
        <3>1. PainterWorks(o) /\ work[o] \in Items
            BY DEF AvatarsInv
        <3>2. CASE At(o, "rest")
            BY <2>2, <3>1, <3>2 DEF Crossed, PainterWorks, At, Items
        <3>3. CASE ~At(o, "rest")
            <4>1. work'[o] = [work[o] EXCEPT !.crossed = TRUE]
                BY <2>2, <3>3 DEF Crossed
            <4> QED BY <3>1, <4>1 DEF PainterWorks, At, Items
        <3> QED BY <3>2, <3>3
    <2> QED BY <2>1, <2>2
<1> QED BY <1>2, <1>3 DEF AvatarsInv

(* Every step of the avatar keeps the invariant. *)
LEMMA AvatarsStep == AvatarsInv /\ [AvatarsNext]_avatarVars => AvatarsInv'
<1> SUFFICES ASSUME AvatarsInv, [AvatarsNext]_avatarVars PROVE AvatarsInv'
    OBVIOUS
<1>0. \A p \in Painters : work[p] \in Items /\ PainterWorks(p)
    BY DEF AvatarsInv
<1>i. Idling \in Items /\ Idling.at = "rest"
    BY DEF Idling, Work, Items
<1>1. ASSUME NEW p \in Painters, NEW picture \in Pictures,
             UpdateAvatar(p, picture) \/ SyncImage(p, picture)
      PROVE  AvatarsInv'
    <2>1. PICK how \in {"webp", "raw"}, does \in {"upload", "login"}, at \in {"find", "fetch"} :
            /\ work' = [work EXCEPT ![p] = Work(does, at, Encoded(how, picture))]
            /\ UNCHANGED <<owner, avatar, shown, hushed>>
        BY <1>1 DEF UpdateAvatar, SyncImage
    <2>2. Encoded(how, picture) \in Images
        BY DEF Images
    <2> DEFINE q == Work(does, at, Encoded(how, picture))
    <2>3. q \in Items /\ q.at \in {"find", "fetch"} /\ q.with \in Images
        BY <2>2 DEF Work, Items
    <2> HIDE DEF q
    <2> QED BY <2>1, <2>3, WorkSteps DEF q
<1>2. ASSUME NEW p \in Painters, FetchPicture(p) PROVE AvatarsInv'
    <2>1. [work[p] EXCEPT !.at = "find"] \in Items
        BY <1>0 DEF Items
    <2>2. CASE work' = [work EXCEPT ![p] = [work[p] EXCEPT !.at = "find"]]
        <3> DEFINE q == [work[p] EXCEPT !.at = "find"]
        <3>1. q \in Items /\ q.at = "find" /\ q.with \in Images
            BY <1>0, <1>2 DEF Items, FetchPicture, PainterWorks
        <3> HIDE DEF q
        <3> QED BY <1>2, <2>2, <3>1, WorkSteps DEF q, FetchPicture
    <2>3. CASE work' = [work EXCEPT ![p] = Idling]
        BY <1>2, <2>3, <1>i, WorkSteps DEF FetchPicture
    <2> QED BY <1>2, <2>2, <2>3 DEF FetchPicture
<1>3. ASSUME NEW p \in Painters, FindAvatar(p) PROVE AvatarsInv'
    <2> DEFINE q == [work[p] EXCEPT !.at = IF avatar = NoPicture THEN "insert" ELSE "update"]
    <2>1. /\ q \in Items /\ q.with \in Images
          /\ q.at = IF avatar = NoPicture THEN "insert" ELSE "update"
        BY <1>0, <1>3 DEF Items, FindAvatar, PainterWorks
    <2>2. work' = [work EXCEPT ![p] = q] /\ UNCHANGED <<owner, avatar, shown, hushed>>
        BY <1>3 DEF FindAvatar
    <2> HIDE DEF q
    <2> QED BY <2>1, <2>2, WorkSteps
<1>4. ASSUME NEW p \in Painters, WriteAvatar(p) PROVE AvatarsInv'
    <2>1. work[p].with \in Images /\ work[p] \in Items /\ PainterWorks(p)
        BY <1>0, <1>4 DEF WriteAvatar, PainterWorks
    <2>2. CASE Fits(work[p].at)
        <3> DEFINE q == [work[p] EXCEPT !.at = "announce"]
        <3>1. q \in Items /\ q.at = "announce"
            BY <2>1 DEF Items
        <3>2. /\ avatar' = work[p].with /\ work' = Crossed(p, q) /\ hushed' = Sides
              /\ owner' = owner /\ shown' = shown
            BY <1>4, <2>2 DEF WriteAvatar
        <3>3. owner
            BY <2>2 DEF Fits, AvatarsInv
        <3> HIDE DEF q
        <3> QED BY <2>1, <3>1, <3>2, <3>3, RowChanges
    <2>3. CASE ~Fits(work[p].at)
        <3> DEFINE q == [work[p] EXCEPT !.at = "failed"]
        <3>1. q \in Items /\ q.at = "failed" /\ q.crossed = work[p].crossed
            BY <2>1 DEF Items
        <3>2. work' = [work EXCEPT ![p] = q] /\ UNCHANGED <<owner, avatar, shown, hushed>>
            BY <1>4, <2>3 DEF WriteAvatar
        <3>3. work[p].crossed \/ ~owner
            BY <1>4, <2>1, <2>3 DEF Fits, WriteAvatar, PainterWorks, At
        <3> HIDE DEF q
        <3> QED BY <3>1, <3>2, <3>3, WorkSteps
    <2> QED BY <2>2, <2>3
<1>5. ASSUME NEW p \in Painters, ResetUserAvatar(p) PROVE AvatarsInv'
    <2> DEFINE q == Work("reset", "announce", NoPicture)
    <2>1. q \in Items /\ q.at = "announce"
        BY DEF Work, Items
    <2>2. /\ avatar' = NoPicture /\ work' = Crossed(p, q) /\ hushed' = Sides
          /\ owner' = owner /\ shown' = shown
        BY <1>5 DEF ResetUserAvatar
    <2> HIDE DEF q
    <2> QED BY <2>1, <2>2, RowChanges
<1>6. ASSUME NEW p \in Painters, Announce(p) PROVE AvatarsInv'
    <2> DEFINE heard == Audience(work[p].does)
    <2>1. /\ shown' = [s \in Sides |-> IF s \in heard THEN avatar ELSE shown[s]]
          /\ hushed' = hushed \ heard /\ owner' = owner /\ avatar' = avatar
          /\ work' = [work EXCEPT ![p] = Idling]
        BY <1>6 DEF Announce
    <2> HIDE DEF heard
    <2>2. work' \in [Painters -> Items]
        BY <2>1, <1>i DEF AvatarsInv
    <2>3. \A o \in Painters : PainterWorks(o)'
        BY <2>1, <1>0, <1>i DEF PainterWorks, At, Items, AvatarsInv
    <2> QED BY <2>1, <2>2, <2>3 DEF AvatarsInv
<1>7. ASSUME NEW p \in Painters, Answered(p) \/ GiveUp(p) PROVE AvatarsInv'
    BY <1>7, <1>i, WorkSteps DEF Answered, GiveUp
<1>8. CASE DeleteOwner
    <2>1. \A o \in Painters : work[o] \in Items /\ [work[o] EXCEPT !.crossed = TRUE] \in Items
        BY <1>0 DEF Items
    <2>2. work' \in [Painters -> Items]
        BY <1>8, <2>1 DEF DeleteOwner
    <2>3. ASSUME NEW o \in Painters PROVE PainterWorks(o)'
        <3>1. work'[o] = IF At(o, "rest") THEN work[o] ELSE [work[o] EXCEPT !.crossed = TRUE]
            BY <1>8 DEF DeleteOwner
        <3>2. ~owner'
            BY <1>8 DEF DeleteOwner
        <3>3. CASE At(o, "rest")
            BY <1>0, <3>1, <3>3 DEF PainterWorks, At, Items
        <3>4. CASE ~At(o, "rest")
            BY <1>0, <3>1, <3>2, <3>4 DEF PainterWorks, At, Items
        <3> QED BY <3>3, <3>4
    <2> QED BY <1>8, <2>2, <2>3 DEF DeleteOwner, AvatarsInv
<1>9. CASE UNCHANGED avatarVars
    BY <1>9 DEF avatarVars, AvatarsInv, PainterWorks, At
<1> QED BY <1>1, <1>2, <1>3, <1>4, <1>5, <1>6, <1>7, <1>8, <1>9 DEF AvatarsNext

(* Once every change is announced, all sessions of a user who is there     *)
(* show the avatar that the row holds; a write that is refused was crossed *)
(* by another.                                                             *)
THEOREM SessionsShowTheAvatar == AvatarsSpec => []AvatarsShown
<1>1. AvatarsInv => AvatarsShown
    BY DEF AvatarsInv, AvatarsShown, PainterWorks
<1> QED BY <1>1, AvatarsInitInv, AvatarsStep, PTL DEF AvatarsSpec

-----------------------------------------------------------------------------
(* LiveSettings: what runs is of the row, of whoever writes it, or of      *)
(* those that left it behind.                                              *)

(* The environment does not say that OIDC is off, nor creates no users. *)
Unforced == {env.on, env.creates} \subseteq {TRUE, Unset}

(* Config, by the service and the environment. *)
ConfigBy(v, e, s) ==
    IF v = "oidc" THEN OidcSettings(Overlaid(s, e)) ELSE Smtp(Overlaid(s, e))

(* What a service is switched to for the row s. *)
ConfigOf(s) == ConfigBy(service, env, s)

(* The requests between their switch and their write. *)
Writers == {j \in Saves : save[j].at = "write"}

(* The shape of a save under way. *)
IsSaving(q) ==
    /\ q = [at |-> q.at, to |-> q.to, config |-> q.config, alone |-> q.alone]
    /\ q.at \in {"prepare", "set", "write"} /\ q.alone \in BOOLEAN
    /\ IsSettings(q.to)

(* A save that is alone excludes the boot and the others, and what it      *)
(* switched to is what it will write.                                      *)
SavingInv(j) ==
    \/ save[j] = Idle
    \/ /\ IsSaving(save[j])
       /\ Unforced => save[j].config = ConfigOf(save[j].to)
       /\ save[j].alone => boot = Idle /\ \A i \in Saves \ {j} : save[i] = Idle
       /\ save[j].alone /\ save[j].at = "write" => live = save[j].config

(* The shape of the task of the boot. *)
IsBooting(q) ==
    /\ q = [at |-> q.at, to |-> q.to, config |-> q.config, tries |-> q.tries, skips |-> q.skips,
            alone |-> q.alone]
    /\ q.alone \in BOOLEAN
    /\ q.at \in {"save", "fetch", "set", "sleep"}
    /\ IsSettings(q.to)

(* The task has not started the service, nor given up. *)
Pending == boot \notin {Idle, Marking}

(* While the task is alone it will start the service on what the row says, *)
(* or will say when the task has written it.                               *)
BootInv ==
    Pending /\ boot.alone =>
      /\ \A j \in Saves : save[j] = Idle
      /\ Unforced => boot.config = ConfigOf(IF boot.at = "save" THEN boot.to ELSE row)

(* What runs was switched to by one who is about to write, or by one who   *)
(* left it behind; or nothing has run yet; or it is of the row.            *)
KnownInv ==
    /\ Writers # {} => live \in strays \union {save[j].config : j \in Writers}
    /\ Writers = {} /\ Pending => live \in strays \union {Stopped}
    /\ Writers = {} /\ ~Pending /\ Unforced =>
         live \in strays \union {ConfigOf(row)} \/ (gaveUp /\ live = Stopped)

(* The parts above, and the shape of the state. *)
SettingsInv ==
    /\ service \in {"oidc", "mail"}
    /\ IsSettings(row)
    /\ save = [j \in Saves |-> save[j]]
    /\ \A j \in Saves : SavingInv(j)
    /\ Pending => IsBooting(boot)
    /\ BootInv
    /\ KnownInv

(* The two ways to say what a service is switched to. *)
LEMMA ConfigsAre == \A s : Config(Overlaid(s, env)) = ConfigOf(s)
BY DEF Config, ConfigOf, ConfigBy

(* Where the stages of saves and of the boot task are not. *)
LEMMA Stages ==
    /\ Idle.at = "idle" /\ Marking.at = "mark" /\ Idle # Marking
    /\ \A q : IsSaving(q) => q # Idle
    /\ \A q : IsBooting(q) => q # Idle /\ q # Marking
<1>1. Idle.at = "idle" /\ Marking.at = "mark"
    BY DEF Idle, Marking
<1> QED BY <1>1 DEF IsSaving, IsBooting

(* Overlays and assignments of fields yield settings. *)
LEMMA SettingsFacts ==
    ASSUME NEW s, IsSettings(s)
    PROVE  /\ IsSettings(Overlaid(s, env))
           /\ \A v : /\ IsSettings([s EXCEPT !.secret = v])
                     /\ IsSettings([s EXCEPT !.creates = v])
           /\ IsSettings([s EXCEPT !.on = TRUE, !.creates = TRUE])
BY DEF IsSettings, Overlaid, Fields

(* What a setup forces survives the environment. *)
LEMMA Forcing ==
    ASSUME Unforced, NEW s, IsSettings(s)
    PROVE  OidcSettings([Overlaid(s, env) EXCEPT !.on = TRUE, !.creates = TRUE])
             = OidcSettings(Overlaid([s EXCEPT !.on = TRUE, !.creates = TRUE], env))
<1> DEFINE a == [Overlaid(s, env) EXCEPT !.on = TRUE, !.creates = TRUE]
           b == Overlaid([s EXCEPT !.on = TRUE, !.creates = TRUE], env)
<1>1. a.on = TRUE /\ a.creates = TRUE /\ a.which = Overlaid(s, env).which /\ a.secret = Overlaid(s, env).secret
    BY DEF Overlaid, Fields
<1>2. b.on = TRUE /\ b.creates = TRUE /\ b.which = Overlaid(s, env).which /\ b.secret = Overlaid(s, env).secret
    BY DEF Overlaid, Fields, Unforced, IsSettings
<1> HIDE DEF a, b
<1>3. OidcSettings(a) = OidcSettings(b)
    BY <1>1, <1>2 DEF OidcSettings
<1> QED BY <1>3 DEF a, b

(* So does what the boot task forces. *)
LEMMA StartForced ==
    ASSUME Unforced, service \in {"oidc", "mail"}, service # "mail", NEW s, IsSettings(s),
           Config(Overlaid(s, env)) # Stopped
    PROVE  [Config(Overlaid(s, env)) EXCEPT !.creates = TRUE]
             = ConfigOf([s EXCEPT !.creates = TRUE])
<1> DEFINE a == Overlaid(s, env)
           b == Overlaid([s EXCEPT !.creates = TRUE], env)
<1>1. b.on = a.on /\ b.which = a.which /\ b.secret = a.secret /\ b.creates = TRUE
    BY DEF Overlaid, Fields, Unforced, IsSettings
<1>2. Config(a) = OidcSettings(a) /\ ConfigOf([s EXCEPT !.creates = TRUE]) = OidcSettings(b)
    BY DEF Config, ConfigOf, ConfigBy
<1> HIDE DEF a, b
<1>3. ASSUME OidcSettings(a) # Stopped
      PROVE  [OidcSettings(a) EXCEPT !.creates = TRUE] = OidcSettings(b)
    <2>1. a.on = TRUE /\ a.which # Unset /\ a.secret # Unset
        BY <1>3 DEF OidcSettings
    <2>2. OidcSettings(a) = [which |-> a.which, secret |-> a.secret, creates |-> a.creates = TRUE]
        BY <2>1 DEF OidcSettings
    <2>3. b.on = TRUE /\ b.which # Unset /\ b.secret # Unset
        BY <1>1, <2>1
    <2>4. OidcSettings(b) = [which |-> b.which, secret |-> b.secret, creates |-> b.creates = TRUE]
        BY <2>3 DEF OidcSettings
    <2>5. (b.creates = TRUE) = TRUE
        BY <1>1
    <2>6. OidcSettings(b) = [which |-> a.which, secret |-> a.secret, creates |-> TRUE]
        BY <1>1, <2>4, <2>5, Zenon
    <2> DEFINE C == [which : {a.which}, secret : {a.secret}, creates : BOOLEAN]
               c == OidcSettings(a)
               d == [c EXCEPT !.creates = TRUE]
    <2>7. c \in C /\ OidcSettings(b) \in C /\ OidcSettings(b).creates = TRUE
        BY <2>2, <2>6
    <2> HIDE DEF c
    <2>8. d \in C /\ d.creates = TRUE
        BY <2>7
    <2>9. \A x, y \in C : x.creates = y.creates => x = y
        OBVIOUS
    <2> HIDE DEF C, d
    <2>10. d = OidcSettings(b)
        BY <2>7, <2>8, <2>9
    <2> QED BY <2>10 DEF c, d
<1>4. Config(Overlaid(s, env)) = Config(a)
    BY DEF a
<1> QED BY <1>2, <1>3, <1>4

(* A boot of whatever was found has a task, or nothing to do. *)
LEMMA BootTaskInv ==
    ASSUME NEW found, IsSettings(found), NEW ended \in BOOLEAN, NEW skip \in BOOLEAN,
           service \in {"oidc", "mail"}
    PROVE  \/ /\ BootTask(found, ended, skip) = Idle
              /\ service = "mail" \/ ConfigOf(found) = Stopped
           \/ /\ IsBooting(BootTask(found, ended, skip)) /\ service # "mail"
              /\ LET duty == BootTask(found, ended, skip)
                 IN  duty.alone /\ Unforced =>
                       duty.config = ConfigOf(IF duty.at = "save" THEN duty.to ELSE row)
<1> DEFINE config == Config(Overlaid(found, env))
           skips == skip /\ ~ended
           creates == skips /\ ~config.creates
           more == [found EXCEPT !.creates = TRUE]
           forced == [config EXCEPT !.creates = TRUE]
           duty == [at |-> IF creates THEN "save" ELSE "fetch",
                    to |-> IF creates THEN more ELSE Defaults,
                    config |-> IF creates THEN forced ELSE config,
                    tries |-> 0, skips |-> skips, alone |-> found = row]
<1>1. CASE service = "mail" \/ config = Stopped
    BY <1>1, ConfigsAre DEF BootTask
<1>2. CASE service # "mail" /\ config # Stopped
    <2>1. BootTask(found, ended, skip) = duty
        BY <1>2 DEF BootTask
    <2>2. IsSettings(more) /\ IsSettings(Defaults)
        BY SettingsFacts DEF Defaults, IsSettings
    <2>3. duty.at \in {"save", "fetch"} /\ duty.to \in {more, Defaults}
        OBVIOUS
    <2>4. duty = [at |-> duty.at, to |-> duty.to, config |-> duty.config,
                  tries |-> duty.tries, skips |-> duty.skips, alone |-> duty.alone]
        <3> HIDE DEF config, skips, creates, more, forced
        <3> QED BY DEF duty
    <2>5. duty.alone \in BOOLEAN /\ (duty.alone => found = row)
        OBVIOUS
    <2>6. ASSUME Unforced, found = row
          PROVE  duty.config = ConfigOf(IF duty.at = "save" THEN duty.to ELSE row)
        <3>1. CASE creates
            <4>1. duty.at = "save" /\ duty.to = more /\ duty.config = forced
                BY <3>1
            <4>2. forced = ConfigOf(more)
                BY <1>2, <2>6, StartForced
            <4> QED BY <4>1, <4>2
        <3>2. CASE ~creates
            <4>1. duty.at = "fetch" /\ duty.config = config
                BY <3>2
            <4>2. config = ConfigOf(found)
                BY ConfigsAre
            <4> QED BY <2>6, <4>1, <4>2
        <3> QED BY <3>1, <3>2
    <2> HIDE DEF duty, more
    <2>7. IsBooting(duty)
        BY <2>2, <2>3, <2>4, <2>5 DEF IsBooting
    <2> QED BY <1>2, <2>1, <2>5, <2>6, <2>7
<1> QED BY <1>1, <1>2

(* A start of the service is the first of its boots. *)
LEMMA SettingsInitInv == SettingsInit => SettingsInv
<1> SUFFICES ASSUME SettingsInit PROVE SettingsInv
    OBVIOUS
<1>1. IsSettings(row) /\ service \in {"oidc", "mail"}
    BY DEF SettingsInit, IsSettings, Defaults
<1>2. save = [j \in Saves |-> save[j]] /\ \A j \in Saves : save[j] = Idle
    BY DEF SettingsInit
<1>3. PICK skip \in BOOLEAN : boot = BootTask(row, FALSE, skip)
    BY DEF SettingsInit
<1>4. IF service = "mail" THEN live = ConfigOf(row) \/ (gaveUp /\ live = Stopped)
      ELSE live = Stopped
    BY <1>1, ConfigsAre DEF SettingsInit
<1>5. \/ boot = Idle /\ (service = "mail" \/ ConfigOf(row) = Stopped)
      \/ /\ IsBooting(boot) /\ service # "mail"
         /\ boot.alone /\ Unforced =>
              boot.config = ConfigOf(IF boot.at = "save" THEN boot.to ELSE row)
    BY <1>1, <1>3, BootTaskInv
<1>6. Writers = {}
    BY <1>2, Stages DEF Writers
<1>7. KnownInv
    BY <1>4, <1>5, <1>6, Stages DEF KnownInv, Pending
<1>8. BootInv
    BY <1>2, <1>5 DEF BootInv, Pending
<1> QED BY <1>1, <1>2, <1>5, <1>7, <1>8 DEF SettingsInv, SavingInv, Pending

(* A request that waits for the provider, for its turn, or ends without    *)
(* having switched the service over. *)
LEMMA SaveMoves ==
    ASSUME SettingsInv, NEW j \in Saves, NEW q, save' = [save EXCEPT ![j] = q],
           save[j].at # "write", save[j] # Idle,
           q = Idle \/ q = [save[j] EXCEPT !.at = "set"],
           UNCHANGED <<service, env, row, live, boot, strays, gaveUp>>
    PROVE  SettingsInv'
<1>1. IsSaving(save[j])
    BY DEF SettingsInv, SavingInv
<1>2. \/ q = Idle
      \/ /\ IsSaving(q) /\ q.at = "set" /\ q.config = save[j].config /\ q.to = save[j].to
         /\ q.alone = save[j].alone
    BY <1>1 DEF IsSaving
<1>3. /\ save' = [i \in Saves |-> save'[i]] /\ save'[j] = q
      /\ \A i \in Saves \ {j} : save'[i] = save[i]
    BY DEF SettingsInv
<1>4. Unforced' = Unforced /\ Pending' = Pending
    BY DEF Unforced, Pending
<1>5. ASSUME NEW i \in Saves PROVE SavingInv(i)'
    <2>1. SavingInv(i) /\ SavingInv(j)
        BY DEF SettingsInv
    <2>2. CASE i = j
        BY <1>2, <1>3, <1>4, <2>1, <2>2, Stages DEF SavingInv, ConfigOf
    <2>3. CASE i # j
        BY <1>2, <1>3, <1>4, <2>1, <2>3, Stages DEF SavingInv, ConfigOf
    <2> QED BY <2>2, <2>3
<1>6. Writers' = Writers /\ \A i \in Writers : save'[i].config = save[i].config
    BY <1>2, <1>3, Stages DEF Writers
<1>7. KnownInv'
    BY <1>4, <1>6 DEF SettingsInv, KnownInv, ConfigOf
<1>8. BootInv'
    BY <1>4 DEF SettingsInv, BootInv
<1> QED BY <1>3, <1>4, <1>5, <1>7, <1>8 DEF SettingsInv

(* A request that begins and looks at what it was sent. *)
LEMMA SaveBegins ==
    ASSUME SettingsInv, NEW j \in Saves, NEW to, NEW config, Begin(j, to, config),
           IsSettings(to), Unforced => config = ConfigOf(to)
    PROVE  SettingsInv'
<1> DEFINE q == [at |-> IF config = Stopped THEN "set" ELSE "prepare",
                 to |-> to, config |-> config, alone |-> Quiet]
<1>1. /\ save[j] = Idle /\ UNCHANGED <<service, env, row, live, setup, strays, gaveUp>>
      /\ boot' = Overlapped
      /\ save' = [i \in Saves |-> IF i = j THEN q ELSE IF save[i] = Idle THEN Idle
                                  ELSE [save[i] EXCEPT !.alone = FALSE]]
    BY DEF Begin, Arrives
<1>2. /\ IsSaving(q) /\ q.at # "write" /\ q.to = to /\ q.config = config
      /\ q.alone => boot = Idle /\ \A i \in Saves : save[i] = Idle
    <2>1. Quiet \in BOOLEAN
        BY DEF Quiet
    <2>2. Quiet => boot = Idle /\ \A i \in Saves : save[i] = Idle
        BY DEF Quiet, Busy
    <2> HIDE DEF Quiet
    <2> QED BY <2>1, <2>2 DEF IsSaving
<1> HIDE DEF q
<1>3. ASSUME NEW i \in Saves, i # j, save[i] # Idle
      PROVE  /\ IsSaving(save'[i]) /\ ~save'[i].alone /\ save'[i].at = save[i].at
             /\ save'[i].to = save[i].to /\ save'[i].config = save[i].config
    <2>1. IsSaving(save[i]) /\ save'[i] = [save[i] EXCEPT !.alone = FALSE]
        BY <1>1, <1>3 DEF SettingsInv, SavingInv
    <2> QED BY <2>1 DEF IsSaving
<1>4. /\ Unforced' = Unforced /\ Pending' = Pending /\ (boot = Idle => boot' = Idle)
      /\ Pending => IsBooting(boot') /\ ~boot'.alone
    <2>1. Unforced' = Unforced /\ (boot = Idle => boot' = Idle)
        BY <1>1 DEF Unforced, Overlapped
    <2>2. CASE Pending
        <3>1. boot' = [boot EXCEPT !.alone = FALSE] /\ IsBooting(boot)
            BY <1>1, <2>2 DEF Pending, Overlapped, SettingsInv
        <3>2. IsBooting(boot') /\ ~boot'.alone
            BY <3>1 DEF IsBooting
        <3> QED BY <2>1, <2>2, <3>2, Stages DEF Pending
    <2>3. CASE ~Pending
        BY <1>1, <2>1, <2>3 DEF Pending, Overlapped
    <2> QED BY <2>2, <2>3
<1>5. ASSUME NEW i \in Saves PROVE SavingInv(i)'
    <2>1. SavingInv(i)
        BY DEF SettingsInv
    <2>2. CASE i = j
        BY <1>1, <1>2, <1>4, <2>2 DEF SavingInv, ConfigOf
    <2>3. CASE i # j /\ save[i] = Idle
        BY <1>1, <2>3 DEF SavingInv
    <2>4. CASE i # j /\ save[i] # Idle
        BY <1>1, <1>3, <1>4, <2>1, <2>4 DEF SavingInv, ConfigOf
    <2> QED BY <2>2, <2>3, <2>4
<1>6. Writers' = Writers /\ \A i \in Writers : save'[i].config = save[i].config
    <2>1. \A i \in Saves : save'[i].at = "write" <=> save[i].at = "write"
        BY <1>1, <1>2, <1>3, Stages
    <2>2. \A i \in Writers : i # j /\ save[i] # Idle
        BY <1>1, Stages DEF Writers
    <2> QED BY <1>3, <2>1, <2>2 DEF Writers
<1>7. KnownInv'
    BY <1>1, <1>4, <1>6 DEF SettingsInv, KnownInv, ConfigOf
<1>8. save' = [i \in Saves |-> save'[i]]
    BY <1>1
<1>9. BootInv'
    BY <1>4 DEF BootInv
<1> QED BY <1>1, <1>4, <1>5, <1>7, <1>8, <1>9 DEF SettingsInv

(* Each of the requests that save begins like that. *)
LEMMA SavesBegin ==
    ASSUME SettingsInv, NEW j \in Saves, NEW s,
           \/ s \in Sent(GetUserSettings) /\ SaveUserSettings(j, s)
           \/ s \in Sent(GetMailSettings) /\ SaveMailSettings(j, s)
           \/ s \in Sent(GetOidcSettings) /\ InitOidc(j, s)
    PROVE  SettingsInv'
<1>1. IsSettings(row)
    BY DEF SettingsInv
<1>2. /\ IsSettings(GetUserSettings) /\ IsSettings(GetMailSettings)
      /\ IsSettings(GetOidcSettings)
    BY <1>1, SettingsFacts DEF GetUserSettings, GetMailSettings, GetOidcSettings, FieldsFromEnv
<1>3. IsSettings(s)
    BY <1>2, SettingsOK DEF Sent
<1>4. IsSettings(Completed(s))
    BY <1>3, SettingsFacts DEF Completed
<1>5. CASE SaveUserSettings(j, s)
    <2>1. /\ service = "oidc"
          /\ Begin(j, Completed(s), OidcSettings(Overlaid(Completed(s), env)))
        BY <1>5 DEF SaveUserSettings
    <2>2. OidcSettings(Overlaid(Completed(s), env)) = ConfigOf(Completed(s))
        BY <2>1, ConfigsAre DEF Config
    <2> QED BY <1>4, <2>1, <2>2, SaveBegins
<1>6. CASE SaveMailSettings(j, s)
    <2>1. service = "mail" /\ Begin(j, Completed(s), Smtp(Overlaid(Completed(s), env)))
        BY <1>6 DEF SaveMailSettings
    <2>2. Smtp(Overlaid(Completed(s), env)) = ConfigOf(Completed(s))
        BY <2>1, ConfigsAre DEF Config
    <2> QED BY <1>4, <2>1, <2>2, SaveBegins
<1>7. CASE InitOidc(j, s)
    <2> DEFINE to == [s EXCEPT !.on = TRUE, !.creates = TRUE]
               config == OidcSettings([Overlaid(s, env) EXCEPT !.on = TRUE, !.creates = TRUE])
    <2>1. service = "oidc" /\ Begin(j, to, config)
        BY <1>7 DEF InitOidc
    <2>2. Unforced => config = ConfigOf(to)
        BY <1>3, <2>1, Forcing, ConfigsAre DEF Config
    <2>3. IsSettings(to)
        BY <1>3, SettingsFacts
    <2> HIDE DEF to, config
    <2> QED BY <2>1, <2>2, <2>3, SaveBegins
<1> QED BY <1>5, <1>6, <1>7

(* The steps of a request from the switch on. *)
LEMMA SaveSwitches ==
    ASSUME SettingsInv, NEW j \in Saves, Set(j) \/ WriteRow(j) \/ BreakOff(j)
    PROVE  SettingsInv'
<1>1. /\ save[j] # Idle /\ save[j].at \in {"set", "write"}
    BY Stages DEF Set, WriteRow, BreakOff
<1>2. /\ IsSaving(save[j]) /\ SavingInv(j)
      /\ Unforced => save[j].config = ConfigOf(save[j].to)
    BY <1>1 DEF SettingsInv, SavingInv
<1>3. save[j].alone => boot = Idle /\ \A i \in Saves \ {j} : save[i] = Idle
    BY <1>1, <1>2 DEF SavingInv
<1>4. UNCHANGED <<service, env, boot>> /\ Unforced' = Unforced /\ Pending' = Pending
    BY DEF Set, WriteRow, BreakOff, Unforced, Pending
<1>5. BootInv'
    BY <1>1, <1>4 DEF SettingsInv, BootInv
<1>6. CASE Set(j)
    <2> DEFINE q == [save[j] EXCEPT !.at = "write"]
    <2>1. save' = [save EXCEPT ![j] = q] /\ live' = save[j].config /\ row' = row
        BY <1>6 DEF Set, Goes
    <2>2. /\ IsSaving(q) /\ q.at = "write" /\ q.to = save[j].to
          /\ q.config = save[j].config /\ q.alone = save[j].alone
        BY <1>2 DEF IsSaving
    <2> HIDE DEF q
    <2>3. /\ save' = [i \in Saves |-> save'[i]] /\ save'[j] = q
          /\ \A i \in Saves \ {j} : save'[i] = save[i]
        BY <2>1 DEF SettingsInv
    <2>4. ASSUME NEW i \in Saves PROVE SavingInv(i)'
        <3>1. SavingInv(i)
            BY DEF SettingsInv
        <3>2. CASE i = j
            BY <1>2, <1>3, <1>4, <2>1, <2>2, <2>3, <3>2 DEF SavingInv, ConfigOf
        <3>3. CASE i # j
            BY <1>1, <1>4, <2>1, <2>2, <2>3, <3>1, <3>3 DEF SavingInv, ConfigOf
        <3> QED BY <3>2, <3>3
    <2>5. j \in Writers' /\ save'[j].config = live'
        BY <2>1, <2>2, <2>3 DEF Writers
    <2>6. KnownInv'
        BY <2>5 DEF KnownInv
    <2> QED BY <1>4, <1>5, <2>1, <2>3, <2>4, <2>6 DEF SettingsInv
<1>7. CASE WriteRow(j) \/ BreakOff(j)
    <2>1. /\ save' = [save EXCEPT ![j] = Idle] /\ UNCHANGED <<live, gaveUp>>
          /\ \/ row' = save[j].to /\ save[j].alone /\ strays' = {}
             \/ /\ row' \in {row, save[j].to}
                /\ strays' = (strays \union {save[j].config}) \intersect {live}
        BY <1>7, <1>2 DEF WriteRow, BreakOff, Leaves, IsSaving
    <2>2. /\ save' = [i \in Saves |-> save'[i]] /\ save'[j] = Idle
          /\ \A i \in Saves \ {j} : save'[i] = save[i]
        BY <2>1 DEF SettingsInv
    <2>3. IsSettings(row')
        BY <1>2, <2>1 DEF SettingsInv, IsSaving
    <2>4. ASSUME NEW i \in Saves PROVE SavingInv(i)'
        <3>1. SavingInv(i)
            BY DEF SettingsInv
        <3> QED BY <1>4, <2>1, <2>2, <3>1 DEF SavingInv, ConfigOf
    <2>5. j \in Writers /\ Writers' = Writers \ {j}
        BY <1>7, <2>2, Stages DEF Writers, WriteRow, BreakOff
    <2>6. KnownInv'
        <3>1. CASE row' = save[j].to /\ save[j].alone /\ strays' = {}
            <4>1. live = save[j].config
                BY <1>7, <1>1, <1>2, <3>1 DEF SavingInv, WriteRow, BreakOff
            <4>2. Unforced => live' = ConfigOf(row)'
                BY <1>2, <1>4, <2>1, <3>1, <4>1 DEF ConfigOf
            <4>3. ~Pending /\ Writers' = {}
                BY <1>3, <2>5, <3>1, Stages DEF Pending, Writers
            <4> QED BY <1>4, <4>2, <4>3 DEF KnownInv
        <3>2. CASE strays' = (strays \union {save[j].config}) \intersect {live}
            <4>1. live \in strays \union {save[i].config : i \in Writers}
                BY <2>5 DEF SettingsInv, KnownInv
            <4>2. live' \in strays' \/ \E i \in Writers' : live' = save'[i].config
                <5>1. CASE live \in strays \union {save[j].config}
                    BY <2>1, <3>2, <5>1
                <5>2. CASE live \notin strays \union {save[j].config}
                    <6>1. PICK i \in Writers : live = save[i].config
                        BY <4>1, <5>2
                    <6>2. i \in Writers' /\ save'[i] = save[i]
                        BY <2>2, <2>5, <5>2, <6>1 DEF Writers
                    <6> QED BY <2>1, <6>1, <6>2
                <5> QED BY <5>1, <5>2
            <4>3. Writers' = {} => live' \in strays'
                BY <4>2
            <4>4. live' \in strays' \union {save'[i].config : i \in Writers'}
                BY <4>2
            <4> QED BY <4>3, <4>4 DEF KnownInv
        <3> QED BY <2>1, <3>1, <3>2
    <2> QED BY <1>4, <1>5, <2>2, <2>3, <2>4, <2>6 DEF SettingsInv
<1> QED BY <1>6, <1>7

(* The task of the boot. *)
LEMMA BootMoves ==
    ASSUME SettingsInv, BootSave \/ BootFetch \/ BootSet \/ BootWakes \/ BootMark
    PROVE  SettingsInv'
<1>1. boot # Idle /\ (boot.at # "mark" => Pending)
    BY Stages DEF BootSave, BootFetch, BootSet, BootWakes, BootMark, Pending
<1>2. \A j \in Saves : save[j] = Idle \/ (IsSaving(save[j]) /\ ~save[j].alone
                                        /\ (Unforced => save[j].config = ConfigOf(save[j].to)))
    BY <1>1 DEF SettingsInv, SavingInv
<1>3. UNCHANGED <<service, env, save>> /\ Unforced' = Unforced /\ Writers' = Writers
    BY DEF BootSave, BootFetch, BootSet, BootWakes, BootMark, Unforced, Writers
<1>4. \A j \in Saves : SavingInv(j)'
    BY <1>2, <1>3 DEF SavingInv, ConfigOf
<1>5. CASE BootSave
    <2>1. /\ boot.at = "save" /\ Pending /\ IsBooting(boot)
        BY <1>1, <1>5 DEF BootSave, SettingsInv
    <2> DEFINE sure == boot.alone /\ row' = boot.to
    <2>2. /\ boot' = [boot EXCEPT !.at = "fetch", !.to = Defaults, !.alone = sure]
          /\ row' \in {row, boot.to} /\ UNCHANGED <<live, strays>>
        BY <1>5 DEF BootSave
    <2>A. sure \in BOOLEAN /\ (sure => boot.alone /\ row' = boot.to)
        BY <2>1 DEF IsBooting
    <2> HIDE DEF sure
    <2>3. /\ IsBooting(boot') /\ boot'.at = "fetch" /\ boot'.alone = sure
          /\ boot'.config = boot.config
        <3>1. IsSettings(Defaults)
            BY DEF Defaults, IsSettings
        <3> QED BY <2>1, <2>2, <2>A, <3>1 DEF IsBooting
    <2>B. BootInv'
        <3> SUFFICES ASSUME sure PROVE BootInv'
            BY <2>3 DEF BootInv
        <3>1. /\ boot.alone /\ row' = boot.to /\ \A j \in Saves : save[j] = Idle
              /\ Unforced => boot.config = ConfigOf(boot.to)
            BY <2>1, <2>A DEF SettingsInv, BootInv
        <3>2. Unforced' => boot'.config = ConfigOf(row)'
            BY <1>3, <2>3, <3>1 DEF ConfigOf
        <3> QED BY <1>3, <2>3, <3>1, <3>2 DEF BootInv
    <2>4. IsSettings(row') /\ Pending'
        BY <2>1, <2>2, <2>3, Stages DEF SettingsInv, IsBooting, Pending
    <2>5. KnownInv'
        BY <1>3, <2>1, <2>2, <2>4 DEF SettingsInv, KnownInv
    <2> QED BY <1>3, <1>4, <2>3, <2>4, <2>5, <2>B DEF SettingsInv
<1>6. CASE BootFetch \/ BootWakes
    <2>1. Pending /\ IsBooting(boot) /\ UNCHANGED <<row, live, strays>>
        BY <1>1, <1>6 DEF BootFetch, BootWakes, SettingsInv
    <2>2. \/ /\ IsBooting(boot') /\ boot'.at # "save" /\ boot.at # "save"
             /\ boot'.alone = boot.alone /\ boot'.config = boot.config
          \/ boot' \in {Idle, Marking} /\ (gaveUp' \/ live # Stopped)
        <3>1. CASE BootFetch
            BY <2>1, <3>1 DEF BootFetch, BootGoes, IsBooting
        <3>2. CASE BootWakes
            BY <2>1, <3>2 DEF BootWakes, BootGoes, BootSucceeds, IsBooting
        <3> QED BY <1>6, <3>1, <3>2
    <2>3. Pending' => IsBooting(boot')
        BY <2>2 DEF Pending
    <2>4. ~Pending' => gaveUp' \/ live # Stopped
        BY <2>2, Stages DEF Pending
    <2>5. KnownInv'
        BY <1>3, <2>1, <2>4 DEF SettingsInv, KnownInv
    <2>6. BootInv'
        <3>1. CASE boot' \in {Idle, Marking}
            BY <3>1 DEF BootInv, Pending
        <3>2. CASE boot' \notin {Idle, Marking}
            <4>1. ConfigOf(row)' = ConfigOf(row)
                BY <1>3, <2>1 DEF ConfigOf
            <4> QED BY <1>3, <2>1, <2>2, <3>2, <4>1 DEF SettingsInv, BootInv
        <3> QED BY <3>1, <3>2
    <2> QED BY <1>3, <1>4, <2>1, <2>3, <2>5, <2>6 DEF SettingsInv
<1>7. CASE BootSet
    <2>1. /\ live' = boot.config /\ row' = row /\ boot' \in {Idle, Marking}
          /\ boot.at = "set" /\ Pending /\ IsBooting(boot)
          /\ strays' = IF boot.alone THEN {} ELSE {boot.config}
        BY <1>1, <1>7 DEF BootSet, BootSucceeds, SettingsInv
    <2>2. ~Pending' /\ BootInv'
        BY <2>1 DEF Pending, BootInv
    <2>3. CASE ~boot.alone
        BY <1>3, <1>4, <2>1, <2>2, <2>3 DEF SettingsInv, KnownInv
    <2>4. CASE boot.alone
        <3>1. Writers' = {} /\ (Unforced' => live' = ConfigOf(row)')
            BY <1>3, <2>1, <2>4, Stages DEF SettingsInv, BootInv, Writers, ConfigOf
        <3>2. KnownInv'
            BY <2>2, <3>1 DEF KnownInv
        <3> QED BY <1>3, <1>4, <2>1, <2>2, <3>2 DEF SettingsInv
    <2> QED BY <2>1, <2>3, <2>4 DEF IsBooting
<1>8. CASE BootMark
    <2>1. /\ boot' = Idle /\ UNCHANGED <<row, live, strays, gaveUp>>
          /\ boot.at = "mark"
        BY <1>8 DEF BootMark
    <2>2. ~Pending /\ ~Pending'
        BY <2>1 DEF Pending, SettingsInv, IsBooting
    <2>3. KnownInv'
        BY <1>3, <2>1, <2>2 DEF SettingsInv, KnownInv, ConfigOf
    <2>4. BootInv'
        BY <2>2 DEF BootInv
    <2> QED BY <1>3, <1>4, <2>1, <2>2, <2>3, <2>4 DEF SettingsInv
<1> QED BY <1>5, <1>6, <1>7, <1>8

(* A restart makes the service anew of the row, or of the defaults. *)
LEMMA RestartMends == SettingsInv /\ Restart /\ setup \in BOOLEAN => SettingsInv'
<1> SUFFICES ASSUME SettingsInv, Restart, setup \in BOOLEAN PROVE SettingsInv'
    OBVIOUS
<1>1. PICK found \in FoundSettings, ended \in FoundEnded, skip \in BOOLEAN :
        /\ save' = [j \in Saves |-> Idle] /\ UNCHANGED <<service, env, row>>
        /\ strays' = {ConfigOf(found)} \ {ConfigOf(row)}
        /\ \/ /\ live' = IF service = "oidc" THEN Stopped ELSE ConfigOf(found)
              /\ gaveUp' = FALSE
           \/ service = "mail" /\ live' = Stopped /\ gaveUp' = TRUE
        /\ boot' = BootTask(found, ended, skip)
    BY ConfigsAre DEF Restart
<1>2. IsSettings(found)
    BY DEF FoundSettings, SettingsInv, Defaults, IsSettings
<1>3. ended \in BOOLEAN
    BY <1>1 DEF FoundEnded
<1>4. \/ boot' = Idle /\ (service = "mail" \/ ConfigOf(found) = Stopped)
      \/ /\ IsBooting(boot') /\ service # "mail"
         /\ boot'.alone /\ Unforced =>
              boot'.config = ConfigOf(IF boot'.at = "save" THEN boot'.to ELSE row)
    BY <1>1, <1>2, <1>3, BootTaskInv DEF SettingsInv
<1>5. Writers' = {} /\ \A j \in Saves : save'[j] = Idle
    BY <1>1, Stages DEF Writers
<1>6. ConfigOf(row)' = ConfigOf(row) /\ service \in {"oidc", "mail"}
    BY <1>1 DEF ConfigOf, SettingsInv
<1>7. KnownInv'
    <2>1. CASE IsBooting(boot') /\ service # "mail"
        <3>1. live' = Stopped /\ Pending'
            BY <1>1, <1>6, <2>1, Stages DEF Pending
        <3> QED BY <1>5, <3>1 DEF KnownInv
    <2>2. CASE boot' = Idle /\ (service = "mail" \/ ConfigOf(found) = Stopped)
        <3>1. ~Pending'
            BY <2>2 DEF Pending
        <3>2. live' = ConfigOf(found) \/ (gaveUp' /\ live' = Stopped)
            BY <1>1, <1>6, <2>2
        <3>3. live' \in strays' \union {ConfigOf(row)'} \/ (gaveUp' /\ live' = Stopped)
            BY <1>1, <1>6, <3>2
        <3> QED BY <1>5, <3>1, <3>3 DEF KnownInv
    <2> QED BY <1>4, <2>1, <2>2
<1>8. Pending' => IsBooting(boot')
    BY <1>4 DEF Pending
<1>9. BootInv'
    <2>1. Unforced' = Unforced
        BY <1>1 DEF Unforced
    <2>2. CASE boot' = Idle
        BY <2>2 DEF BootInv, Pending
    <2>3. CASE boot' # Idle
        <3>1. Unforced' /\ boot'.alone =>
                boot'.config = ConfigBy(service', env', IF boot'.at = "save" THEN boot'.to ELSE row')
            BY <1>1, <1>4, <2>1, <2>3 DEF ConfigOf
        <3> QED BY <1>5, <3>1 DEF BootInv, ConfigOf
    <2> QED BY <2>2, <2>3
<1> QED BY <1>1, <1>5, <1>7, <1>8, <1>9 DEF SettingsInv, SavingInv

(* Every step of the settings keeps the invariant. *)
LEMMA SettingsStep ==
    SettingsInv /\ setup \in BOOLEAN /\ [SettingsNext]_settingsVars => SettingsInv'
<1> SUFFICES ASSUME SettingsInv, setup \in BOOLEAN, [SettingsNext]_settingsVars PROVE SettingsInv'
    OBVIOUS
<1>1. ASSUME NEW j \in Saves, FetchConfiguration(j) \/ BuildTransport(j)
      PROVE  SettingsInv'
    <2>1. /\ save[j].at = "prepare" /\ UNCHANGED <<service, env, row, live, boot, strays, gaveUp>>
          /\ \/ save' = [save EXCEPT ![j] = [save[j] EXCEPT !.at = "set"]]
             \/ save' = [save EXCEPT ![j] = Idle]
        BY <1>1 DEF FetchConfiguration, BuildTransport, Prepare, Goes
    <2>2. save[j] # Idle
        BY <2>1 DEF Idle
    <2> QED BY <2>1, <2>2, SaveMoves
<1>2. CASE SetupEnds \/ UNCHANGED settingsVars
    <2>1. UNCHANGED <<service, env, row, live, save, boot, strays, gaveUp>>
        BY <1>2 DEF SetupEnds, settingsVars
    <2> QED BY <2>1 DEF SettingsInv, SavingInv, BootInv, KnownInv, Pending, Writers, Unforced, ConfigOf
<1> QED BY <1>1, <1>2, SavesBegin, SaveSwitches, BootMoves, RestartMends
        DEF SettingsNext, SaveStep

(* Who moves, but for what he does. *)
LEMMA WhoMoves ==
    ASSUME [SettingsNext]_settingsVars
    PROVE  \/ \E j \in Saves : Prepare(j) \/ Set(j) \/ WriteRow(j) \/ BreakOff(j)
           \/ \E j \in Saves : \E s : \/ SaveUserSettings(j, s) \/ SaveMailSettings(j, s)
                                      \/ InitOidc(j, s)
           \/ BootSave \/ BootFetch \/ BootSet \/ BootWakes \/ BootMark
           \/ Restart \/ SetupEnds \/ UNCHANGED settingsVars
BY DEF SettingsNext, SaveStep, FetchConfiguration, BuildTransport

(* The setup is complete or not. *)
LEMMA SetupStep == setup \in BOOLEAN /\ [SettingsNext]_settingsVars => setup' \in BOOLEAN
<1> SUFFICES ASSUME setup \in BOOLEAN, [SettingsNext]_settingsVars PROVE setup' \in BOOLEAN
    OBVIOUS
<1>1. ASSUME NEW j, Prepare(j) \/ Set(j) \/ WriteRow(j) \/ BreakOff(j) PROVE setup' = setup
    BY <1>1 DEF Prepare, Set, WriteRow, BreakOff
<1>2. ASSUME NEW j, NEW s, SaveUserSettings(j, s) \/ SaveMailSettings(j, s) \/ InitOidc(j, s)
      PROVE  setup' = setup
    BY <1>2 DEF SaveUserSettings, SaveMailSettings, InitOidc, Begin
<1>3. CASE BootSave \/ BootFetch \/ BootSet \/ BootWakes \/ Restart \/ UNCHANGED settingsVars
    BY <1>3 DEF BootSave, BootFetch, BootSet, BootWakes, Restart, settingsVars
<1>4. CASE BootMark \/ SetupEnds
    BY <1>4 DEF BootMark, SetupEnds
<1> QED BY <1>1, <1>2, <1>3, <1>4, WhoMoves

(* A process keeps its environment, and those that follow it. *)
LEMMA EnvStays == [SettingsNext]_settingsVars => env' = env
<1> SUFFICES ASSUME [SettingsNext]_settingsVars PROVE env' = env
    OBVIOUS
<1>1. ASSUME NEW j, Prepare(j) \/ Set(j) \/ WriteRow(j) \/ BreakOff(j) PROVE env' = env
    BY <1>1 DEF Prepare, Set, WriteRow, BreakOff
<1>2. ASSUME NEW j, NEW s, SaveUserSettings(j, s) \/ SaveMailSettings(j, s) \/ InitOidc(j, s)
      PROVE  env' = env
    BY <1>2 DEF SaveUserSettings, SaveMailSettings, InitOidc, Begin
<1>3. CASE BootSave \/ BootFetch \/ BootSet \/ BootWakes \/ BootMark
    BY <1>3 DEF BootSave, BootFetch, BootSet, BootWakes, BootMark
<1>4. CASE Restart \/ SetupEnds \/ UNCHANGED settingsVars
    BY <1>4 DEF Restart, SetupEnds, settingsVars
<1> QED BY <1>1, <1>2, <1>3, <1>4, WhoMoves

(* Once nothing is under way the service runs on what the row says, or on  *)
(* what a save that raced or broke off, or a boot task that raced or could *)
(* not write, left behind, or, its query having failed at boot, on the     *)
(* defaults; or its boot has given up; unless the environment overrules    *)
(* what a setup sets.                                                      *)
THEOREM ServicesRunOnWhatIsSaved == SettingsSpec => []LiveIsSaved
<1> DEFINE I == SettingsInv /\ setup \in BOOLEAN
<1>1. I => LiveIsSaved
    <2>1. Quiet => ~Pending /\ Writers = {}
        BY Stages DEF Quiet, Busy, Pending, Writers
    <2> QED BY <2>1, ConfigsAre DEF SettingsInv, KnownInv, LiveIsSaved, Unforced
<1>2. SettingsInit => I
    BY SettingsInitInv DEF SettingsInit
<1>3. I /\ [SettingsNext]_settingsVars => I'
    BY SettingsStep, SetupStep
<1> QED BY <1>1, <1>2, <1>3, PTL DEF SettingsSpec

(* The environment has a secret that no client types. *)
Secretive == env.secret # Unset /\ \A s \in Offered : s.secret # env.secret

(* The settings s do not hold the secret of the environment. *)
NotKnown(s) == s.secret # env.secret

(* Neither the row nor what is about to be written holds it. *)
SecretInv ==
    \/ told
    \/ /\ NotKnown(row)
       /\ \A j \in Saves : save[j] # Idle => NotKnown(save[j].to)
       /\ boot # Idle /\ boot.at = "save" => NotKnown(boot.to)

(* The boot writes what it found, not what the environment says. *)
LEMMA BootTaskSecret ==
    ASSUME NEW found, IsSettings(found), NotKnown(found), NEW ended, NEW skip
    PROVE  LET duty == BootTask(found, ended, skip)
           IN  duty # Idle /\ duty.at = "save" => NotKnown(duty.to)
<1> DEFINE config == Config(Overlaid(found, env))
           creates == skip /\ ~ended /\ ~config.creates
           duty == BootTask(found, ended, skip)
<1>1. CASE service = "mail" \/ config = Stopped
    BY <1>1 DEF BootTask
<1>2. ASSUME service # "mail", config # Stopped, creates
      PROVE  duty.to = [found EXCEPT !.creates = TRUE]
    BY <1>2 DEF BootTask
<1>3. ASSUME service # "mail", config # Stopped, ~creates
      PROVE  duty.at = "fetch"
    BY <1>3 DEF BootTask
<1>4. NotKnown([found EXCEPT !.creates = TRUE])
    BY DEF NotKnown, IsSettings, Fields
<1> QED BY <1>1, <1>2, <1>3, <1>4

(* A save completes an empty secret from the row. *)
LEMMA SecretBegins ==
    ASSUME SettingsInv, Secretive, SecretInv, NEW j \in Saves, NEW to, NEW config,
           Begin(j, to, config), told => told', IsSettings(to), told \/ NotKnown(to)
    PROVE  SecretInv'
<1>1. CASE told
    BY <1>1 DEF SecretInv
<1>2. CASE ~told
    <2>1. /\ UNCHANGED <<env, row>>
          /\ boot' # Idle /\ boot'.at = "save" => /\ boot # Idle /\ boot.at = "save"
                                                /\ boot'.to = boot.to
        <3>1. UNCHANGED <<env, row>> /\ boot' = Overlapped
            BY DEF Begin
        <3>2. CASE Pending
            <4>1. boot' = [boot EXCEPT !.alone = FALSE] /\ IsBooting(boot)
                BY <3>1, <3>2 DEF Pending, Overlapped, SettingsInv
            <4> QED BY <3>1, <3>2, <4>1 DEF IsBooting, Pending
        <3>3. CASE ~Pending
            BY <3>1, <3>3 DEF Pending, Overlapped
        <3> QED BY <3>2, <3>3
    <2>2. ASSUME NEW i \in Saves, save'[i] # Idle PROVE NotKnown(save'[i].to)
        <3>1. CASE i = j
            BY <1>2, <3>1 DEF Begin, Arrives, NotKnown
        <3>2. CASE i # j
            <4>1. save[i] # Idle /\ save'[i] = [save[i] EXCEPT !.alone = FALSE]
                BY <2>2, <3>2 DEF Begin, Arrives
            <4>2. IsSaving(save[i])
                BY <4>1 DEF SettingsInv, SavingInv
            <4>3. save'[i].to = save[i].to
                BY <4>1, <4>2 DEF IsSaving
            <4> QED BY <1>2, <4>1, <4>3 DEF SecretInv, NotKnown
        <3> QED BY <3>1, <3>2
    <2> QED BY <1>2, <2>1, <2>2 DEF SecretInv, NotKnown
<1> QED BY <1>1, <1>2

(* Every step keeps the secret of the environment out of the row. *)
LEMMA SecretStep ==
    SettingsInv /\ Secretive /\ SecretInv /\ [SettingsNext]_settingsVars => SecretInv'
<1> SUFFICES ASSUME SettingsInv, Secretive, SecretInv, [SettingsNext]_settingsVars
             PROVE  SecretInv'
    OBVIOUS
<1>1. CASE told
    <2>1. ASSUME NEW j, Prepare(j) \/ Set(j) \/ WriteRow(j) \/ BreakOff(j) PROVE told'
        BY <1>1, <2>1 DEF Prepare, Set, WriteRow, BreakOff
    <2>2. ASSUME NEW j, NEW s, SaveUserSettings(j, s) \/ SaveMailSettings(j, s) PROVE told'
        BY <1>1, <2>2 DEF SaveUserSettings, SaveMailSettings
    <2>3. ASSUME NEW j, NEW s, InitOidc(j, s) PROVE told'
        <3>1. told' = (told \/ s = GetOidcSettings)
            BY <2>3 DEF InitOidc
        <3> QED BY <1>1, <3>1, Zenon
    <2>4. ASSUME BootSave \/ BootFetch \/ BootSet \/ BootWakes \/ BootMark PROVE told'
        <3>1. told' = told
            BY <2>4 DEF BootSave, BootFetch, BootSet, BootWakes, BootMark
        <3> QED BY <1>1, <3>1, Zenon
    <2>5. ASSUME Restart \/ SetupEnds \/ UNCHANGED settingsVars PROVE told'
        <3>1. told' = told
            BY <2>5 DEF Restart, SetupEnds, settingsVars
        <3> QED BY <1>1, <3>1, Zenon
    <2> QED BY <2>1, <2>2, <2>3, <2>4, <2>5, WhoMoves DEF SecretInv
<1>2. ASSUME ~told, NEW j \in Saves, NEW s \in Sent(GetUserSettings) \union Sent(GetMailSettings),
             SaveUserSettings(j, s) \/ SaveMailSettings(j, s)
      PROVE  SecretInv'
    <2>1. NotKnown(row) /\ IsSettings(row)
        BY <1>2 DEF SecretInv, SettingsInv
    <2>2. IsSettings(s) /\ (s.secret = Unset \/ NotKnown(s))
        <3>1. CASE s \in Offered
            BY <3>1, SettingsOK DEF Secretive, NotKnown
        <3>2. CASE s \in {GetUserSettings, GetMailSettings}
            <4>1. s = [Overlaid(row, env) EXCEPT !.secret = Unset]
                BY <3>2 DEF GetUserSettings, GetMailSettings, FieldsFromEnv
            <4>2. IsSettings(Overlaid(row, env))
                BY <2>1, SettingsFacts
            <4> QED BY <4>1, <4>2, SettingsFacts DEF IsSettings, Fields
        <3> QED BY <1>2, <3>1, <3>2 DEF Sent
    <2>3. IsSettings(Completed(s)) /\ NotKnown(Completed(s))
        BY <2>1, <2>2 DEF Completed, IsSettings, Fields, NotKnown
    <2>4. told' = told /\ \E config : Begin(j, Completed(s), config)
        BY <1>2 DEF SaveUserSettings, SaveMailSettings
    <2> QED BY <2>3, <2>4, SecretBegins
<1>3. ASSUME ~told, NEW j \in Saves, NEW s \in Sent(GetOidcSettings), InitOidc(j, s)
      PROVE  SecretInv'
    <2> DEFINE to == [s EXCEPT !.on = TRUE, !.creates = TRUE]
    <2>1. /\ told' = (told \/ s = GetOidcSettings)
          /\ \E config : Begin(j, to, config)
        BY <1>3 DEF InitOidc
    <2>2. CASE s = GetOidcSettings
        BY <2>1, <2>2 DEF SecretInv
    <2>3. CASE s # GetOidcSettings
        <3>1. s \in Offered /\ ~told
            BY <1>3, <2>3 DEF Sent
        <3>2. IsSettings(to) /\ NotKnown(to)
            BY <3>1, SettingsOK DEF IsSettings, Fields, NotKnown, Secretive
        <3> HIDE DEF to
        <3> QED BY <2>1, <3>1, <3>2, SecretBegins
    <2> QED BY <2>2, <2>3
<1>4. ASSUME ~told, NEW j \in Saves,
             FetchConfiguration(j) \/ BuildTransport(j) \/ Set(j) \/ WriteRow(j) \/ BreakOff(j)
      PROVE  SecretInv'
    <2>1. save[j].at # "idle" /\ Idle.at = "idle"
        <3>1. save[j].at \in {"prepare", "set", "write"}
            BY <1>4 DEF FetchConfiguration, BuildTransport, Prepare, Set, WriteRow, BreakOff
        <3>2. Idle.at = "idle"
            BY DEF Idle
        <3> QED BY <3>1, <3>2
    <2>2. IsSaving(save[j]) /\ NotKnown(save[j].to) /\ NotKnown(row)
        BY <1>4, <2>1 DEF SettingsInv, SavingInv, SecretInv
    <2>3. /\ UNCHANGED <<env, told, boot>> /\ row' \in {row, save[j].to}
          /\ \/ save' = [save EXCEPT ![j] = Idle]
             \/ \E at : save' = [save EXCEPT ![j] = [save[j] EXCEPT !.at = at]]
        BY <1>4 DEF FetchConfiguration, BuildTransport, Prepare, Set, WriteRow, BreakOff, Goes,
           Leaves
    <2>4. ASSUME NEW i \in Saves, save'[i] # Idle PROVE NotKnown(save'[i].to)
        <3>1. CASE i = j
            <4>1. save'[i] = Idle \/ \E at : save'[i] = [save[j] EXCEPT !.at = at]
                BY <2>3, <3>1 DEF SettingsInv
            <4> QED BY <2>2, <2>4, <4>1 DEF IsSaving, NotKnown
        <3>2. CASE i # j
            BY <1>4, <2>3, <2>4, <3>2 DEF SettingsInv, SecretInv, NotKnown
        <3> QED BY <3>1, <3>2
    <2> QED BY <1>4, <2>2, <2>3, <2>4 DEF SecretInv, NotKnown
<1>5. CASE ~told /\ (BootSave \/ BootFetch \/ BootSet \/ BootWakes \/ BootMark)
    <2>1. boot # Idle /\ NotKnown(row) /\ (boot.at = "save" => NotKnown(boot.to))
        BY <1>5, Stages DEF BootSave, BootFetch, BootSet, BootWakes, BootMark, SecretInv
    <2>2. UNCHANGED <<env, told, save>>
        BY <1>5 DEF BootSave, BootFetch, BootSet, BootWakes, BootMark
    <2>3. boot.at # "mark" => IsBooting(boot)
        BY <2>1, Stages DEF SettingsInv, Pending
    <2>4. row' = row \/ (boot.at = "save" /\ row' = boot.to)
        BY <1>5 DEF BootSave, BootFetch, BootSet, BootWakes, BootMark
    <2>5. boot' = Idle \/ boot'.at # "save"
        <3>1. CASE BootSave
            BY <2>3, <3>1 DEF BootSave, IsBooting
        <3>2. CASE BootFetch
            BY <2>3, <3>2 DEF BootFetch, BootGoes, IsBooting
        <3>3. CASE BootSet \/ BootMark
            BY <3>3, Stages DEF BootSet, BootMark, BootSucceeds
        <3>4. CASE BootWakes
            BY <2>3, <3>4, Stages DEF BootWakes, BootGoes, BootSucceeds, IsBooting
        <3> QED BY <1>5, <3>1, <3>2, <3>3, <3>4
    <2> QED BY <1>5, <2>1, <2>2, <2>4, <2>5 DEF SecretInv, NotKnown
<1>6. CASE ~told /\ Restart
    <2>1. PICK found \in FoundSettings, ended \in FoundEnded, skip \in BOOLEAN :
              boot' = BootTask(found, ended, skip)
        BY <1>6 DEF Restart
    <2>2. /\ UNCHANGED <<env, told, row>> /\ \A j \in Saves : save'[j] = Idle
          /\ NotKnown(row) /\ IsSettings(row)
        BY <1>6 DEF Restart, SecretInv, SettingsInv
    <2>3. IsSettings(Defaults) /\ NotKnown(Defaults)
        BY DEF IsSettings, Defaults, Fields, NotKnown, Secretive
    <2>4. IsSettings(found) /\ NotKnown(found)
        BY <2>2, <2>3 DEF FoundSettings
    <2>5. boot' # Idle /\ boot'.at = "save" => NotKnown(boot'.to)
        BY <2>1, <2>4, BootTaskSecret
    <2> QED BY <2>2, <2>5 DEF SecretInv, NotKnown
<1>7. CASE SetupEnds \/ UNCHANGED settingsVars
    BY <1>7 DEF SetupEnds, settingsVars, SecretInv, NotKnown
<1> QED BY <1>1, <1>2, <1>3, <1>4, <1>5, <1>6, <1>7 DEF SettingsNext, SaveStep

(* A secret that only the environment says gets into the row by no save    *)
(* and no boot, only by a client that sends back what the setup showed it. *)
THEOREM SecretsStayInTheEnvironment == SettingsSpec => []EnvStaysOut
<1>1. Secretive /\ SettingsInit => SecretInv
    <2> SUFFICES ASSUME Secretive, SettingsInit PROVE SecretInv
        OBVIOUS
    <2>1. NotKnown(row) /\ IsSettings(row)
        BY DEF SettingsInit, Defaults, Secretive, NotKnown, IsSettings, Fields
    <2>2. /\ \E skip \in BOOLEAN : boot = BootTask(row, FALSE, skip)
          /\ \A j \in Saves : save[j] = Idle
        BY DEF SettingsInit
    <2>3. boot # Idle /\ boot.at = "save" => NotKnown(boot.to)
        BY <2>1, <2>2, BootTaskSecret
    <2> QED BY <2>1, <2>2, <2>3 DEF SecretInv
<1>2. SecretInv => EnvStaysOut
    BY DEF SecretInv, EnvStaysOut, NotKnown
<1>3. ~Secretive => EnvStaysOut
    BY DEF Secretive, EnvStaysOut
<1> DEFINE I == SettingsInv /\ setup \in BOOLEAN /\ (Secretive => SecretInv)
<1>4. SettingsInit => I
    BY <1>1, SettingsInitInv DEF SettingsInit
<1>5. I /\ [SettingsNext]_settingsVars => I'
    <2>1. [SettingsNext]_settingsVars => (Secretive' <=> Secretive)
        BY EnvStays DEF Secretive
    <2> QED BY <2>1, SettingsStep, SetupStep, SecretStep
<1>6. I => EnvStaysOut
    BY <1>2, <1>3
<1> QED BY <1>4, <1>5, <1>6, PTL DEF SettingsSpec

-----------------------------------------------------------------------------
(* The types of LiveSettings and of Layers *)

(* What Settings says, field by field. *)
FieldsTyped(s) ==
    /\ IsSettings(s)
    /\ s.on \in Said("on") \union {TRUE} /\ s.secret \in Said("secret")
    /\ s.which \in Said("which") /\ s.creates \in Said("creates") \union {TRUE}

(* FieldsTyped is Settings. *)
LEMMA SettingsByField == ASSUME NEW s PROVE s \in Settings <=> FieldsTyped(s)
<1>1. ASSUME s \in Settings PROVE FieldsTyped(s)
    BY <1>1 DEF Settings, FieldsTyped, IsSettings, Fields
<1>2. ASSUME FieldsTyped(s) PROVE s \in Settings
    <2>1. s = [on |-> s.on, secret |-> s.secret, which |-> s.which, creates |-> s.creates]
        BY <1>2 DEF Settings, FieldsTyped, IsSettings, Fields
    <2> QED BY <1>2, <2>1 DEF FieldsTyped, Settings
<1> QED BY <1>1, <1>2

(* What clients type and what an empty database holds are settings. *)
LEMMA OffersTyped == \A s \in Offered \union {Defaults} : s \in Settings
<1>1. \A s \in Offered \union {Defaults} : FieldsTyped(s)
    BY SettingsOK DEF FieldsTyped, IsSettings, Fields, Said, Defaults
<1> QED BY <1>1, SettingsByField

(* What a handler makes of settings is settings. *)
LEMMA OverlaysTyped ==
    ASSUME NEW s \in Settings, env \in Envs
    PROVE  /\ Overlaid(s, env) \in Settings
           /\ \A v \in Said("secret") : [s EXCEPT !.secret = v] \in Settings
           /\ [s EXCEPT !.creates = TRUE] \in Settings
           /\ [s EXCEPT !.on = TRUE, !.creates = TRUE] \in Settings
           /\ Completed(s) \in Settings \/ row \notin Settings
<1>1. FieldsTyped(s)
    BY SettingsByField
<1>2. FieldsTyped(Overlaid(s, env))
    BY <1>1, SettingsOK DEF FieldsTyped, IsSettings, Overlaid, Fields, Said
<1>3. \A v \in Said("secret") : FieldsTyped([s EXCEPT !.secret = v])
    BY <1>1 DEF FieldsTyped, IsSettings, Fields
<1>4. FieldsTyped([s EXCEPT !.creates = TRUE])
    BY <1>1 DEF FieldsTyped, IsSettings, Fields
<1>5. FieldsTyped([s EXCEPT !.on = TRUE, !.creates = TRUE])
    BY <1>1 DEF FieldsTyped, IsSettings, Fields
<1>6. FieldsTyped(row) => FieldsTyped(Completed(s))
    BY <1>1 DEF FieldsTyped, IsSettings, Fields, Completed
<1> QED BY <1>1, <1>2, <1>3, <1>4, <1>5, <1>6, SettingsByField

(* What a service is made to run on is a configuration. *)
LEMMA ConfigsTyped ==
    ASSUME NEW s \in Settings
    PROVE  OidcSettings(s) \in Configs /\ Smtp(s) \in Configs
BY SettingsByField DEF FieldsTyped, OidcSettings, Smtp, Configs

(* Where a save can be. *)
SaveRecords == [at : {"prepare", "set", "write"}, to : Settings, config : Configs, alone : BOOLEAN]

(* Where the boot task can be, but for its last step. *)
BootRecords ==
    [at : {"save", "fetch", "set", "sleep"}, to : Settings, config : Configs,
     tries : 0 .. Attempts, skips : BOOLEAN, alone : BOOLEAN]

(* One save moves or arrives; the others are at most no longer alone. *)
LEMMA SavesTyped ==
    ASSUME SettingsTypeOK, NEW j \in Saves, NEW q \in {Idle} \union SaveRecords,
           \/ save' = [save EXCEPT ![j] = q]
           \/ Arrives(j, q)
    PROVE  save' \in [Saves -> {Idle} \union SaveRecords]
<1>1. save \in [Saves -> {Idle} \union SaveRecords]
    BY DEF SettingsTypeOK, SaveRecords
<1>2. CASE save' = [save EXCEPT ![j] = q]
    BY <1>1, <1>2
<1>3. CASE Arrives(j, q)
    <2>1. \A p \in {Idle} \union SaveRecords : p # Idle => [p EXCEPT !.alone = FALSE] \in SaveRecords
        <3> SUFFICES ASSUME NEW p \in SaveRecords PROVE [p EXCEPT !.alone = FALSE] \in SaveRecords
            OBVIOUS
        <3> HIDE DEF Settings, Configs
        <3> QED BY DEF SaveRecords
    <2> DEFINE next(i) == IF i = j THEN q
                       ELSE IF save[i] = Idle THEN Idle ELSE [save[i] EXCEPT !.alone = FALSE]
    <2>2. \A i \in Saves : next(i) \in {Idle} \union SaveRecords
        BY <1>1, <2>1
    <2>3. save' = [i \in Saves |-> next(i)]
        BY <1>3 DEF Arrives
    <2> HIDE DEF next
    <2> QED BY <2>2, <2>3
<1> QED BY <1>2, <1>3

(* A request that begins to save settings. *)
LEMMA BeginTyped ==
    ASSUME SettingsTypeOK, NEW j \in Saves, NEW to \in Settings, NEW config \in Configs,
           Begin(j, to, config), told' \in BOOLEAN
    PROVE  SettingsTypeOK'
<1> DEFINE q == [at |-> IF config = Stopped THEN "set" ELSE "prepare",
                   to |-> to, config |-> config, alone |-> Quiet]
<1>1. /\ Arrives(j, q) /\ UNCHANGED <<service, env, row, live, setup, strays, gaveUp>>
      /\ boot' = Overlapped
    BY DEF Begin
<1>2. q \in SaveRecords
    BY DEF SaveRecords, Quiet
<1> HIDE DEF q
<1>3. save' \in [Saves -> {Idle} \union SaveRecords]
    BY <1>1, <1>2, SavesTyped
<1>4. boot' \in {Idle, Marking} \union BootRecords
    <2>1. boot \in {Idle, Marking} \union BootRecords
        BY DEF SettingsTypeOK, BootRecords
    <2>2. \A b \in BootRecords : [b EXCEPT !.alone = FALSE] \in BootRecords
        <3> HIDE DEF Settings, Configs
        <3> QED BY DEF BootRecords
    <2> QED BY <1>1, <2>1, <2>2 DEF Overlapped
<1> QED BY <1>1, <1>3, <1>4 DEF SettingsTypeOK, SaveRecords, BootRecords

(* The task that a boot starts. *)
LEMMA BootTaskTyped ==
    ASSUME NEW found \in Settings, env \in Envs, service \in {"oidc", "mail"},
           NEW ended \in BOOLEAN, NEW skip \in BOOLEAN
    PROVE  /\ BootTask(found, ended, skip) \in {Idle} \union BootRecords
           /\ Config(Overlaid(found, env)) \in Configs
<1> DEFINE c == Config(Overlaid(found, env))
           skips == skip /\ ~ended
           creates == skips /\ ~c.creates
           more == [found EXCEPT !.creates = TRUE]
           forced == [c EXCEPT !.creates = TRUE]
           new(at, to, config) ==
             [at |-> at, to |-> to, config |-> config, tries |-> 0, skips |-> skips,
              alone |-> found = row]
<1>1. Defaults \in Settings /\ Overlaid(found, env) \in Settings /\ more \in Settings
    BY OffersTyped, OverlaysTyped
<1>2. c \in Configs
    BY <1>1, ConfigsTyped DEF Config
<1>3. CASE service = "mail" \/ c = Stopped
    BY <1>2, <1>3 DEF BootTask
<1>4. CASE service # "mail" /\ c # Stopped
    <2>1. forced \in Configs
        <3>1. c \in [which : Said("which"), secret : Said("secret"), creates : BOOLEAN]
            BY <1>1, <1>4, SettingsByField DEF Config, OidcSettings, FieldsTyped
        <3> HIDE DEF c
        <3> QED BY <3>1 DEF Configs
    <2>2. BootTask(found, ended, skip) = new(IF creates THEN "save" ELSE "fetch",
                               IF creates THEN more ELSE Defaults, IF creates THEN forced ELSE c)
        BY <1>4 DEF BootTask
    <2>3. \A at \in {"save", "fetch"}, to \in Settings, config \in Configs :
              new(at, to, config) \in BootRecords
        <3> HIDE DEF Settings, Configs
        <3> QED BY SettingsOK DEF BootRecords
    <2>4. BootTask(found, ended, skip) \in BootRecords
        <3> HIDE DEF c, creates, more, forced, new
        <3> QED BY <1>1, <1>2, <2>1, <2>2, <2>3
    <2> QED BY <1>2, <2>4
<1> QED BY <1>3, <1>4

(* Whoever moves, a client, the boot task or a restart, the types stay. *)
LEMMA SettingsTypeStep == SettingsTypeOK /\ [SettingsNext]_settingsVars => SettingsTypeOK'
<1> SUFFICES ASSUME SettingsTypeOK, [SettingsNext]_settingsVars
             PROVE  SettingsTypeOK'
    OBVIOUS
<1>1. /\ service \in {"oidc", "mail"} /\ env \in Envs /\ row \in Settings
      /\ live \in Configs /\ strays \subseteq Configs
      /\ setup \in BOOLEAN /\ told \in BOOLEAN /\ gaveUp \in BOOLEAN
      /\ save \in [Saves -> {Idle} \union SaveRecords]
      /\ boot \in {Idle, Marking} \union BootRecords
    BY DEF SettingsTypeOK, SaveRecords, BootRecords
<1>2. ASSUME NEW j \in Saves, NEW s \in Sent(GetUserSettings) \union Sent(GetMailSettings),
             SaveUserSettings(j, s) \/ SaveMailSettings(j, s)
      PROVE  SettingsTypeOK'
    <2>1. s \in Settings
        <3>1. Overlaid(row, env) \in Settings
            BY <1>1, OverlaysTyped
        <3>3. Unset \in Said("secret")
            <4>1. Defaults["secret"] = Unset
                BY DEF Defaults, Fields
            <4> QED BY <4>1 DEF Said
        <3>2. GetUserSettings \in Settings /\ GetMailSettings \in Settings
            <4>1. \A t \in Settings, v \in Said("secret") : [t EXCEPT !.secret = v] \in Settings
                BY <1>1, OverlaysTyped
            <4>2. [Overlaid(row, env) EXCEPT !.secret = Unset] \in Settings
                BY <3>1, <3>3, <4>1
            <4> QED BY <4>2 DEF GetUserSettings, GetMailSettings, FieldsFromEnv
        <3> QED BY <1>2, <3>2, OffersTyped DEF Sent
    <2>2. Completed(s) \in Settings /\ Overlaid(Completed(s), env) \in Settings
        BY <1>1, <2>1, OverlaysTyped
    <2>3. told' = told /\ \E config \in Configs : Begin(j, Completed(s), config)
        BY <1>2, <2>2, ConfigsTyped DEF SaveUserSettings, SaveMailSettings
    <2> QED BY <1>1, <2>2, <2>3, BeginTyped
<1>3. ASSUME NEW j \in Saves, NEW s \in Sent(GetOidcSettings), InitOidc(j, s)
      PROVE  SettingsTypeOK'
    <2> DEFINE Forced(t) == [t EXCEPT !.on = TRUE, !.creates = TRUE]
    <2>1. s \in Settings
        BY <1>1, OverlaysTyped, OffersTyped DEF Sent, GetOidcSettings, FieldsFromEnv
    <2>2. \A t \in Settings : Forced(t) \in Settings
        BY <1>1, OverlaysTyped
    <2>3. /\ told' = (told \/ s = GetOidcSettings)
          /\ Begin(j, Forced(s), OidcSettings(Forced(Overlaid(s, env))))
        BY <1>3 DEF InitOidc
    <2> HIDE DEF Forced
    <2>4. Forced(s) \in Settings /\ OidcSettings(Forced(Overlaid(s, env))) \in Configs
        BY <1>1, <2>1, <2>2, OverlaysTyped, ConfigsTyped
    <2> QED BY <1>1, <2>3, <2>4, BeginTyped
<1>4. ASSUME NEW j \in Saves,
             FetchConfiguration(j) \/ BuildTransport(j) \/ Set(j) \/ WriteRow(j) \/ BreakOff(j)
      PROVE  SettingsTypeOK'
    <2>1. save[j] \in SaveRecords
        <3>1. save[j].at # "idle" /\ Idle.at = "idle"
            BY <1>4 DEF FetchConfiguration, BuildTransport, Prepare, Set, WriteRow, BreakOff, Idle
        <3> QED BY <1>1, <3>1
    <2> DEFINE q == save[j]
               going(at) == [q EXCEPT !.at = at]
    <2>2. going("set") \in SaveRecords /\ going("write") \in SaveRecords
        <3> HIDE DEF q, Settings, Configs
        <3> QED BY <2>1 DEF SaveRecords, q
    <2>3. q.config \in Configs /\ q.to \in Settings
        BY <2>1 DEF SaveRecords
    <2>4. \E p \in {Idle} \union SaveRecords : save' = [save EXCEPT ![j] = p]
        BY <1>4, <2>2 DEF FetchConfiguration, BuildTransport, Prepare, Set, WriteRow, BreakOff,
           Goes, Leaves
    <2>5. save' \in [Saves -> {Idle} \union SaveRecords]
        BY <2>4, SavesTyped
    <2>6. /\ row' \in {row, q.to} /\ live' \in {live, q.config}
          /\ strays' \subseteq strays \union {q.config}
          /\ gaveUp' \in {gaveUp, FALSE} /\ UNCHANGED <<service, env, setup, told, boot>>
        BY <1>4 DEF FetchConfiguration, BuildTransport, Prepare, Set, WriteRow, BreakOff,
           Goes, Leaves
    <2> HIDE DEF q
    <2>7. /\ row' \in Settings /\ live' \in Configs /\ strays' \subseteq Configs
          /\ gaveUp' \in BOOLEAN
        BY <1>1, <2>3, <2>6
    <2> QED BY <1>1, <2>5, <2>6, <2>7 DEF SettingsTypeOK, SaveRecords, BootRecords
<1>5. CASE BootSave \/ BootFetch \/ BootSet \/ BootWakes
    <2>1. boot \in BootRecords
        <3>1. boot.at \notin {"idle", "mark"}
            BY <1>5 DEF BootSave, BootFetch, BootSet, BootWakes
        <3> QED BY <1>1, <3>1, Stages
    <2> SUFFICES ASSUME NEW b, b = boot PROVE SettingsTypeOK'
        OBVIOUS
    <2>2. b \in BootRecords /\ Defaults \in Settings
        BY <2>1, OffersTyped
    <2>3. b.to \in Settings /\ b.config \in Configs /\ b.skips \in BOOLEAN /\ b.tries \in 0 .. Attempts
        BY <2>2 DEF BootRecords
    <2>4. boot' \in {Idle, Marking} \union BootRecords
        <3> HIDE DEF Settings, Configs
        <3>1. CASE BootSave
            <4>1. PICK sure \in BOOLEAN :
                        boot' = [b EXCEPT !.at = "fetch", !.to = Defaults, !.alone = sure]
                <5>1. (b.alone /\ row' = b.to) \in BOOLEAN
                    BY <2>2 DEF BootRecords
                <5> QED BY <3>1, <5>1 DEF BootSave
            <4> QED BY <2>2, <4>1 DEF BootRecords
        <3>2. CASE BootFetch
            <4>1. CASE boot' = [b EXCEPT !.at = "set"]
                BY <2>2, <4>1 DEF BootRecords
            <4>2. CASE b.tries + 1 < Attempts /\ boot' = [b EXCEPT !.at = "sleep", !.tries = b.tries + 1]
                <5>1. b.tries + 1 \in 0 .. Attempts
                    BY <2>3, <4>2, SettingsOK
                <5> QED BY <2>2, <4>2, <5>1 DEF BootRecords
            <4>3. CASE boot' = Idle
                BY <4>3
            <4> QED BY <3>2, <4>1, <4>2, <4>3, Zenon DEF BootFetch, BootGoes
        <3>3. CASE BootSet
            BY <3>3 DEF BootSet, BootSucceeds
        <3>4. CASE BootWakes
            <4>1. boot' \in {Idle, Marking} \/ boot' = [b EXCEPT !.at = "fetch"]
                BY <3>4 DEF BootWakes, BootGoes, BootSucceeds
            <4> QED BY <2>2, <4>1 DEF BootRecords
        <3> QED BY <1>5, <3>1, <3>2, <3>3, <3>4
    <2>5. /\ row' \in {row, b.to} /\ live' \in {live, b.config} /\ strays' \in {strays, {}, {b.config}}
          /\ gaveUp' \in {gaveUp, TRUE, FALSE} /\ UNCHANGED <<service, env, setup, told, save>>
        BY <1>5 DEF BootSave, BootFetch, BootSet, BootWakes
    <2>6. /\ row' \in Settings /\ live' \in Configs /\ strays' \subseteq Configs
          /\ gaveUp' \in BOOLEAN
        BY <1>1, <2>3, <2>5
    <2> QED BY <1>1, <2>4, <2>5, <2>6 DEF SettingsTypeOK, SaveRecords, BootRecords
<1>6. CASE Restart
    <2>0. PICK found \in FoundSettings, ended \in FoundEnded, skip \in BOOLEAN :
            /\ save' = [j \in Saves |-> Idle]
            /\ strays' = {Config(Overlaid(found, env))} \ {Config(Overlaid(row, env))}
            /\ boot' = BootTask(found, ended, skip)
            /\ \/ /\ live' = IF service = "oidc" THEN Stopped ELSE Config(Overlaid(found, env))
                  /\ gaveUp' = FALSE
               \/ service = "mail" /\ live' = Stopped /\ gaveUp' = TRUE
            /\ UNCHANGED <<service, env, told, row, setup>>
        BY <1>6, Zenon DEF Restart
    <2>1. /\ save' = [j \in Saves |-> Idle] /\ gaveUp' \in BOOLEAN
          /\ strays' = {Config(Overlaid(found, env))} \ {Config(Overlaid(row, env))}
          /\ live' \in {Stopped, Config(Overlaid(found, env))}
          /\ UNCHANGED <<service, env, told, row, setup>>
        <3> DEFINE c == Config(Overlaid(found, env))
        <3> HIDE DEF c
        <3>1. gaveUp' \in BOOLEAN /\ live' \in {Stopped, c}
            BY <2>0 DEF c
        <3> QED BY <2>0, <3>1 DEF c
    <2>2. found \in Settings /\ FoundEnded \subseteq BOOLEAN
        BY <1>1, OffersTyped DEF FoundSettings, FoundEnded
    <2>3. boot' \in {Idle} \union BootRecords /\ Config(Overlaid(found, env)) \in Configs
        BY <1>1, <2>0, <2>2, BootTaskTyped
    <2>4. live' \in Configs /\ strays' \subseteq Configs
        BY <2>1, <2>3 DEF Configs
    <2> QED BY <1>1, <2>1, <2>3, <2>4 DEF SettingsTypeOK, BootRecords
<1>7. CASE SetupEnds
    BY <1>7 DEF SettingsTypeOK, SetupEnds
<1>8. CASE UNCHANGED settingsVars
    BY <1>8 DEF SettingsTypeOK, settingsVars
<1>9. CASE BootMark
    BY <1>9 DEF SettingsTypeOK, BootMark
<1> QED
    BY <1>2, <1>3, <1>4, <1>5, <1>6, <1>7, <1>8, <1>9 DEF SettingsNext, SaveStep

(* The first boot, of an empty database. *)
LEMMA SettingsTypeInit == SettingsInit => SettingsTypeOK
<1> SUFFICES ASSUME SettingsInit PROVE SettingsTypeOK
    OBVIOUS
<1>1. /\ service \in {"oidc", "mail"} /\ env \in Envs /\ row \in Settings
      /\ setup = FALSE /\ told = FALSE /\ strays = {}
      /\ gaveUp \in BOOLEAN /\ live \in {Stopped, Config(Overlaid(row, env))}
      /\ save = [j \in Saves |-> Idle]
      /\ \E skip \in BOOLEAN : boot = BootTask(row, FALSE, skip)
    BY OffersTyped DEF SettingsInit
<1>2. boot \in {Idle} \union BootRecords /\ live \in Configs
    BY <1>1, BootTaskTyped DEF Configs
<1> QED BY <1>1, <1>2 DEF SettingsTypeOK, BootRecords

(* Settings, and what the services run on, keep their types, whatever the  *)
(* environment overrides and whoever saves during a boot.                  *)
THEOREM SettingsAreTyped == SettingsSpec => []SettingsTypeOK
BY SettingsTypeInit, SettingsTypeStep, PTL DEF SettingsSpec

(* Layers change no route. *)
LEMMA RoutesStay ==
    /\ \A app, names : DOMAIN With(app, names) = DOMAIN app \union names
    /\ \A app, around : DOMAIN Lay(app, around) = DOMAIN app
BY DEF With, Lay

(* Which routes there are depends on the features alone, which stay. *)
LEMMA ApiStays == features' = features => (DOMAIN Api)' = DOMAIN Api
BY DEF Api, AuthRoutes, PasswordRoutes, OidcRoutes, UserRoutes, AccountRoutes, InfoRoutes,
   ManagementRoutes, MailRoutes, GroupRoutes, SettingsRoutes, SetupRoutes, WebsocketRoutes

(* The parts add the routes of the library, and no others. *)
LEMMA LayersStep == LayersTypeOK /\ [LayersNext]_layersVars => LayersTypeOK'
<1> SUFFICES ASSUME LayersTypeOK, [LayersNext]_layersVars PROVE LayersTypeOK'
    OBVIOUS
<1> DEFINE Extra == {"health_check", "metrics", "frontend", "swagger", "api_spec"}
<1>1. DOMAIN routes \subseteq DOMAIN Api \union Extra
    <2>1. DOMAIN NoRoutes = {}
        BY DEF NoRoutes
    <2> QED BY <2>1 DEF LayersTypeOK
<1>2. CASE UNCHANGED layersVars
    BY <1>2, ApiStays DEF layersVars, LayersTypeOK
<1>3. ASSUME LayersNext
      PROVE  features' = features /\ built' \in 1 .. 9
    BY <1>3 DEF LayersNext, Part, ApiRoutes, Cors, Logging, Frontend, Metrics,
           SettingsLayers, States, Docs, Serve
<1>4. ASSUME LayersNext
      PROVE  DOMAIN routes' \subseteq DOMAIN Api \union Extra /\ DOMAIN side' \subseteq {"metrics"}
    <2>1. CASE ApiRoutes
        <3>1. PICK names \in SUBSET Extra : routes' = With(Api, names)
            BY <2>1 DEF ApiRoutes
        <3>2. PICK others \in SUBSET {"metrics"} : side' = With(side, others)
            BY <2>1 DEF ApiRoutes
        <3>3. DOMAIN With(Api, names) = DOMAIN Api \union names
            BY RoutesStay
        <3>4. DOMAIN With(side, others) = DOMAIN side \union others
            BY RoutesStay
        <3>5. DOMAIN side \subseteq {"metrics"}
            BY DEF LayersTypeOK
        <3> QED BY <3>1, <3>2, <3>3, <3>4, <3>5
    <2>2. CASE Frontend
        <3>1. /\ \/ UNCHANGED routes
                 \/ \E around : routes' = Lay(With(routes, {"frontend"}), around)
              /\ UNCHANGED side
            BY <2>2 DEF Frontend
        <3>2. DOMAIN With(routes, {"frontend"}) = DOMAIN routes \union {"frontend"}
            BY RoutesStay
        <3>3. DOMAIN routes' = DOMAIN routes \/ DOMAIN routes' = DOMAIN With(routes, {"frontend"})
            BY <3>1, RoutesStay
        <3> QED BY <1>1, <3>1, <3>2, <3>3 DEF LayersTypeOK
    <2>3. CASE Docs
        <3>1. /\ \E around : routes' = Lay(With(routes, {"swagger", "api_spec"}), around)
              /\ UNCHANGED side
            BY <2>3 DEF Docs
        <3>2. DOMAIN With(routes, {"swagger", "api_spec"})
                = DOMAIN routes \union {"swagger", "api_spec"}
            BY RoutesStay
        <3>3. DOMAIN routes' = DOMAIN With(routes, {"swagger", "api_spec"})
            BY <3>1, RoutesStay
        <3> QED BY <1>1, <3>1, <3>2, <3>3 DEF LayersTypeOK
    <2>4. CASE Cors \/ Logging \/ Metrics \/ SettingsLayers \/ States \/ Serve
        BY <1>1, <2>4, RoutesStay DEF Cors, Logging, Metrics, SettingsLayers, States, Serve, LayersTypeOK
    <2> QED BY <1>4, <2>1, <2>2, <2>3, <2>4 DEF LayersNext
<1>5. CASE LayersNext
    <2>1. DOMAIN routes' \subseteq (DOMAIN Api)' \union Extra /\ built' # 0
        BY <1>3, <1>4, <1>5, ApiStays
    <2> QED BY <1>3, <1>4, <1>5, <2>1 DEF LayersTypeOK
<1> QED BY <1>2, <1>5

LEMMA LayersTypeInit == LayersInit => LayersTypeOK
<1>1. DOMAIN NoRoutes = {}
    BY DEF NoRoutes
<1> QED BY <1>1 DEF LayersInit, LayersTypeOK

(* Whatever the build, the application has no routes but those of the      *)
(* library, and the server of the metrics has only its own.                *)
THEOREM LayersAreTyped == LayersSpec => []LayersTypeOK
BY LayersTypeInit, LayersStep, PTL DEF LayersSpec

-----------------------------------------------------------------------------
(* Layers.  What is laid around a route stays around it, so that what a    *)
(* part lays is there at the end, around the routes added before it.       *)

LayerNames ==
    {"limiter", "cors", "uri", "trace", "ProxyState", "FrontendState", "request_metrics",
     "MetricsPrefix", "MetricsHandle", "SiteConfig", "UserSettings", "MailSettings",
     "PasswordState", "JwtState", "JwtInvalidState", "OidcState", "Mailer",
     "ResetPasswordState", "EmailChangeState", "UpdateState", "Updater", "Connection", "Config",
     "OpenApi", "ConnectInfo"}

(* The routes that build_router adds to those of the routers. *)
Own == {"health_check", "metrics", "frontend", "swagger", "api_spec"}

Has(around, x) == \E i \in DOMAIN around : around[i] = x

(* Nothing is laid but layers; the middleware of the metrics has its       *)
(* prefix around it, and the log has the middleware that leaves the uri    *)
(* inside of it.                                                           *)
Sound(around) ==
    /\ around \in Seq(LayerNames)
    /\ \A i \in DOMAIN around :
         /\ around[i] = "request_metrics" =>
              \E j \in DOMAIN around : i < j /\ around[j] = "MetricsPrefix"
         /\ around[i] = "trace" => \E j \in DOMAIN around : j < i /\ around[j] = "uri"

(* What the first n parts have laid around the routes that were there.     *)
LaidBy(n) ==
    (IF n >= 4 /\ "frontend" \in features THEN {"ProxyState"} ELSE {})
      \union (IF n >= 5 /\ "metrics" \in features /\ "metrics_port" \notin features
                THEN {"MetricsHandle"} ELSE {})
      \union (IF n >= 6 THEN {"SiteConfig"} ELSE {})
      \union (IF n >= 6 /\ "oidc" \in features THEN {"UserSettings"} ELSE {})
      \union (IF n >= 7 /\ "avatar" \in features THEN {"OidcState"} ELSE {})
      \union (IF n >= 7
                THEN {"PasswordState", "JwtState", "JwtInvalidState", "Mailer",
                      "ResetPasswordState", "EmailChangeState", "UpdateState", "Updater",
                      "Connection"}
                ELSE {})

(* Which routes there are, after the part that adds them.                  *)
RoutesOK ==
    /\ "metrics" \in DOMAIN routes => "metrics" \in features /\ "metrics_port" \notin features
    /\ "frontend" \in DOMAIN routes => "frontend" \in features
    /\ built < 8 => "swagger" \notin DOMAIN routes /\ "api_spec" \notin DOMAIN routes
    /\ DOMAIN side # {} => "metrics_port" \in features

(* What the first n parts have left around a route.  The routes of the     *)
(* documentation come after the states.                                    *)
Covered(q, around, n) ==
    /\ Sound(around)
    /\ q \notin {"swagger", "api_spec"} => \A x \in LaidBy(n) : Has(around, x)
    /\ n >= 8 => Has(around, "OpenApi")
    /\ n = 9 /\ "connect_info" \in features =>
         Len(around) # 0 /\ around[Len(around)] = "ConnectInfo"

StacksOK ==
    /\ \A q \in DOMAIN routes : Covered(q, routes[q], built)
    /\ \A q \in DOMAIN side : side[q] = IF built >= 5 THEN <<"MetricsHandle">> ELSE <<>>

(* The inductive invariant of build_router. *)
LayersInv == LayersTypeOK /\ RoutesOK /\ StacksOK

(* Two lists of layers, one laid after the other. *)
LEMMA Concatenation ==
    ASSUME NEW S, NEW s \in Seq(S), NEW t \in Seq(S)
    PROVE  /\ s \o t \in Seq(S)
           /\ DOMAIN s = 1 .. Len(s) /\ DOMAIN t = 1 .. Len(t)
           /\ DOMAIN (s \o t) = 1 .. Len(s) + Len(t)
           /\ Len(s) \in Nat /\ Len(t) \in Nat /\ Len(s \o t) = Len(s) + Len(t)
           /\ \A i \in DOMAIN s : i \in DOMAIN (s \o t) /\ (s \o t)[i] = s[i]
           /\ \A i \in DOMAIN t : /\ Len(s) + i \in DOMAIN (s \o t)
                                  /\ (s \o t)[Len(s) + i] = t[i]
           /\ \A i \in DOMAIN (s \o t) :
                i \in DOMAIN s \/ (i - Len(s) \in DOMAIN t /\ (s \o t)[i] = t[i - Len(s)])
<1>1. /\ s \o t \in Seq(S) /\ Len(s \o t) = Len(s) + Len(t)
      /\ \A i \in 1 .. Len(s) + Len(t) :
           (s \o t)[i] = IF i <= Len(s) THEN s[i] ELSE t[i - Len(s)]
    BY ConcatProperties
<1>2. /\ DOMAIN s = 1 .. Len(s) /\ DOMAIN t = 1 .. Len(t) /\ Len(s) \in Nat /\ Len(t) \in Nat
      /\ DOMAIN (s \o t) = 1 .. Len(s \o t)
    BY <1>1, LenProperties
<1> QED BY <1>1, <1>2

(* The layers laid after one of a list: those a request has met when it comes to it. *)
LEMMA LayersAfter ==
    ASSUME NEW S, NEW s \in Seq(S), NEW i \in 1 .. Len(s)
    PROVE  \A j \in DOMAIN s :
             i < j => /\ j - i \in DOMAIN SubSeq(s, i + 1, Len(s))
                      /\ SubSeq(s, i + 1, Len(s))[j - i] = s[j]
<1>1. DOMAIN s = 1 .. Len(s) /\ Len(s) \in Nat /\ i \in Nat
    BY LenProperties
<1>2. /\ DOMAIN SubSeq(s, i + 1, Len(s)) = 1 .. Len(s) - i
      /\ \A k \in 1 .. Len(s) - i : SubSeq(s, i + 1, Len(s))[k] = s[i + k]
    BY <1>1
<1> QED BY <1>1, <1>2

LEMMA SoundTogether ==
    ASSUME NEW s, NEW t, Sound(s), Sound(t)
    PROVE  /\ Sound(s \o t)
           /\ \A x : Has(s \o t, x) <=> Has(s, x) \/ Has(t, x)
<1>1. s \in Seq(LayerNames) /\ t \in Seq(LayerNames)
    BY DEF Sound
<1> DEFINE st == s \o t
<1>2. /\ st \in Seq(LayerNames)
      /\ DOMAIN s = 1 .. Len(s) /\ DOMAIN t = 1 .. Len(t) /\ Len(s) \in Nat
      /\ DOMAIN st = 1 .. Len(s) + Len(t) /\ Len(t) \in Nat
      /\ \A i \in DOMAIN s : i \in DOMAIN st /\ st[i] = s[i]
      /\ \A i \in DOMAIN t : Len(s) + i \in DOMAIN st /\ st[Len(s) + i] = t[i]
      /\ \A i \in DOMAIN st : i \in DOMAIN s \/ (i - Len(s) \in DOMAIN t /\ st[i] = t[i - Len(s)])
    BY <1>1, Concatenation
<1> HIDE DEF st
<1>3. \A x : Has(st, x) <=> Has(s, x) \/ Has(t, x)
    BY <1>2 DEF Has
<1>4. ASSUME NEW i \in DOMAIN st
      PROVE  /\ st[i] = "request_metrics" =>
                  \E j \in DOMAIN st : i < j /\ st[j] = "MetricsPrefix"
             /\ st[i] = "trace" => \E j \in DOMAIN st : j < i /\ st[j] = "uri"
    <2>1. CASE i \in DOMAIN s
        BY <1>2, <2>1 DEF Sound
    <2>2. CASE i - Len(s) \in DOMAIN t /\ st[i] = t[i - Len(s)]
        <3>1. ASSUME st[i] = "request_metrics"
              PROVE  \E j \in DOMAIN st : i < j /\ st[j] = "MetricsPrefix"
            <4>1. PICK j \in DOMAIN t : i - Len(s) < j /\ t[j] = "MetricsPrefix"
                BY <2>2, <3>1 DEF Sound
            <4>2. Len(s) + j \in DOMAIN st /\ i < Len(s) + j /\ st[Len(s) + j] = "MetricsPrefix"
                BY <1>2, <4>1
            <4> QED BY <4>2
        <3>2. ASSUME st[i] = "trace"
              PROVE  \E j \in DOMAIN st : j < i /\ st[j] = "uri"
            <4>1. PICK j \in DOMAIN t : j < i - Len(s) /\ t[j] = "uri"
                BY <2>2, <3>2 DEF Sound
            <4>2. Len(s) + j \in DOMAIN st /\ Len(s) + j < i /\ st[Len(s) + j] = "uri"
                BY <1>2, <4>1
            <4> QED BY <4>2
        <3> QED BY <3>1, <3>2
    <2> QED BY <1>2, <2>1, <2>2
<1>5. Sound(st)
    BY <1>2, <1>4 DEF Sound
<1> QED BY <1>3, <1>5 DEF st

(* The routers' routes have at most a limiter around them, and none has    *)
(* the name of a layer or of one of build_router's own.                    *)
LEMMA MergedRoutes ==
    ASSUME NEW apps
    PROVE  /\ DOMAIN Merge(apps) = UNION {DOMAIN app : app \in apps}
           /\ \A q \in DOMAIN Merge(apps) : \E app \in apps :
                q \in DOMAIN app /\ Merge(apps)[q] = app[q]
BY DEF Merge

Bare(app) == \A q \in DOMAIN app : app[q] \in {<<>>, <<"limiter">>}

LEMMA BareTogether ==
    /\ Bare(NoRoutes) /\ \A names : Bare(Limited(names))
    /\ \A app, names : Bare(app) => Bare(With(app, names))
    /\ \A apps : (\A app \in apps : Bare(app)) => Bare(Merge(apps))
<1>1. Bare(NoRoutes)
    BY DEF Bare, NoRoutes
<1>2. \A app, names : Bare(app) => Bare(With(app, names))
    BY DEF Bare, With
<1>3. ASSUME NEW names
      PROVE  Bare(Limited(names))
    <2> DEFINE app == With(NoRoutes, names)
    <2>1. DOMAIN app = names /\ \A q \in names : app[q] = <<>>
        BY DEF With, NoRoutes
    <2>2. <<>> \o <<"limiter">> = <<"limiter">>
        OBVIOUS
    <2> HIDE DEF app
    <2>3. Bare(Lay(app, <<"limiter">>))
        BY <2>1, <2>2 DEF Bare, Lay
    <2> QED BY <2>3 DEF Limited, app
<1>4. ASSUME NEW apps, \A app \in apps : Bare(app)
      PROVE  Bare(Merge(apps))
    BY <1>4, MergedRoutes DEF Bare
<1> QED BY <1>1, <1>2, <1>3, <1>4

LEMMA ApiIsBare == Bare(Api)
<1>1. Bare(PasswordRoutes) /\ Bare(OidcRoutes)
    BY BareTogether DEF PasswordRoutes, OidcRoutes
<1>2. Bare(AuthRoutes)
    <2> DEFINE password == With(PasswordRoutes, {"logout", "test_token"})
               other == IF "avatar" \in features THEN With(OidcRoutes, {"auth_config"})
                                                 ELSE NoRoutes
    <2>1. Bare(password) /\ Bare(other)
        BY <1>1, BareTogether
    <2> HIDE DEF password, other
    <2>2. Bare(Merge({password, other}))
        BY <2>1, BareTogether
    <2> QED BY <2>2 DEF AuthRoutes, password, other
<1>3. Bare(UserRoutes)
    <2>1. Bare(AccountRoutes) /\ Bare(InfoRoutes) /\ Bare(ManagementRoutes)
        BY BareTogether DEF AccountRoutes, InfoRoutes, ManagementRoutes
    <2> QED BY <2>1, BareTogether DEF UserRoutes
<1>4. /\ Bare(MailRoutes) /\ Bare(GroupRoutes) /\ Bare(SettingsRoutes) /\ Bare(SetupRoutes)
      /\ Bare(WebsocketRoutes)
    BY BareTogether DEF MailRoutes, GroupRoutes, SettingsRoutes, SetupRoutes, WebsocketRoutes
<1> QED BY <1>2, <1>3, <1>4, BareTogether DEF Api

(* Nor have the routers a route of build_router's own, or one that is      *)
(* called like a layer.                                                    *)
Apart(app) == DOMAIN app \intersect (Own \union LayerNames) = {}

LEMMA ApartTogether ==
    /\ Apart(NoRoutes)
    /\ \A names : names \intersect (Own \union LayerNames) = {} => Apart(Limited(names))
    /\ \A app, names : Apart(app) /\ names \intersect (Own \union LayerNames) = {}
                         => Apart(With(app, names))
    /\ \A apps : (\A app \in apps : Apart(app)) => Apart(Merge(apps))
<1>1. DOMAIN NoRoutes = {}
    BY DEF NoRoutes
<1>2. ASSUME NEW app, NEW names, Apart(app), names \intersect (Own \union LayerNames) = {}
      PROVE  Apart(With(app, names))
    <2>1. DOMAIN With(app, names) = DOMAIN app \union names
        BY RoutesStay
    <2> QED BY <1>2, <2>1 DEF Apart
<1>3. ASSUME NEW names, names \intersect (Own \union LayerNames) = {}
      PROVE  Apart(Limited(names))
    <2>1. Apart(With(NoRoutes, names))
        BY <1>1, <1>2, <1>3 DEF Apart
    <2>2. DOMAIN Limited(names) = DOMAIN With(NoRoutes, names)
        BY RoutesStay DEF Limited
    <2> QED BY <2>1, <2>2 DEF Apart
<1>4. ASSUME NEW apps, \A app \in apps : Apart(app)
      PROVE  Apart(Merge(apps))
    <2>1. \A q \in DOMAIN Merge(apps) : \E app \in apps : q \in DOMAIN app
        BY MergedRoutes
    <2> QED BY <1>4, <2>1 DEF Apart
<1> QED BY <1>1, <1>2, <1>3, <1>4 DEF Apart

LEMMA ApiIsApart == Apart(Api)
<1> DEFINE Foreign == Own \union LayerNames
<1>1. Apart(AuthRoutes)
    <2> DEFINE password == With(PasswordRoutes, {"logout", "test_token"})
               other == IF "avatar" \in features THEN With(OidcRoutes, {"auth_config"})
                                                 ELSE NoRoutes
    <2>1. /\ {"authenticate"} \intersect Foreign = {} /\ {"key"} \intersect Foreign = {}
          /\ {"oidc_url"} \intersect Foreign = {} /\ {"oidc_callback"} \intersect Foreign = {}
          /\ {"logout", "test_token"} \intersect Foreign = {}
          /\ {"auth_config"} \intersect Foreign = {}
        BY DEF Own, LayerNames
    <2> HIDE DEF Foreign
    <2>2. Apart(PasswordRoutes) /\ Apart(OidcRoutes)
        BY <2>1, ApartTogether DEF PasswordRoutes, OidcRoutes, Foreign
    <2>3. Apart(password) /\ Apart(other)
        BY <2>1, <2>2, ApartTogether DEF Foreign
    <2> HIDE DEF password, other
    <2>4. Apart(Merge({password, other}))
        BY <2>3, ApartTogether
    <2> QED BY <2>4 DEF AuthRoutes, password, other
<1>2. Apart(UserRoutes)
    <2> DEFINE accounts == {"update_account", "confirm_email_change"}
                            \union IF "avatar" \in features THEN {"update_avatar"} ELSE {}
               info == {"info"} \union IF "avatar" \in features THEN {"avatar"} ELSE {}
               management ==
                 {"list_users", "create_user", "delete_user", "edit_user", "user_info",
                  "mail_active", "list_groups_simple", "reset_user_password",
                  "change_user_email", "convert_oidc_user"}
                   \union IF "avatar" \in features THEN {"reset_user_avatar"} ELSE {}
    <2>1. /\ {"update_password", "start_email_change"} \intersect Foreign = {}
          /\ accounts \intersect Foreign = {} /\ info \intersect Foreign = {}
          /\ management \intersect Foreign = {}
        BY DEF Own, LayerNames
    <2> HIDE DEF Foreign, accounts, info, management
    <2>2. Apart(With(Limited({"update_password", "start_email_change"}), accounts))
        BY <2>1, ApartTogether DEF Foreign
    <2>3. Apart(With(NoRoutes, info)) /\ Apart(With(NoRoutes, management))
        BY <2>1, ApartTogether DEF Foreign
    <2>4. Apart(AccountRoutes) /\ Apart(InfoRoutes) /\ Apart(ManagementRoutes)
        BY <2>2, <2>3
           DEF AccountRoutes, InfoRoutes, ManagementRoutes, accounts, info, management
    <2> QED BY <2>4, ApartTogether DEF UserRoutes
<1>3. /\ Apart(MailRoutes) /\ Apart(GroupRoutes) /\ Apart(SettingsRoutes) /\ Apart(SetupRoutes)
      /\ Apart(WebsocketRoutes)
    <2>1. /\ {"send_reset_link", "reset_password", "test_mail"} \intersect Foreign = {}
          /\ {"list_groups", "create_group", "delete_group", "edit_group", "group_info",
              "list_users_simple"} \intersect Foreign = {}
          /\ {"get_user_settings", "save_user_settings", "get_mail_settings",
              "save_mail_settings"} \intersect Foreign = {}
          /\ {"complete_setup", "is_setup", "get_oidc_settings", "init_oidc"}
               \intersect Foreign = {}
          /\ {"update"} \intersect Foreign = {}
        BY DEF Own, LayerNames
    <2> HIDE DEF Foreign
    <2> QED BY <2>1, ApartTogether
               DEF Foreign, MailRoutes, GroupRoutes, SettingsRoutes, SetupRoutes, WebsocketRoutes
<1> QED BY <1>1, <1>2, <1>3, ApartTogether DEF Api

(* What is laid next, around what was laid before. *)
LEMMA StackGrows ==
    ASSUME NEW q, NEW s, NEW around, NEW n \in 0 .. 8, Covered(q, s, n), Sound(around),
           \A x \in LaidBy(n + 1) : x \in LaidBy(n) \/ Has(around, x),
           n = 7 => Has(around, "OpenApi"),
           n = 8 /\ "connect_info" \in features =>
             Len(around) # 0 /\ around[Len(around)] = "ConnectInfo"
    PROVE  Covered(q, s \o around, n + 1)
<1>1. Sound(s \o around) /\ \A x : Has(s \o around, x) <=> Has(s, x) \/ Has(around, x)
    BY SoundTogether DEF Covered
<1>2. n + 1 >= 8 => Has(s \o around, "OpenApi")
    BY <1>1 DEF Covered
<1>3. ASSUME n + 1 = 9, "connect_info" \in features
      PROVE  Len(s \o around) # 0 /\ (s \o around)[Len(s \o around)] = "ConnectInfo"
    <2>1. s \in Seq(LayerNames) /\ around \in Seq(LayerNames)
        BY DEF Covered, Sound
    <2>2. Len(around) \in DOMAIN around /\ around[Len(around)] = "ConnectInfo"
        BY <1>3, <2>1, Concatenation
    <2> QED BY <2>1, <2>2, Concatenation
<1> QED BY <1>1, <1>2, <1>3 DEF Covered

LEMMA NothingAround == Sound(<<>>) /\ \A x : ~Has(<<>>, x)
BY DEF Sound, Has

(* New routes have nothing around them. *)
LEMMA WithCovers ==
    ASSUME NEW app, NEW names, NEW n,
           \A q \in DOMAIN app : Covered(q, app[q], n), \A q \in names : Covered(q, <<>>, n)
    PROVE  \A q \in DOMAIN With(app, names) : Covered(q, With(app, names)[q], n)
<1>1. \A q \in DOMAIN With(app, names) :
        \/ q \in DOMAIN app /\ With(app, names)[q] = app[q]
        \/ q \in names /\ With(app, names)[q] = <<>>
    BY DEF With
<1> QED BY <1>1

LEMMA LayCovers ==
    ASSUME NEW app, NEW around, NEW n \in 0 .. 8,
           \A q \in DOMAIN app : Covered(q, app[q], n), Sound(around),
           \A x \in LaidBy(n + 1) : x \in LaidBy(n) \/ Has(around, x),
           n = 7 => Has(around, "OpenApi"),
           n = 8 /\ "connect_info" \in features =>
             Len(around) # 0 /\ around[Len(around)] = "ConnectInfo"
    PROVE  \A q \in DOMAIN Lay(app, around) : Covered(q, Lay(app, around)[q], n + 1)
<1>1. \A q \in DOMAIN Lay(app, around) : q \in DOMAIN app /\ Lay(app, around)[q] = app[q] \o around
    BY DEF Lay
<1> QED BY <1>1, StackGrows

(* No part but the first and the fifth touches the server of the metrics.  *)
LEMMA CoveredNext ==
    ASSUME LayersInv, features' = features, NEW n \in 1 .. 9, built = n - 1, built' = n,
           \A q \in DOMAIN routes' : Covered(q, routes'[q], n),
           \/ UNCHANGED side /\ (n < 5 \/ built >= 5)
           \/ \A q \in DOMAIN side' : side'[q] = IF n >= 5 THEN <<"MetricsHandle">> ELSE <<>>
    PROVE  StacksOK'
<1>1. \A q, around : Covered(q, around, n) => Covered(q, around, n)'
    BY DEF Covered, LaidBy
<1>2. \A q \in DOMAIN side' : side'[q] = IF n >= 5 THEN <<"MetricsHandle">> ELSE <<>>
    BY DEF LayersInv, StacksOK
<1> QED BY <1>1, <1>2 DEF StacksOK

LEMMA ApiRoutesStep ==
    ASSUME LayersInv, ApiRoutes
    PROVE  RoutesOK' /\ StacksOK'
<1>1. features' = features /\ built = 0 /\ built' = 1
    BY DEF ApiRoutes, Part, LayersInv, LayersTypeOK
<1>2. PICK names \in SUBSET {"health_check", "metrics"} :
        /\ routes' = With(Api, names)
        /\ "metrics" \in names => "metrics" \in features /\ "metrics_port" \notin features
    BY DEF ApiRoutes
<1>3. PICK others \in SUBSET {"metrics"} :
        side' = With(NoRoutes, others) /\ (others # {} => "metrics_port" \in features)
    BY <1>1 DEF ApiRoutes, LayersInv, LayersTypeOK
<1>4. LaidBy(1) = {}
    BY DEF LaidBy
<1>5. \A q \in DOMAIN routes' : Covered(q, routes'[q], 1)
    <2>1. Sound(<<>>) /\ Sound(<<"limiter">>)
        BY NothingAround DEF Sound, LayerNames
    <2>2. \A q \in DOMAIN Api : Covered(q, Api[q], 1)
        BY <1>4, <2>1, ApiIsBare DEF Bare, Covered
    <2>3. \A q \in names : Covered(q, <<>>, 1)
        BY <1>4, <2>1 DEF Covered
    <2> QED BY <1>2, <2>2, <2>3, WithCovers
<1>6. DOMAIN side' = others /\ \A q \in DOMAIN side' : side'[q] = <<>>
    BY <1>3 DEF With, NoRoutes
<1>7. StacksOK'
    BY <1>1, <1>5, <1>6, CoveredNext, NothingAround
<1>8. RoutesOK'
    <2>1. DOMAIN routes' = DOMAIN Api \union names
        BY <1>2, RoutesStay
    <2>2. DOMAIN Api \intersect {"metrics", "frontend", "swagger", "api_spec"} = {}
        BY ApiIsApart DEF Apart, Own
    <2> QED BY <1>1, <1>2, <1>3, <1>6, <2>1, <2>2 DEF RoutesOK
<1> QED BY <1>7, <1>8

(* The routes stay what they are when something is laid around them. *)
LEMMA RoutesKept ==
    ASSUME RoutesOK, features' = features, DOMAIN routes' = DOMAIN routes,
           DOMAIN side' = DOMAIN side, built' \in 0 .. 9, built \in 0 .. 9, built <= built'
    PROVE  RoutesOK'
BY DEF RoutesOK

LEMMA CorsStep ==
    ASSUME LayersInv, Cors
    PROVE  RoutesOK' /\ StacksOK'
<1>1. /\ built = 1 /\ built' = 2 /\ features' = features /\ UNCHANGED side
      /\ routes' = Lay(routes, <<"cors">>)
    BY DEF Cors, Part, LayersInv, LayersTypeOK
<1>2. Sound(<<"cors">>) /\ LaidBy(2) = {}
    BY DEF Sound, LayerNames, LaidBy
<1>3. \A q \in DOMAIN routes' : Covered(q, routes'[q], 2)
    BY <1>1, <1>2, LayCovers DEF LayersInv, StacksOK
<1>4. StacksOK'
    BY <1>1, <1>3, CoveredNext
<1> QED BY <1>1, <1>4, RoutesStay, RoutesKept DEF LayersInv

LEMMA LoggingStep ==
    ASSUME LayersInv, Logging
    PROVE  RoutesOK' /\ StacksOK'
<1>1. /\ built = 2 /\ built' = 3 /\ features' = features /\ UNCHANGED side
      /\ routes' = Lay(routes, If("logging", LoggingLayers))
    BY DEF Logging, Part, LayersInv, LayersTypeOK
<1>2. Sound(LoggingLayers)
    BY DEF Sound, LayerNames, LoggingLayers
<1>3. Sound(If("logging", LoggingLayers)) /\ LaidBy(3) = {}
    BY <1>2, NothingAround DEF If, LaidBy
<1>4. \A q \in DOMAIN routes' : Covered(q, routes'[q], 3)
    BY <1>1, <1>3, LayCovers DEF LayersInv, StacksOK
<1>5. StacksOK'
    BY <1>1, <1>4, CoveredNext
<1> QED BY <1>1, <1>5, RoutesStay, RoutesKept DEF LayersInv

LEMMA FrontendStep ==
    ASSUME LayersInv, Frontend
    PROVE  RoutesOK' /\ StacksOK'
<1>1. built = 3 /\ built' = 4 /\ features' = features /\ UNCHANGED side
    BY DEF Frontend, Part, LayersInv, LayersTypeOK
<1>2. CASE "frontend" \in features
    <2> DEFINE app == With(routes, {"frontend"})
               around == <<"ProxyState", "FrontendState">>
    <2>1. routes' = Lay(app, around)
        BY <1>2 DEF Frontend
    <2>2. Sound(around) /\ Has(around, "ProxyState")
        BY DEF Sound, LayerNames, Has
    <2>3. LaidBy(3) = {} /\ LaidBy(4) \subseteq {"ProxyState"}
        BY DEF LaidBy
    <2>4. DOMAIN app = DOMAIN routes \union {"frontend"}
        BY RoutesStay
    <2> HIDE DEF around
    <2>5. Covered("frontend", <<>>, 3)
        BY <2>3, NothingAround DEF Covered
    <2>6. \A q \in DOMAIN app : Covered(q, app[q], 3)
        BY <1>1, <2>5, WithCovers DEF LayersInv, StacksOK
    <2> HIDE DEF app
    <2>7. \A q \in DOMAIN routes' : Covered(q, routes'[q], 4)
        BY <2>1, <2>2, <2>3, <2>6, LayCovers
    <2>8. StacksOK'
        BY <1>1, <2>7, CoveredNext
    <2>9. RoutesOK'
        BY <1>1, <1>2, <2>1, <2>4, RoutesStay DEF LayersInv, RoutesOK
    <2> QED BY <2>8, <2>9
<1>3. CASE "frontend" \notin features
    <2>1. UNCHANGED routes
        BY <1>3 DEF Frontend
    <2>2. LaidBy(4) = {}
        BY <1>3 DEF LaidBy
    <2>3. \A q \in DOMAIN routes' : Covered(q, routes'[q], 4)
        BY <1>1, <2>1, <2>2 DEF LayersInv, StacksOK, Covered
    <2>4. StacksOK'
        BY <1>1, <2>3, CoveredNext
    <2> QED BY <1>1, <2>1, <2>4, RoutesKept DEF LayersInv
<1> QED BY <1>2, <1>3

LEMMA MetricsStep ==
    ASSUME LayersInv, Metrics
    PROVE  RoutesOK' /\ StacksOK'
<1>1. built = 4 /\ built' = 5 /\ features' = features
    BY DEF Metrics, Part, LayersInv, LayersTypeOK
<1> DEFINE around == IF "metrics_port" \in features
                       THEN If("metrics", MetricsMiddleware)
                       ELSE If("metrics", MetricsMiddleware \o <<"MetricsHandle">>)
<1>2. routes' = Lay(routes, around)
    BY DEF Metrics
<1>3. /\ Sound(MetricsMiddleware) /\ Sound(<<"MetricsHandle">>)
      /\ Has(<<"MetricsHandle">>, "MetricsHandle")
    BY DEF Sound, Has, LayerNames, MetricsMiddleware
<1>4. /\ Sound(MetricsMiddleware \o <<"MetricsHandle">>)
      /\ Has(MetricsMiddleware \o <<"MetricsHandle">>, "MetricsHandle")
    BY <1>3, SoundTogether
<1>5. /\ Sound(around)
      /\ "metrics" \in features /\ "metrics_port" \notin features => Has(around, "MetricsHandle")
    BY <1>3, <1>4, NothingAround DEF If
<1> HIDE DEF around
<1>6. \A x \in LaidBy(5) : x \in LaidBy(4) \/ Has(around, x)
    BY <1>5 DEF LaidBy
<1>7. \A q \in DOMAIN routes' : Covered(q, routes'[q], 5)
    BY <1>1, <1>2, <1>5, <1>6, LayCovers DEF LayersInv, StacksOK
<1>8. \A q \in DOMAIN side' : side'[q] = <<"MetricsHandle">>
    <2>1. CASE DOMAIN side = {}
        BY <2>1, RoutesStay DEF Metrics
    <2>2. CASE DOMAIN side # {}
        <3>1. side' = Lay(side, <<"MetricsHandle">>)
            BY <2>2 DEF Metrics, LayersInv, RoutesOK
        <3>2. \A q \in DOMAIN side' : q \in DOMAIN side /\ side'[q] = side[q] \o <<"MetricsHandle">>
            BY <3>1 DEF Lay
        <3>3. \A q \in DOMAIN side : side[q] = <<>>
            BY <1>1 DEF LayersInv, StacksOK
        <3>4. <<>> \o <<"MetricsHandle">> = <<"MetricsHandle">>
            OBVIOUS
        <3> QED BY <3>2, <3>3, <3>4
    <2> QED BY <2>1, <2>2
<1>9. StacksOK'
    BY <1>1, <1>7, <1>8, CoveredNext
<1>10. DOMAIN side' = DOMAIN side /\ DOMAIN routes' = DOMAIN routes
    BY <1>2, RoutesStay DEF Metrics
<1> QED BY <1>1, <1>9, <1>10, RoutesKept DEF LayersInv

LEMMA SettingsLayersStep ==
    ASSUME LayersInv, SettingsLayers
    PROVE  RoutesOK' /\ StacksOK'
<1> DEFINE users == If("oidc", <<"UserSettings">>)
           mails == If("mail", <<"MailSettings">>)
           around == <<"SiteConfig">> \o users \o mails
<1>1. /\ built = 5 /\ built' = 6 /\ features' = features /\ UNCHANGED side
      /\ routes' = Lay(routes, around)
    BY DEF SettingsLayers, Part, LayersInv, LayersTypeOK
<1>2. /\ Sound(<<"SiteConfig">>) /\ Has(<<"SiteConfig">>, "SiteConfig")
      /\ Sound(<<"UserSettings">>) /\ Has(<<"UserSettings">>, "UserSettings")
      /\ Sound(<<"MailSettings">>)
    BY DEF Sound, Has, LayerNames
<1>3. /\ Sound(users) /\ Sound(mails) /\ ("oidc" \in features => Has(users, "UserSettings"))
    BY <1>2, NothingAround DEF If
<1> HIDE DEF users, mails
<1>4. /\ Sound(<<"SiteConfig">> \o users) /\ Has(<<"SiteConfig">> \o users, "SiteConfig")
      /\ "oidc" \in features => Has(<<"SiteConfig">> \o users, "UserSettings")
    BY <1>2, <1>3, SoundTogether
<1>5. /\ Sound(around) /\ Has(around, "SiteConfig")
      /\ "oidc" \in features => Has(around, "UserSettings")
    BY <1>3, <1>4, SoundTogether
<1> HIDE DEF around
<1>6. \A x \in LaidBy(6) : x \in LaidBy(5) \/ Has(around, x)
    BY <1>5 DEF LaidBy
<1>7. \A q \in DOMAIN routes' : Covered(q, routes'[q], 6)
    BY <1>1, <1>5, <1>6, LayCovers DEF LayersInv, StacksOK
<1>8. StacksOK'
    BY <1>1, <1>7, CoveredNext
<1> QED BY <1>1, <1>8, RoutesStay, RoutesKept DEF LayersInv

LEMMA StatesStep ==
    ASSUME LayersInv, States
    PROVE  RoutesOK' /\ StacksOK'
<1> DEFINE first == <<"PasswordState", "JwtState", "JwtInvalidState">>
           oidc == If("avatar", <<"OidcState">>)
           others == <<"Mailer", "ResetPasswordState", "EmailChangeState", "UpdateState",
                       "Updater", "Connection", "Config">>
           around == first \o oidc \o others
<1>1. /\ built = 6 /\ built' = 7 /\ features' = features /\ UNCHANGED side
      /\ routes' = Lay(routes, around)
    BY DEF States, Part, LayersInv, LayersTypeOK
<1>2. /\ Sound(first) /\ Has(first, "PasswordState") /\ Has(first, "JwtState")
      /\ Has(first, "JwtInvalidState")
    BY DEF Sound, Has, LayerNames
<1>3. Sound(<<"OidcState">>) /\ Has(<<"OidcState">>, "OidcState")
    BY DEF Sound, Has, LayerNames
<1>4. Sound(oidc) /\ ("avatar" \in features => Has(oidc, "OidcState"))
    BY <1>3, NothingAround DEF If
<1>5. Sound(others)
    BY DEF Sound, LayerNames
<1>6. /\ Has(others, "Mailer") /\ Has(others, "ResetPasswordState")
      /\ Has(others, "EmailChangeState") /\ Has(others, "UpdateState") /\ Has(others, "Updater")
      /\ Has(others, "Connection")
    BY DEF Has
<1> HIDE DEF first, oidc, others
<1>7. /\ Sound(first \o oidc)
      /\ \A x : Has(first \o oidc, x) <=> Has(first, x) \/ Has(oidc, x)
    BY <1>2, <1>4, SoundTogether
<1>8. /\ Sound(around)
      /\ \A x : Has(around, x) <=> Has(first, x) \/ Has(oidc, x) \/ Has(others, x)
    BY <1>5, <1>7, SoundTogether
<1> HIDE DEF around
<1>9. \A x \in LaidBy(7) : x \in LaidBy(6) \/ Has(around, x)
    BY <1>2, <1>4, <1>6, <1>8 DEF LaidBy
<1>10. \A q \in DOMAIN routes' : Covered(q, routes'[q], 7)
    BY <1>1, <1>8, <1>9, LayCovers DEF LayersInv, StacksOK
<1>11. StacksOK'
    BY <1>1, <1>10, CoveredNext
<1> QED BY <1>1, <1>11, RoutesStay, RoutesKept DEF LayersInv

LEMMA DocsStep ==
    ASSUME LayersInv, Docs
    PROVE  RoutesOK' /\ StacksOK'
<1> DEFINE app == With(routes, {"swagger", "api_spec"})
<1>1. /\ built = 7 /\ built' = 8 /\ features' = features /\ UNCHANGED side
      /\ routes' = Lay(app, <<"OpenApi">>)
    BY DEF Docs, Part, LayersInv, LayersTypeOK
<1>2. Sound(<<"OpenApi">>) /\ Has(<<"OpenApi">>, "OpenApi")
    BY DEF Sound, Has, LayerNames
<1>3. LaidBy(8) = LaidBy(7)
    BY DEF LaidBy
<1>4. DOMAIN app = DOMAIN routes \union {"swagger", "api_spec"}
    BY RoutesStay
<1>5. \A q \in {"swagger", "api_spec"} : Covered(q, <<>>, 7)
    BY NothingAround DEF Covered
<1>6. \A q \in DOMAIN app : Covered(q, app[q], 7)
    BY <1>1, <1>5, WithCovers DEF LayersInv, StacksOK
<1> HIDE DEF app
<1>7. \A q \in DOMAIN routes' : Covered(q, routes'[q], 8)
    BY <1>1, <1>2, <1>3, <1>6, LayCovers
<1>8. StacksOK'
    BY <1>1, <1>7, CoveredNext
<1>9. RoutesOK'
    BY <1>1, <1>4, RoutesStay DEF LayersInv, RoutesOK
<1> QED BY <1>8, <1>9

LEMMA ServeStep ==
    ASSUME LayersInv, Serve
    PROVE  RoutesOK' /\ StacksOK'
<1> DEFINE around == If("connect_info", <<"ConnectInfo">>)
<1>1. /\ built = 8 /\ built' = 9 /\ features' = features /\ UNCHANGED side
      /\ routes' = Lay(routes, around)
    BY DEF Serve, Part, LayersInv, LayersTypeOK
<1>2. /\ Sound(<<"ConnectInfo">>)
      /\ Len(<<"ConnectInfo">>) # 0
      /\ <<"ConnectInfo">>[Len(<<"ConnectInfo">>)] = "ConnectInfo"
    BY DEF Sound, LayerNames
<1>3. /\ Sound(around)
      /\ "connect_info" \in features => Len(around) # 0 /\ around[Len(around)] = "ConnectInfo"
    BY <1>2, NothingAround DEF If
<1>4. LaidBy(9) = LaidBy(8)
    BY DEF LaidBy
<1> HIDE DEF around
<1>5. \A q \in DOMAIN routes' : Covered(q, routes'[q], 9)
    BY <1>1, <1>3, <1>4, LayCovers DEF LayersInv, StacksOK
<1>6. StacksOK'
    BY <1>1, <1>5, CoveredNext
<1> QED BY <1>1, <1>6, RoutesStay, RoutesKept DEF LayersInv

LEMMA LayersInvStep == LayersInv /\ [LayersNext]_layersVars => LayersInv'
<1> SUFFICES ASSUME LayersInv, [LayersNext]_layersVars PROVE LayersInv'
    OBVIOUS
<1>1. LayersTypeOK'
    BY LayersStep DEF LayersInv
<1>2. CASE LayersNext
    BY <1>1, <1>2, ApiRoutesStep, CorsStep, LoggingStep, FrontendStep, MetricsStep,
       SettingsLayersStep, StatesStep, DocsStep, ServeStep DEF LayersNext, LayersInv
<1>3. CASE UNCHANGED layersVars
    <2>1. RoutesOK'
        BY <1>3 DEF layersVars, LayersInv, RoutesOK
    <2>2. StacksOK'
        BY <1>3 DEF layersVars, LayersInv, StacksOK, Covered, LaidBy
    <2> QED BY <1>1, <2>1, <2>2 DEF LayersInv
<1> QED BY <1>2, <1>3

LEMMA LayersInvInit == LayersInit => LayersInv
<1> SUFFICES ASSUME LayersInit PROVE LayersInv
    OBVIOUS
<1>1. DOMAIN routes = {} /\ DOMAIN side = {} /\ built = 0
    BY DEF LayersInit, NoRoutes
<1>2. LayersTypeOK
    BY LayersTypeInit
<1>3. RoutesOK /\ StacksOK
    BY <1>1 DEF RoutesOK, StacksOK
<1> QED BY <1>2, <1>3 DEF LayersInv

(* Who extracts what is laid by a part that comes after its routes.        *)
RouterStates == {"PasswordState", "JwtState", "JwtInvalidState", "Mailer", "ResetPasswordState",
            "EmailChangeState", "UpdateState", "Updater", "Connection", "SiteConfig"}

LEMMA WhoExtracts ==
    ASSUME NEW x \in DOMAIN Extractors, NEW part \in Extractors[x]
    PROVE  \/ part = "limiter" /\ x = "ConnectInfo"
           \/ part = "request_metrics" /\ x = "MetricsPrefix"
           \/ part = "metrics" /\ x = "MetricsHandle"
           \/ part = "frontend" /\ x = "ProxyState"
           \/ part = "api_spec" /\ x = "OpenApi"
           \/ /\ x \in RouterStates \union {"OidcState", "UserSettings"}
              /\ part \notin Own \union LayerNames
<1>1. DOMAIN Extractors = RouterStates \union {"OidcState", "UserSettings", "ConnectInfo",
        "MetricsHandle", "MetricsPrefix", "ProxyState", "OpenApi"}
    BY DEF Extractors, RouterStates
<1>2. /\ Extractors["ConnectInfo"] = {"limiter"} /\ Extractors["MetricsHandle"] = {"metrics"}
      /\ Extractors["MetricsPrefix"] = {"request_metrics"}
      /\ Extractors["ProxyState"] = {"frontend"} /\ Extractors["OpenApi"] = {"api_spec"}
    BY DEF Extractors
<1>3. /\ Extractors["JwtState"] \subseteq DOMAIN Api
      /\ Extractors["Connection"] \subseteq DOMAIN Api
    BY DEF Extractors
<1>4. DOMAIN Api \intersect (Own \union LayerNames) = {}
    BY ApiIsApart DEF Apart
<1>5. ASSUME x \in {"PasswordState", "JwtInvalidState", "OidcState", "UserSettings", "Mailer"}
      PROVE  part \notin Own \union LayerNames
    BY <1>5 DEF Extractors, Own, LayerNames
<1>6. ASSUME x \in {"ResetPasswordState", "EmailChangeState", "SiteConfig", "UpdateState"}
      PROVE  part \notin Own \union LayerNames
    BY <1>6 DEF Extractors, Own, LayerNames
<1>7. ASSUME x = "Updater"
      PROVE  part \notin Own \union LayerNames
    BY <1>7 DEF Extractors, Own, LayerNames
<1> QED BY <1>1, <1>2, <1>3, <1>4, <1>5, <1>6, <1>7 DEF RouterStates

(* At the end a route of a stack that is covered misses no more than the   *)
(* exceptions, whether it is a handler or a middleware that asks.          *)
LEMMA HandlerFinds ==
    ASSUME LayersInv, built = 9, NEW q \in DOMAIN routes, NEW x \in DOMAIN Extractors,
           q \in Extractors[x], ~Has(routes[q], x)
    PROVE  \/ x = "OidcState" /\ "avatar" \notin features
           \/ x = "UserSettings" /\ "oidc" \notin features
<1>1. Covered(q, routes[q], 9)
    BY DEF LayersInv, StacksOK
<1>2. q \in DOMAIN Api \union Own
    BY DEF LayersInv, LayersTypeOK, Own
<1>3. q \notin {"limiter", "request_metrics"}
    BY <1>2, ApiIsApart DEF Apart, Own, LayerNames
<1>4. x # "OpenApi"
    BY <1>1 DEF Covered
<1>5. CASE q = "metrics" /\ x = "MetricsHandle"
    BY <1>1, <1>5 DEF LayersInv, RoutesOK, Covered, LaidBy
<1>6. CASE q = "frontend" /\ x = "ProxyState"
    BY <1>1, <1>6 DEF LayersInv, RoutesOK, Covered, LaidBy
<1>7. CASE x \in RouterStates \union {"OidcState", "UserSettings"} /\ q \notin Own \union LayerNames
    <2>1. \A y \in LaidBy(9) : Has(routes[q], y)
        BY <1>1, <1>7 DEF Covered, Own
    <2> QED BY <1>7, <2>1 DEF LaidBy, RouterStates
<1> QED BY <1>3, <1>4, <1>5, <1>6, <1>7, WhoExtracts

LEMMA MiddlewareFinds ==
    ASSUME NEW q, NEW s, Covered(q, s, 9), NEW i \in DOMAIN s, NEW x \in DOMAIN Extractors,
           s[i] \in Extractors[x],
           \A j \in DOMAIN SubSeq(s, i + 1, Len(s)) : SubSeq(s, i + 1, Len(s))[j] # x
    PROVE  x = "ConnectInfo" /\ "connect_info" \notin features
<1>1. s \in Seq(LayerNames)
    BY DEF Covered, Sound
<1>2. DOMAIN s = 1 .. Len(s) /\ Len(s) \in Nat /\ i \in 1 .. Len(s) /\ s[i] \in LayerNames
    BY <1>1, LenProperties, ElementOfSeq
<1>3. \A j \in DOMAIN s : i < j => s[j] # x
    BY <1>1, <1>2, LayersAfter
<1>4. s[i] \notin Own
    BY <1>2 DEF Own, LayerNames
<1>5. \/ s[i] = "limiter" /\ x = "ConnectInfo"
      \/ s[i] = "request_metrics" /\ x = "MetricsPrefix"
    BY <1>2, <1>4, WhoExtracts DEF Own
<1>6. ~(s[i] = "request_metrics" /\ x = "MetricsPrefix")
    BY <1>3 DEF Covered, Sound
<1>7. "connect_info" \in features => i = Len(s)
    BY <1>2, <1>3, <1>5, <1>6 DEF Covered
<1> QED BY <1>2, <1>5, <1>6, <1>7 DEF Covered

LEMMA WhatIsMissing ==
    ASSUME NEW app, NEW x \in Missing(app)
    PROVE  \/ \E q \in DOMAIN app :
                x \in DOMAIN Extractors /\ q \in Extractors[x] /\ ~Has(app[q], x)
           \/ \E q \in DOMAIN app : \E i \in DOMAIN app[q] :
                /\ x \in DOMAIN Extractors /\ app[q][i] \in Extractors[x]
                /\ \A j \in DOMAIN SubSeq(app[q], i + 1, Len(app[q])) :
                     SubSeq(app[q], i + 1, Len(app[q]))[j] # x
           \/ \E q \in DOMAIN app : \E i \in DOMAIN app[q] :
                app[q][i] = "trace" /\ \A j \in 1 .. i - 1 : app[q][j] # "uri"
<1> DEFINE handlers == {Lacking(Extractors, q, app[q]) : q \in DOMAIN app}
           middlewares(q) ==
             {Lacking(Extractors, app[q][i], SubSeq(app[q], i + 1, Len(app[q]))) :
                i \in DOMAIN app[q]}
<1>1. x \in Unlogged(app) \union UNION (handlers \union UNION {middlewares(q) : q \in DOMAIN app})
    BY DEF Missing
<1>2. CASE \E q \in DOMAIN app : x \in Lacking(Extractors, q, app[q])
    BY <1>2 DEF Has, Lacking
<1>3. CASE \E q \in DOMAIN app : \E i \in DOMAIN app[q] :
             x \in Lacking(Extractors, app[q][i], SubSeq(app[q], i + 1, Len(app[q])))
    BY <1>3 DEF Lacking
<1>4. CASE x \in Unlogged(app)
    BY <1>4 DEF Unlogged
<1> QED BY <1>1, <1>2, <1>3, <1>4

(* The metrics' own server misses nothing either. *)
LEMMA SideFinds == LayersInv /\ built = 9 => Missing(side) = {}
<1> SUFFICES ASSUME LayersInv, built = 9, NEW x \in Missing(side) PROVE FALSE
    OBVIOUS
<1>1. \A q \in DOMAIN side : q = "metrics" /\ side[q] = <<"MetricsHandle">>
    BY DEF LayersInv, StacksOK, LayersTypeOK
<1>2. \A q \in DOMAIN side : Has(side[q], "MetricsHandle")
    BY <1>1 DEF Has
<1>3. \A q \in DOMAIN side : \A i \in DOMAIN side[q] : side[q][i] = "MetricsHandle"
    BY <1>1
<1>4. \A y \in DOMAIN Extractors : "MetricsHandle" \notin Extractors[y]
    BY WhoExtracts DEF Own, LayerNames
<1>5. \A y \in DOMAIN Extractors : "metrics" \in Extractors[y] => y = "MetricsHandle"
    BY WhoExtracts DEF Own
<1> QED BY <1>1, <1>2, <1>3, <1>4, <1>5, WhatIsMissing

(* Whatever the features and the settings, every handler and middleware    *)
(* finds around it what it extracts, but for the exceptions that           *)
(* ExtensionsFound names.                                                  *)
THEOREM ExtensionsAreThere == LayersSpec => []ExtensionsFound
<1>1. ASSUME LayersInv, built = 9, NEW x \in Missing(routes)
      PROVE  \/ x = "OidcState" /\ "avatar" \notin features
             \/ x = "UserSettings" /\ "oidc" \notin features
             \/ x = "ConnectInfo" /\ "connect_info" \notin features
    <2>1. \A q \in DOMAIN routes : Covered(q, routes[q], 9)
        BY <1>1 DEF LayersInv, StacksOK
    <2>2. ~ \E q \in DOMAIN routes : \E i \in DOMAIN routes[q] :
              /\ routes[q][i] = "trace"
              /\ \A j \in 1 .. i - 1 : routes[q][j] # "uri"
        <3> SUFFICES ASSUME NEW q \in DOMAIN routes, NEW i \in DOMAIN routes[q],
                            routes[q][i] = "trace"
                     PROVE  \E j \in 1 .. i - 1 : routes[q][j] = "uri"
            OBVIOUS
        <3>1. routes[q] \in Seq(LayerNames)
            BY <2>1 DEF Covered, Sound
        <3>2. PICK j \in DOMAIN routes[q] : j < i /\ routes[q][j] = "uri"
            BY <2>1 DEF Covered, Sound
        <3>3. j \in 1 .. i - 1
            BY <3>1, <3>2, LenProperties
        <3> QED BY <3>2, <3>3
    <2>3. CASE \E q \in DOMAIN routes :
                 x \in DOMAIN Extractors /\ q \in Extractors[x] /\ ~Has(routes[q], x)
        BY <1>1, <2>3, HandlerFinds
    <2>4. CASE \E q \in DOMAIN routes : \E i \in DOMAIN routes[q] :
                 /\ x \in DOMAIN Extractors /\ routes[q][i] \in Extractors[x]
                 /\ \A j \in DOMAIN SubSeq(routes[q], i + 1, Len(routes[q])) :
                      SubSeq(routes[q], i + 1, Len(routes[q]))[j] # x
        BY <2>1, <2>4, MiddlewareFinds
    <2> QED BY <1>1, <2>2, <2>3, <2>4, WhatIsMissing
<1>2. LayersInv => ExtensionsFound
    BY <1>1, SideFinds DEF ExtensionsFound
<1> QED BY <1>2, LayersInvInit, LayersInvStep, PTL DEF LayersSpec

-----------------------------------------------------------------------------
(* The server: what is shown of a component on its own holds with the       *)
(* others around it, since none of them touches its variables.             *)

(* A step of the server is for each component one of its own, or none. *)
LEMMA OneMoves ==
    ASSUME [ServerNext]_vars
    PROVE  /\ [AccountsNext]_accountVars /\ [AvatarsNext]_avatarVars /\ [BootNext]_bootVars
           /\ [EmailNext]_emailVars /\ [ExpiryNext]_expiryVars /\ [LayersNext]_layersVars
           /\ [SettingsNext]_settingsVars /\ [LoginNext]_loginVars
           /\ [RequestsNext]_requestVars /\ [StorageNext]_storageVars
BY Zenon DEF ServerNext, vars

(* Each component behaves in the server as it does alone: the theorems     *)
(* about it are theorems about the server.                                 *)
THEOREM ComponentsGoOn ==
    ServerSpec => /\ AccountsSpec /\ AvatarsSpec /\ BootSpec /\ EmailSpec /\ ExpirySpec
                  /\ LayersSpec /\ SettingsSpec /\ LoginSpec /\ RequestsSpec /\ StorageSpec
<1>1. ServerInit => /\ AccountsInit /\ AvatarsInit /\ BootInit /\ EmailInit /\ ExpiryInit
                    /\ LayersInit /\ SettingsInit /\ LoginInit /\ RequestsInit /\ StorageInit
    BY DEF ServerInit
<1>2. [ServerNext]_vars =>
        /\ [AccountsNext]_accountVars /\ [AvatarsNext]_avatarVars /\ [BootNext]_bootVars
        /\ [EmailNext]_emailVars /\ [ExpiryNext]_expiryVars /\ [LayersNext]_layersVars
        /\ [SettingsNext]_settingsVars /\ [LoginNext]_loginVars
        /\ [RequestsNext]_requestVars /\ [StorageNext]_storageVars
    BY OneMoves
<1> QED
    BY <1>1, <1>2, PTL DEF ServerSpec, AccountsSpec, AvatarsSpec, BootSpec, EmailSpec,
       ExpirySpec, LayersSpec, SettingsSpec, LoginSpec, RequestsSpec, StorageSpec

(* What callers of the storage are told of files, and what sessions show   *)
(* of avatars, is true.                                                    *)
THEOREM BlobsStayTrue == ServerSpec => []BlobsTrue
<1>1. AnswersTrue /\ AvatarsShown => BlobsTrue
    BY DEF BlobsTrue
<1> QED
    BY <1>1, ComponentsGoOn, StorageAnswersTruly, SessionsShowTheAvatar, PTL

(* Every component's variables have their types, in the server as alone.   *)
THEOREM ServerIsTyped == ServerSpec => []TypesOK
<1>1. AccountsSpec => []AccountsTypeOK
    <2>1. AccountsInv => AccountsTypeOK
        BY DEF AccountsInv
    <2> QED BY <2>1, AccountsInitInv, AccountsStep, PTL DEF AccountsSpec
<1>2. AvatarsSpec => []AvatarsTypeOK
    <2>1. AvatarsInv => AvatarsTypeOK
        BY DEF AvatarsInv, AvatarsTypeOK, Items
    <2> QED BY <2>1, AvatarsInitInv, AvatarsStep, PTL DEF AvatarsSpec
<1>3. EmailSpec => []EmailTypeOK
    <2>1. EmailInv => EmailTypeOK
        BY DEF EmailInv
    <2> QED BY <2>1, EmailInvariant, PTL
<1>4. ExpirySpec => []ExpiryTypeOK
    <2>1. ExpiryInv => ExpiryTypeOK
        BY DEF ExpiryInv
    <2> QED BY <2>1, ExpiryInitInv, ExpiryStep, PTL DEF ExpirySpec
<1>5. LoginSpec => []LoginTypeOK
    <2>1. LoginInv => LoginTypeOK
        BY DEF LoginInv
    <2> QED BY <2>1, LoginInvariant, PTL
<1>6. RequestsSpec => []RequestsTypeOK
    <2>1. RequestsInv => RequestsTypeOK
        BY DEF RequestsInv, Typed, RequestRecords, Steps, Statuses, RequestsTypeOK
    <2> QED BY <2>1, RequestsInvariant, PTL
<1>7. StorageSpec => []StorageTypeOK
    <2>1. StorageInv => StorageTypeOK
        BY DEF StorageInv, StorageCalls, StorageTypeOK
    <2> QED BY <2>1, StorageInitInv, StorageStep, PTL DEF StorageSpec
<1>8. /\ AccountsTypeOK /\ AvatarsTypeOK /\ BootTypeOK /\ EmailTypeOK /\ ExpiryTypeOK
      /\ LayersTypeOK /\ SettingsTypeOK /\ LoginTypeOK /\ RequestsTypeOK /\ StorageTypeOK
      => TypesOK
    BY DEF TypesOK
<1> QED
    BY <1>1, <1>2, <1>3, <1>4, <1>5, <1>6, <1>7, <1>8, ComponentsGoOn, StartsAreTyped,
       LayersAreTyped, SettingsAreTyped, PTL
=============================================================================

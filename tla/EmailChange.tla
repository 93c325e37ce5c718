---------------------------- MODULE EmailChange ----------------------------
(***************************************************************************)
(* A user changes the email: start_email_change mails one code to the old  *)
(* address and one to the new, confirm_email_change asks for both.  What a *)
(* change is about is kept in a map in memory (a DashMap) whose lock stops *)
(* the THREAD of a task that waits for it, and confirm_email_change keeps  *)
(* a read lock across the update of the row, an await: it goes on only if  *)
(* the runtime has a thread left.  Readers do not wait for waiting writers.*)
(*                                                                         *)
(* One user and one shard of the map: the requests contend as do those of  *)
(* users whose entries share a shard.  A code is the number of its change  *)
(* and the mail it was in; the six digits of two changes may be the same,  *)
(* which is left out.                                                      *)
(***************************************************************************)
EXTENDS Naturals, FiniteSets

CONSTANTS
    Tasks,       \* the requests the server can be working on at once
    Mailboxes,
    FirstEmail,  \* the user's address at first
    Threads,     \* workers of the runtime
    MaxChanges,  \* bound of the changes that are started
    NoChange

ASSUME EmailChangeOK ==
    /\ FirstEmail \in Mailboxes
    /\ Threads \in Nat \ {0} /\ MaxChanges \in Nat
    /\ IsFiniteSet(Tasks)

VARIABLES
    email,     \* the address in the user's row
    change,    \* the entry of the map
    task,      \* where each request is
    sweeping,  \* the sweeper waits for the lock
    started,   \* the number of the last change
    mailed     \* the codes in each mailbox

emailVars == <<email, change, task, sweeping, started, mailed>>

Changes == [no : 1 .. MaxChanges, to : Mailboxes]
Codes   == (1 .. MaxChanges) \X {"old", "new"}
Asleep  == [at |-> "idle"]

RequestStates == {Asleep}
    \union [at : {"mail_old", "mail_new", "insert"}, change : Changes, from : Mailboxes]
    \union [at : {"changing", "remove"}, change : Changes, reads : SUBSET Mailboxes]

EmailTypeOK ==
    /\ email \in Mailboxes
    /\ change \in Changes \union {NoChange}
    /\ task \in [Tasks -> RequestStates]
    /\ sweeping \in BOOLEAN
    /\ started \in 0 .. MaxChanges
    /\ mailed \in [Mailboxes -> SUBSET Codes]

-----------------------------------------------------------------------------
(* Mutant: the guard lives until the entry is removed. *)
Guarding_Longer(t) == task[t].at \in {"changing", "remove"}

(* The request holds a read lock. *)
Guarding(t) == task[t].at = "changing"

(* The request holds a thread: it waits for the write lock, or has it.     *)
Blocking(t) == task[t].at \in {"insert", "remove"}

ThreadFree ==
    Cardinality({t \in Tasks : Blocking(t)}) + (IF sweeping THEN 1 ELSE 0) < Threads

(* Writers have the lock for one step. *)
Unlocked == \A t \in Tasks : ~Guarding(t)

Becomes(t, q) == task' = [task EXCEPT ![t] = q]

-----------------------------------------------------------------------------
(* start_email_change: the address is free and the user local, or the      *)
(* request ends here.                                                      *)
Start(t, to) ==
    /\ ThreadFree
    /\ task[t] = Asleep
    /\ started < MaxChanges
    /\ started' = started + 1
    /\ Becomes(t, [at |-> "mail_old", change |-> [no |-> started', to |-> to], from |-> email])
    /\ UNCHANGED <<email, change, sweeping, mailed>>

(* MailConfig::send_mail: the code is in the mailbox. *)
Delivered(to, code) == mailed' = [mailed EXCEPT ![to] = @ \union {code}]

(* A mail that cannot be sent ends the request. *)
Mail(t, from, kind, to, next) ==
    /\ ThreadFree
    /\ task[t].at = from
    /\ \/ /\ Delivered(to, <<task[t].change.no, kind>>)
          /\ Becomes(t, [task[t] EXCEPT !.at = next])
       \/ Becomes(t, Asleep) /\ UNCHANGED mailed
    /\ UNCHANGED <<email, change, sweeping, started>>

MailOld(t) ==
    task[t].at = "mail_old" /\ Mail(t, "mail_old", "old", task[t].from, "mail_new")
MailNew(t) ==
    task[t].at = "mail_new" /\ Mail(t, "mail_new", "new", task[t].change.to, "insert")

(* The map has one entry for a user: an earlier change is forgotten.       *)
InsertEntry(t) ==
    /\ task[t].at = "insert" /\ Unlocked
    /\ change' = task[t].change
    /\ Becomes(t, Asleep)
    /\ UNCHANGED <<email, sweeping, started, mailed>>

-----------------------------------------------------------------------------
(* Mutant: only the code from the old address is compared. *)
Accepted_OldOnly(old, new) == old = <<change.no, "old">>

Accepted(old, new) == old = <<change.no, "old">> /\ new = <<change.no, "new">>

(* confirm_email_change, by somebody who reads these mailboxes.            *)
Confirm(t, reads) ==
    /\ ThreadFree
    /\ task[t] = Asleep
    /\ change # NoChange
    /\ \E old, new \in UNION {mailed[m] : m \in reads} : Accepted(old, new)
    /\ Becomes(t, [at |-> "changing", change |-> change, reads |-> reads])
    /\ UNCHANGED <<email, change, sweeping, started, mailed>>

(* The update of the row. *)
ChangeAddress(t) ==
    /\ ThreadFree
    /\ task[t].at = "changing"
    /\ email' = task[t].change.to
    /\ Becomes(t, [task[t] EXCEPT !.at = "remove"])
    /\ UNCHANGED <<change, sweeping, started, mailed>>

(* It fails (another user has the address by now), or the client is gone:  *)
(* the guard is dropped with the future.                                   *)
Refused(t) ==
    /\ ThreadFree
    /\ task[t].at = "changing"
    /\ Becomes(t, Asleep)
    /\ UNCHANGED <<email, change, sweeping, started, mailed>>

(* Whatever the entry is by now. *)
RemoveEntry(t) ==
    /\ task[t].at = "remove" /\ Unlocked
    /\ change' = NoChange
    /\ Becomes(t, Asleep)
    /\ UNCHANGED <<email, sweeping, started, mailed>>

-----------------------------------------------------------------------------
(* The sweeper, and change_user_email, which does not look at the map.     *)

BeginSweep ==
    /\ ThreadFree
    /\ ~sweeping /\ sweeping' = TRUE
    /\ UNCHANGED <<email, change, task, started, mailed>>

(* The entry goes or stays by its age (see Expiry). *)
EndSweep ==
    /\ sweeping /\ Unlocked
    /\ sweeping' = FALSE
    /\ change' \in {change, NoChange}
    /\ UNCHANGED <<email, task, started, mailed>>

SetByAdmin ==
    /\ ThreadFree
    /\ email' \in Mailboxes \ {email}
    /\ UNCHANGED <<change, task, sweeping, started, mailed>>

EmailInit ==
    /\ email = FirstEmail
    /\ change = NoChange
    /\ task = [t \in Tasks |-> Asleep]
    /\ sweeping = FALSE
    /\ started = 0
    /\ mailed = [m \in Mailboxes |-> {}]

Continue(t) ==
    MailOld(t) \/ MailNew(t) \/ InsertEntry(t) \/ ChangeAddress(t) \/ Refused(t) \/ RemoveEntry(t)

EmailNext ==
    \/ \E t \in Tasks :
         \/ Continue(t)
         \/ \E m \in Mailboxes : Start(t, m)
         \/ \E reads \in SUBSET Mailboxes : Confirm(t, reads)
    \/ BeginSweep \/ EndSweep \/ SetByAdmin

EmailSpec == EmailInit /\ [][EmailNext]_emailVars

-----------------------------------------------------------------------------
(* Properties *)

(* The address a user confirms is proved to be the user's: who confirmed   *)
(* reads the mail of the address the row had when the change began and of  *)
(* the address it gets, through changes that overlap, are swept, or are    *)
(* confirmed twice.                                                        *)
AddressProven ==
    [][\A t \in Tasks : ChangeAddress(t) =>
         LET codes(m) == {c \in mailed[m] : c[1] = task[t].change.no} IN
         /\ email' \in task[t].reads /\ "new" \in {c[2] : c \in codes(email')}
         /\ \E m \in task[t].reads : "old" \in {c[2] : c \in codes(m)}]_emailVars

(* The lock that confirm_email_change holds across the update, and that    *)
(* its own remove, the inserts and the sweeper wait for with their         *)
(* threads, comes free: who holds it does not wait for it, and has a       *)
(* thread to go on with.  So it is only when the runtime has more threads  *)
(* than there can be waiters.                                              *)
LockComesFree == \A t \in Tasks : Guarding(t) => ~Blocking(t) /\ ThreadFree
=============================================================================

--------------------------- MODULE JwtRevocation ---------------------------
(***************************************************************************)
(* Sessions and their revocation: a login hands out a signed token, every  *)
(* request is admitted by its token, and a logout writes the token of its  *)
(* cookie to the table `invalid_jwt`, which is swept of expired rows from  *)
(* time to time.  Requests run concurrently; an action is what one of them *)
(* does between two awaits, or one access to the shared counter.           *)
(*                                                                         *)
(* A token is its claims: the signature is deterministic and there is no   *)
(* claim that tells two logins apart, so two logins of a user in the same  *)
(* second get the same token.  Logins change nothing on the server, so     *)
(* they are not actions: Issued is every token that may have been handed   *)
(* out by now.  Time is in seconds.  The checks of the user and of         *)
(* permissions, which may refuse a request, belong to Directory.           *)
(***************************************************************************)
EXTENDS Naturals, FiniteSets

CONSTANTS
    Users,
    Requests,   \* the requests the server can be working on at once
    NoToken,    \* the cookie of a request that has none
    Lifetime,   \* auth_jwt_expiration
    Leeway,     \* how long past exp the decoder accepts a token (60 s)
    Limit,      \* sweep when the counter is above this (1000)
    LoginTimes, \* bound: the seconds at which users may log in
    MaxTime     \* bound of the clock

ASSUME ConstantsOK ==
    /\ {Lifetime, Leeway, Limit, MaxTime} \subseteq Nat
    /\ LoginTimes \subseteq Nat
    /\ IsFiniteSet(Requests)
    /\ NoToken \notin [sub : Users, exp : Nat]

VARIABLES
    clock,
    rows,       \* the table invalid_jwt
    count,      \* JwtInvalidState.count
    request,    \* what each request is doing
    revoked     \* history: the rows of the logouts that were answered with Ok

vars == <<clock, rows, count, request, revoked>>

Tokens == [sub : Users, exp : Nat]
Rows   == [token : Tokens, until : Nat]

Row(t, until) == [token |-> t, until |-> until]

(* create_raw_token at each login so far. *)
Issued == [sub : Users, exp : {s + Lifetime : s \in {l \in LoginTimes : l <= clock}}]

(* late: the answered revocations of its token that a request came after,  *)
(* until it is admitted.                                                   *)
Idle == [at |-> "idle", token |-> NoToken, cookie |-> NoToken, late |-> {}]
Started(t, c) ==
    [at |-> "decoded", token |-> t, cookie |-> c, late |-> {x \in revoked : x.token = t}]

(* Mutant: the handler goes on with the cookie, not with its JwtClaims. *)
On_Cookie(q, place) == [at |-> place, token |-> q.cookie, cookie |-> q.cookie, late |-> {}]
On(q, place) == [at |-> place, token |-> q.token, cookie |-> q.cookie, late |-> {}]
Working == [at : {"decoded", "admitted", "inserted", "adding", "sweeping", "resetting"},
            token : Tokens, cookie : Tokens \union {NoToken}, late : SUBSET Rows]

TypeOK ==
    /\ clock \in Nat
    /\ rows \subseteq Rows
    /\ count \in Nat
    /\ request \in [Requests -> Working \union {Idle}]
    /\ revoked \subseteq Rows

-----------------------------------------------------------------------------
At(r, place) == request[r].at = place

(* Request r goes on to `place`; request r ends. *)
Goes(r, place) == request' = [request EXCEPT ![r] = On(@, place)]
Ends(r)        == request' = [request EXCEPT ![r] = Idle]

(* Request r, a logout, ends with Ok. *)
LogoutEnds(r) ==
    /\ Ends(r)
    /\ revoked' = revoked \union {Row(request[r].cookie, request[r].token.exp)}

(* Mutant: an Auth that does not look the token up. *)
Revoked_Never(t) == FALSE
Revoked(t) == \E x \in rows : x.token = t

(* Mutants: the leeway on the wrong side; `gt` for `lt`. *)
Expired_Early(x, started)   == x.until <= clock + Leeway
Expired_Swapped(x, started) == x.until > clock

(* exp < now, where now has begun its second or not. *)
Expired(x, started) == x.until < clock \/ (started /\ x.until = clock)

(* Mutant: compared with one value, which two increments can jump over. *)
Full_Exactly(n) == n = Limit + 1
Full(n) == n > Limit

-----------------------------------------------------------------------------
(* A request arrives with token t, in a header, the cookie or the query,   *)
(* and the signature and exp of t are checked.  When no header names a     *)
(* token, t is the cookie.                                                 *)
Decode(r, t, c) ==
    /\ At(r, "idle")
    /\ clock <= t.exp + Leeway
    /\ request' = [request EXCEPT ![r] = Started(t, c)]
    /\ UNCHANGED <<clock, rows, count, revoked>>

(* StatelessAuth::check finds no row, Permission::check passes. *)
Admit(r) ==
    /\ At(r, "decoded")
    /\ ~Revoked(request[r].token)
    /\ Goes(r, "admitted")
    /\ UNCHANGED <<clock, rows, count, revoked>>

(* A request ends before it changes anything: the token is revoked, the    *)
(* user has not the permission, a query fails, or it is no logout.         *)
Leave(r) ==
    /\ request[r].at \in {"decoded", "admitted"}
    /\ Ends(r)
    /\ UNCHANGED <<clock, rows, count, revoked>>

(* Logout: the token of the cookie, with the exp of the token that         *)
(* authenticated the request.                                              *)
Insert(r) ==
    /\ At(r, "admitted")
    /\ request[r].cookie # NoToken
    /\ rows' = rows \union {Row(request[r].cookie, request[r].token.exp)}
    /\ Goes(r, "inserted")
    /\ UNCHANGED <<clock, count, revoked>>

Load(r) ==
    /\ At(r, "inserted")
    /\ Goes(r, IF Full(count) THEN "sweeping" ELSE "adding")
    /\ UNCHANGED <<clock, rows, count, revoked>>

Add(r) ==
    /\ At(r, "adding")
    /\ count' = count + 1
    /\ LogoutEnds(r)
    /\ UNCHANGED <<clock, rows>>

Sweep(r) ==
    /\ At(r, "sweeping")
    /\ \E started \in BOOLEAN : rows' = {x \in rows : ~Expired(x, started)}
    /\ Goes(r, "resetting")
    /\ UNCHANGED <<clock, count, revoked>>

(* The delete fails: the logout is answered with an error. *)
SweepFails(r) ==
    /\ At(r, "sweeping")
    /\ Ends(r)
    /\ UNCHANGED <<clock, rows, count, revoked>>

Reset(r) ==
    /\ At(r, "resetting")
    /\ count' = 0
    /\ LogoutEnds(r)
    /\ UNCHANGED <<clock, rows>>

Tick ==
    /\ clock < MaxTime
    /\ clock' = clock + 1
    /\ UNCHANGED <<rows, count, request, revoked>>

(* The process restarts: the key and the table survive, the counter does not. *)
Restart ==
    /\ count' = 0
    /\ request' = [r \in Requests |-> Idle]
    /\ UNCHANGED <<clock, rows, revoked>>

-----------------------------------------------------------------------------
Init ==
    /\ clock = 0
    /\ rows = {} /\ revoked = {}
    /\ count = 0
    /\ request = [r \in Requests |-> Idle]

Serve(r) ==
    \/ \E t \in Issued, c \in Issued \union {NoToken} : Decode(r, t, c)
    \/ Admit(r) \/ Leave(r)
    \/ Insert(r) \/ Load(r) \/ Add(r)
    \/ Sweep(r) \/ SweepFails(r) \/ Reset(r)

Next ==
    \/ \E r \in Requests : Serve(r)
    \/ Tick
    \/ Restart

Spec == Init /\ [][Next]_vars

(* A logout under way is not left standing: the runtime polls its task.    *)
Fairness == \A r \in Requests : WF_vars(Load(r) \/ Add(r) \/ Sweep(r) \/ Reset(r))

FairSpec == Spec /\ Fairness
-----------------------------------------------------------------------------
(* Properties *)

(* The AtomicI32 stays close to the limit although it is read, added to    *)
(* and reset without a lock: at most one increment per request in flight   *)
(* gets past the comparison.                                               *)
CountBounded == count <= Limit + Cardinality(Requests)

(* The sweep never forgets a logout before the time the logout recorded.   *)
LogoutRemembered == \A x \in revoked : clock < x.until => x \in rows

(* integration_tests.rs:469 up to the expiry the logout recorded: a        *)
(* request that arrives after a logout was answered is not admitted with   *)
(* the token that was logged out, however sweeps, restarts and the two     *)
(* halves of the check fall.                                               *)
StepRefusesLate ==
    \A r \in Requests :
      At(r, "decoded") /\ At(r, "admitted")' => \A x \in request[r].late : x.until <= clock
LateRequestsRefused == [][StepRefusesLate]_vars

(* The table does not keep an expired row for ever, as long as users log   *)
(* out, the server is not restarted again and again before the counter is  *)
(* full, and the delete does not keep failing.                             *)
KeepsServing == <>[][~Restart /\ \A r \in Requests : ~SweepFails(r)]_vars
LogoutsGoOn  == []<>(\E r \in Requests : At(r, "inserted"))
ExpiredRowsRemoved ==
    KeepsServing /\ LogoutsGoOn =>
      \A u \in Users, exp \in {s + Lifetime : s \in LoginTimes} :
        LET x == Row([sub |-> u, exp |-> exp], exp)
        IN  [](x \in rows /\ x.until < clock => <>(x \notin rows))

(* "The invalidated token is now rejected on protected routes"             *)
(* (integration_tests.rs:469): for good.  The sweep deletes a row at exp,  *)
(* the decoder accepts the token until exp + leeway.                       *)
LogoutIsFinal ==
    [][\A r \in Requests :
         At(r, "decoded") /\ At(r, "admitted")' => request[r].late = {}]_vars
=============================================================================

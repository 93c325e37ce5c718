------------------------------ MODULE Requests ------------------------------
(***************************************************************************)
(* What happens to a request on its way to a handler and back: the         *)
(* counters of the metrics middleware around everything, the search for a  *)
(* token, the two queries of JwtAuth, and the status that the answer gets. *)
(*                                                                         *)
(* Every await is a step: other requests log tokens out and change the     *)
(* permissions of users between the steps of this one, a query may fail,   *)
(* and the client may go away (or the handler panic), which drops the      *)
(* future of the request where it stands.                                  *)
(*                                                                         *)
(* One set of metrics labels, that is one method and path; what a handler  *)
(* does is left to the modules of the handlers, but for its error.         *)
(***************************************************************************)
EXTENDS Naturals, FiniteSets

CONSTANTS
    Requests,
    Tokens,    \* what validate_token accepts
    Garbage,   \* and what it does not
    Carried,   \* what requests bring along
    NoToken,
    Errors     \* bound: the kinds of error that handlers meet

ASSUME RequestsOK ==
    /\ IsFiniteSet(Requests)
    /\ Tokens \intersect Garbage = {} /\ NoToken \notin Tokens \union Garbage
    /\ LET Any == Tokens \union Garbage \union {NoToken}
       IN  Carried \subseteq [bearer : Any, cookie : Any, query : Any, basic : Any]

VARIABLES
    request,
    revoked,  \* tokens in the table of invalid JWTs
    granted,  \* tokens whose user has the permission, or exists if none is needed
    gauge, total, successful, failed,
    lost      \* how many requests were dropped

requestVars == <<request, revoked, granted, gauge, total, successful, failed, lost>>

(* A request of its route (any permission, the empty one, or test_token,   *)
(* whose authentication is optional), with what it brings, the status of   *)
(* its answer and what it has been through.                                *)
Routes == {"permission", "existence", "test_token"}

Request(at, route, carries, status) ==
    [at |-> at, route |-> route, carries |-> carries, status |-> status,
     live |-> FALSE, dead |-> FALSE, allowed |-> FALSE, denied |-> FALSE, faulted |-> FALSE,
     admitted |-> FALSE]

Nowhere == Request("nowhere", "permission", [bearer |-> NoToken, cookie |-> NoToken,
                   query |-> NoToken, basic |-> NoToken], 0)

-----------------------------------------------------------------------------
(* The parts *)

(* jwt_from_request: the first of the four. *)
TokenOf(carries) ==
    IF carries.bearer # NoToken THEN carries.bearer
    ELSE IF carries.cookie # NoToken THEN carries.cookie
    ELSE IF carries.query # NoToken THEN carries.query
    ELSE carries.basic

(* bail! and anyhow! without a status, and a report of eyre.               *)
DefaultStatus == 400

(* The statuses that handlers behind JwtAuth give themselves, by .status(), *)
(* .status_context() and bail!: 401 and 403 are among them.                *)
GivenStatuses == {400, 401, 403, 404, 406, 409, 413, 500}

(* Those of axum::Json, which are no ErrorReports.                         *)
BodyRejections == {400, 413, 415, 422}

(* impl_from_error!: errors that are not the client's get 500.             *)
InternalErrors ==
    {"io", "chrono", "docker", "image", "uuid", "base64", "rsa", "argon2", "db", "hmac",
     "reqwest", "mail", "k8s", "storage"}

(* Mutant: an upstream that fails is told apart. *)
StatusOf_Gateway(error) ==
    IF error = "reqwest" THEN 502 ELSE IF error \in InternalErrors THEN 500 ELSE 400

StatusOf(error) == IF error \in InternalErrors THEN 500 ELSE 400

(* is_success. *)
Success(status) == status = 200

InFlight == {r \in Requests : request[r].at \notin {"nowhere", "answered", "dropped"}}

(* Whether the token of a request is live and its user allowed: noted for  *)
(* the requests under way whenever either may have changed.                *)
Seen(q, out, in) ==
    LET t == TokenOf(q.carries)
    IN  [q EXCEPT !.live    = @ \/ t \notin out,
                  !.dead    = @ \/ t \in out,
                  !.allowed = @ \/ t \in in,
                  !.denied  = @ \/ t \notin in]

-----------------------------------------------------------------------------
(* Actions *)

RequestsInit ==
    /\ request = [r \in Requests |-> Nowhere]
    /\ revoked = {} /\ granted = Tokens
    /\ gauge = 0 /\ total = 0 /\ successful = 0 /\ failed = 0 /\ lost = 0

Counters == <<gauge, total, successful, failed, lost>>

(* request_metrics up to next.run. *)
Arrive(r, route, carries) ==
    /\ request[r].at = "nowhere"
    /\ request' = [request EXCEPT ![r] =
                     Seen(Request("token", route, carries, 0), revoked, granted)]
    /\ gauge' = gauge + 1
    /\ total' = total + 1
    /\ UNCHANGED <<revoked, granted, successful, failed, lost>>

Moves(r, at) == [request[r] EXCEPT !.at = at]

(* Option<JwtAuth> takes any error for no authentication.                  *)
Optional(q) == q.route = "test_token" /\ q.at # "handler"

(* The status that an extractor or a handler ends with.  Without           *)
(* authentication test_token removes the cookie of the client and succeeds.*)
EndsWith(q, status) ==
    IF Optional(q) THEN [q EXCEPT !.at = "cookie_removed", !.status = 200]
    ELSE [q EXCEPT !.at = "response", !.status = status]

(* from_request_parts, before its first await of the database.             *)
FindToken(r) ==
    LET q == request[r]
        t == TokenOf(q.carries)
    IN  /\ q.at = "token"
        /\ request' = [request EXCEPT ![r] =
                         CASE t = NoToken   -> EndsWith(q, DefaultStatus)
                           [] t \in Garbage -> EndsWith(q, 401)
                           [] OTHER         -> Moves(r, "revocation")]
        /\ UNCHANGED <<revoked, granted, Counters>>

(* Mutant: the table is not asked. *)
ValidToken_Stateless(t) == TRUE

ValidToken(t) == t \notin revoked

(* StatelessAuth.check: a query that fails is answered 400.                *)
CheckRevocation(r) ==
    LET q == request[r]
    IN  /\ q.at = "revocation"
        /\ \/ request' = [request EXCEPT ![r] =
                            IF ValidToken(TokenOf(q.carries)) THEN Moves(r, "permission_check")
                            ELSE EndsWith(q, 401)]
           \/ request' = [request EXCEPT ![r] = 
                            EndsWith([q EXCEPT !.faulted = TRUE], DefaultStatus)]
        /\ UNCHANGED <<revoked, granted, Counters>>

(* Permission.check: without a name an error of the query is taken for an  *)
(* absent user; with one it is the error of the database.                  *)
CheckPermission(r) ==
    LET q == request[r]
    IN  /\ q.at = "permission_check"
        /\ \/ request' = [request EXCEPT ![r] =
                            IF TokenOf(q.carries) \in granted
                              THEN [Moves(r, "handler") EXCEPT !.admitted = TRUE]
                              ELSE EndsWith(q, 403)]
           \/ request' = [request EXCEPT ![r] =
                            EndsWith([q EXCEPT !.faulted = TRUE],
                                     IF q.route = "permission" THEN StatusOf("db") ELSE 403)]
        /\ UNCHANGED <<revoked, granted, Counters>>

(* What an ErrorReport may be made with. *)
Reported == {StatusOf(e) : e \in Errors} \union {DefaultStatus} \union GivenStatuses

(* A handler rejects the body, or succeeds, or returns an ErrorReport.     *)
(* test_token has no body and no errors.                                   *)
RunHandler(r) ==
    LET q == request[r]
    IN  /\ q.at = "handler"
        /\ \/ request' = [request EXCEPT ![r] = EndsWith(q, 200)]
           \/ \E status \in Reported \union BodyRejections :
                /\ q.route # "test_token"
                /\ request' = [request EXCEPT ![r] = EndsWith(q, status)]
        /\ UNCHANGED <<revoked, granted, Counters>>

(* Mutant: the gauge goes down with the successful ones. *)
GaugeAfter_Successful(status) == IF Success(status) THEN gauge - 1 ELSE gauge

GaugeAfter(status) == gauge - 1

(* What a request that is over has been through is of no use any more.     *)
Over(at, status) == Request(at, "permission", Nowhere.carries, status)

(* request_metrics after next.run.                                         *)
Answer(r) ==
    LET q == request[r]
    IN  /\ q.at \in {"response", "cookie_removed"}
        /\ request' = [request EXCEPT ![r] = Over("answered", q.status)]
        /\ IF Success(q.status)
             THEN successful' = successful + 1 /\ UNCHANGED failed
             ELSE failed' = failed + 1 /\ UNCHANGED successful
        /\ gauge' = GaugeAfter(q.status)
        /\ UNCHANGED <<revoked, granted, total, lost>>

(* The client goes away, or the handler panics: nothing after next.run     *)
(* runs, and the gauge stays up.                                           *)
Drop(r) ==
    /\ r \in InFlight
    /\ request' = [request EXCEPT ![r] = Over("dropped", 0)]
    /\ lost' = lost + 1
    /\ UNCHANGED <<revoked, granted, gauge, total, successful, failed>>

Observed(out, in) ==
    [r \in Requests |-> IF r \in InFlight THEN Seen(request[r], out, in) ELSE request[r]]

(* Others log out a token, or change what its user may do.                 *)
Revoke(t) ==
    /\ t \notin revoked
    /\ revoked' = revoked \union {t}
    /\ request' = Observed(revoked', granted)
    /\ UNCHANGED <<granted, Counters>>

Change(t) ==
    /\ granted' = IF t \in granted THEN granted \ {t} ELSE granted \union {t}
    /\ request' = Observed(revoked, granted')
    /\ UNCHANGED <<revoked, Counters>>

RequestsNext ==
    \/ \E r \in Requests, route \in Routes, carries \in Carried : Arrive(r, route, carries)
    \/ \E r \in Requests :
         \/ FindToken(r) \/ CheckRevocation(r) \/ CheckPermission(r)
         \/ RunHandler(r) \/ Answer(r) \/ Drop(r)
    \/ \E t \in Tokens : Revoke(t) \/ Change(t)

RequestsSpec == RequestsInit /\ [][RequestsNext]_requestVars

-----------------------------------------------------------------------------
(* Properties *)

RequestsTypeOK ==
    /\ \A r \in Requests :
         /\ request[r].at \in {"nowhere", "token", "revocation", "permission_check", "handler",
                               "response", "cookie_removed", "answered", "dropped"}
         /\ request[r].status \in {0, 200, 400, 401, 403, 404, 406, 409, 413, 415, 422, 500}
    /\ revoked \subseteq Tokens /\ granted \subseteq Tokens

(* An answer tells what was the matter at some moment of the request.  Its *)
(* handler ran only for a token that was live and whose user was allowed   *)
(* (each at a moment of its own).  An answer without the handler is one of *)
(* four: 400 for no token, or a failed query; 401 for a token that is not  *)
(* one of ours or was logged out; 403 for a user who was not allowed, or   *)
(* whose existence could not be asked for; 500 for a permission that could *)
(* not.  The statuses of a handler are its own, and may be the same ones.  *)
(* test_token takes the cookie away from nobody whose session stood all    *)
(* along, unless a query failed.                                           *)
AnsweredForCause ==
    \A r \in Requests :
      LET q == request[r]
          t == TokenOf(q.carries)
      IN  /\ q.at = "handler" \/ q.admitted => t \in Tokens /\ q.live /\ q.allowed
          /\ q.at = "response" /\ ~q.admitted =>
               \/ q.status = 400 /\ (t = NoToken \/ q.faulted)
               \/ q.status = 401 /\ (t \in Garbage \/ q.dead)
               \/ q.status = 403 /\ (q.denied \/ (q.faulted /\ q.route = "existence"))
               \/ q.status = 500 /\ q.faulted /\ q.route = "permission"
          /\ q.at = "cookie_removed" =>
               t \notin Tokens \/ q.dead \/ q.denied \/ q.faulted

(* The counters agree with each other and with what is under way; the      *)
(* gauge of active requests is too high by the requests that were dropped. *)
CountersAgree ==
    /\ gauge = Cardinality(InFlight) + lost
    /\ total = successful + failed + gauge
    /\ successful = Cardinality({r \in Requests : /\ request[r].at = "answered"
                                                  /\ Success(request[r].status)})
=============================================================================

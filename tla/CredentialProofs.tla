-------------------------- MODULE CredentialProofs --------------------------
(***************************************************************************)
(* What clients bring back to the server: the token of a request           *)
(* (Requests), the codes of an email change (EmailChange), the state and   *)
(* the code of a login (OidcLogin).  For any number of requests, tokens,   *)
(* kinds of errors, mailboxes, threads, changes, logins, browsers,         *)
(* callbacks and providers.                                                *)
(***************************************************************************)
EXTENDS Requests, EmailChange, OidcLogin, FiniteSetTheorems, TLAPS

-----------------------------------------------------------------------------
(* Requests *)

Steps == {"nowhere", "token", "revocation", "permission_check", "handler", "response",
          "cookie_removed", "answered", "dropped"}

Brings == LET Any == Tokens \union Garbage \union {NoToken}
          IN  [bearer : Any, cookie : Any, query : Any, basic : Any]

Statuses == {200, 400, 401, 403, 404, 406, 409, 413, 415, 422, 500}

RequestRecords ==
    [at : Steps, route : Routes, carries : Brings, status : Statuses \union {0},
     live : BOOLEAN, dead : BOOLEAN, allowed : BOOLEAN, denied : BOOLEAN, faulted : BOOLEAN,
     admitted : BOOLEAN]

Typed ==
    /\ request \in [Requests -> RequestRecords]
    /\ revoked \subseteq Tokens /\ granted \subseteq Tokens

(* What a request has been through is noted as long as it is under way.    *)
Noted(q, out, in) ==
    LET t == TokenOf(q.carries)
    IN  /\ (IF t \in out THEN q.dead ELSE q.live)
        /\ (IF t \in in THEN q.allowed ELSE q.denied)

OnItsWay(q) == q.at \notin {"nowhere", "answered", "dropped"}

(* How far a request has got, it got for a cause. *)
Caused(q) ==
    LET t == TokenOf(q.carries)
    IN  /\ q.at \in {"revocation", "permission_check", "handler"} => t \in Tokens
        /\ q.at \in {"permission_check", "handler"} => q.live
        /\ q.at = "handler" => q.allowed /\ q.admitted
        /\ q.admitted => t \in Tokens /\ q.live /\ q.allowed
        /\ q.at = "response" /\ ~q.admitted =>
             \/ q.status = 400 /\ (t = NoToken \/ q.faulted)
             \/ q.status = 401 /\ (t \in Garbage \/ q.dead)
             \/ q.status = 403 /\ (q.denied \/ (q.faulted /\ q.route = "existence"))
             \/ q.status = 500 /\ q.faulted /\ q.route = "permission"
        /\ q.at = "cookie_removed" => t \notin Tokens \/ q.dead \/ q.denied \/ q.faulted

(* The inductive invariant of the requests. *)
RequestsInv ==
    /\ Typed
    /\ \A r \in Requests : OnItsWay(request[r]) => Noted(request[r], revoked, granted)
    /\ \A r \in Requests : Caused(request[r])

(* One request has taken a step, and the rest of the world has not moved.  *)
Progress(r, q) ==
    /\ request' = [request EXCEPT ![r] = q]
    /\ UNCHANGED <<revoked, granted>>

-----------------------------------------------------------------------------
LEMMA TokensCarried ==
    ASSUME NEW c \in Brings
    PROVE  TokenOf(c) \in Tokens \union Garbage \union {NoToken}
  BY DEF Brings, TokenOf

LEMMA StatusesKnown ==
    /\ \A e : StatusOf(e) \in {400, 500}
    /\ StatusOf("db") = 500
    /\ Reported \union BodyRejections \subseteq Statuses
  BY DEF StatusOf, Reported, DefaultStatus, GivenStatuses, BodyRejections, InternalErrors, Statuses

LEMMA ProgressKeepsInv ==
    ASSUME RequestsInv, NEW r \in Requests, NEW q, Progress(r, q),
           q \in RequestRecords,
           OnItsWay(q) => Noted(q, revoked, granted),
           Caused(q)
    PROVE  RequestsInv'
  <1>1. /\ request' \in [Requests -> RequestRecords]
        /\ request'[r] = q /\ \A o \in Requests : o # r => request'[o] = request[o]
        /\ revoked' = revoked /\ granted' = granted
    BY DEF RequestsInv, Typed, Progress
  <1>2. Typed'
    BY <1>1 DEF RequestsInv, Typed
  <1>3. \A o \in Requests : /\ OnItsWay(request'[o]) => Noted(request'[o], revoked', granted')
                            /\ Caused(request'[o])
    BY <1>1 DEF RequestsInv
  <1>4. QED
    BY <1>2, <1>3 DEF RequestsInv, Noted, Caused, OnItsWay

(* What an extractor or a handler ends with keeps what was noted. *)
LEMMA EndsWithFields ==
    ASSUME NEW q \in RequestRecords, NEW status \in Statuses
    PROVE  /\ EndsWith(q, status) \in RequestRecords
           /\ EndsWith(q, status).at = IF Optional(q) THEN "cookie_removed" ELSE "response"
           /\ EndsWith(q, status).status = IF Optional(q) THEN 200 ELSE status
           /\ EndsWith(q, status).route = q.route /\ EndsWith(q, status).carries = q.carries
           /\ EndsWith(q, status).live = q.live /\ EndsWith(q, status).dead = q.dead
           /\ EndsWith(q, status).allowed = q.allowed /\ EndsWith(q, status).denied = q.denied
           /\ EndsWith(q, status).faulted = q.faulted
           /\ EndsWith(q, status).admitted = q.admitted
  <1>1. ASSUME NEW at \in Steps, NEW s \in Statuses
        PROVE  LET e == [q EXCEPT !.at = at, !.status = s]
               IN  /\ e \in RequestRecords /\ e.at = at /\ e.status = s
                   /\ e.route = q.route /\ e.carries = q.carries
                   /\ e.live = q.live /\ e.dead = q.dead
                   /\ e.allowed = q.allowed /\ e.denied = q.denied /\ e.faulted = q.faulted
                   /\ e.admitted = q.admitted
    <2> DEFINE d == [q EXCEPT !.at = at]
               e == [d EXCEPT !.status = s]
    <2>1. d \in RequestRecords /\ d.at = at
      BY DEF RequestRecords
    <2>2. d.route = q.route /\ d.carries = q.carries
      BY DEF RequestRecords
    <2>3. d.live = q.live /\ d.dead = q.dead
      BY DEF RequestRecords
    <2>4. d.allowed = q.allowed /\ d.denied = q.denied /\ d.faulted = q.faulted
      BY DEF RequestRecords
    <2>5. d.admitted = q.admitted
      BY DEF RequestRecords
    <2> HIDE DEF d
    <2>6. e \in RequestRecords /\ e.status = s
      BY <2>1 DEF RequestRecords
    <2>7. e.at = d.at /\ e.route = d.route /\ e.carries = d.carries
      BY <2>1 DEF RequestRecords
    <2>8. e.live = d.live /\ e.dead = d.dead
      BY <2>1 DEF RequestRecords
    <2>9. e.allowed = d.allowed /\ e.denied = d.denied /\ e.faulted = d.faulted
      BY <2>1 DEF RequestRecords
    <2>10. e.admitted = d.admitted
      BY <2>1 DEF RequestRecords
    <2> HIDE DEF e
    <2>11. /\ e \in RequestRecords /\ e.at = at /\ e.status = s
           /\ e.route = q.route /\ e.carries = q.carries
           /\ e.live = q.live /\ e.dead = q.dead
           /\ e.allowed = q.allowed /\ e.denied = q.denied /\ e.faulted = q.faulted
           /\ e.admitted = q.admitted
      BY <2>1, <2>2, <2>3, <2>4, <2>5, <2>6, <2>7, <2>8, <2>9, <2>10
    <2>12. QED
      BY <2>11 DEF d, e
  <1>2. CASE Optional(q)
    <2>1. EndsWith(q, status) = [q EXCEPT !.at = "cookie_removed", !.status = 200]
      BY <1>2 DEF EndsWith
    <2>2. QED
      BY <1>1, <1>2, <2>1 DEF Steps, Statuses
  <1>3. CASE ~Optional(q)
    <2>1. EndsWith(q, status) = [q EXCEPT !.at = "response", !.status = status]
      BY <1>3 DEF EndsWith
    <2> DEFINE e == [q EXCEPT !.at = "response", !.status = status]
    <2>2. "response" \in Steps
      BY DEF Steps
    <2>3. /\ e \in RequestRecords /\ e.at = "response" /\ e.status = status
          /\ e.route = q.route /\ e.carries = q.carries
          /\ e.live = q.live /\ e.dead = q.dead
          /\ e.allowed = q.allowed /\ e.denied = q.denied /\ e.faulted = q.faulted
          /\ e.admitted = q.admitted
      BY <1>1, <2>2
    <2> HIDE DEF e
    <2>4. QED
      BY <1>3, <2>1, <2>3 DEF e
  <1>4. QED
    BY <1>2, <1>3

LEMMA FaultedFields ==
    ASSUME NEW q \in RequestRecords
    PROVE  LET f == [q EXCEPT !.faulted = TRUE]
           IN  /\ f \in RequestRecords /\ f.faulted
               /\ f.at = q.at /\ f.route = q.route /\ f.carries = q.carries
               /\ f.live = q.live /\ f.dead = q.dead
               /\ f.allowed = q.allowed /\ f.denied = q.denied /\ f.admitted = q.admitted
               /\ (Optional(f) <=> Optional(q))
  <1> DEFINE f == [q EXCEPT !.faulted = TRUE]
  <1>1. f \in RequestRecords /\ f.faulted
    <2>1. f \in RequestRecords
      <3>1. \A b \in BOOLEAN : [q EXCEPT !.faulted = b] \in RequestRecords
        BY DEF RequestRecords
      <3>2. QED
        BY <3>1
    <2>2. f.faulted
      BY DEF RequestRecords
    <2>3. QED
      BY <2>1, <2>2
  <1>2. f.at = q.at /\ f.route = q.route /\ f.carries = q.carries
    BY DEF RequestRecords
  <1>3. f.live = q.live /\ f.dead = q.dead
    BY DEF RequestRecords
  <1>4. f.allowed = q.allowed /\ f.denied = q.denied /\ f.admitted = q.admitted
    BY DEF RequestRecords
  <1> HIDE DEF f
  <1>5. Optional(f) <=> Optional(q)
    BY <1>2 DEF Optional
  <1>6. QED
    BY <1>1, <1>2, <1>3, <1>4, <1>5 DEF f

LEMMA MovesFields ==
    ASSUME RequestsInv, NEW r \in Requests, NEW at \in Steps
    PROVE  LET q == Moves(r, at)
               old == request[r]
           IN  /\ q \in RequestRecords /\ q.at = at
               /\ q.route = old.route /\ q.carries = old.carries /\ q.status = old.status
               /\ q.live = old.live /\ q.dead = old.dead
               /\ q.allowed = old.allowed /\ q.denied = old.denied /\ q.faulted = old.faulted
               /\ q.admitted = old.admitted
  BY DEF RequestsInv, Typed, Moves, RequestRecords

LEMMA AdmittedFields ==
    ASSUME NEW q \in RequestRecords
    PROVE  LET a == [q EXCEPT !.admitted = TRUE]
           IN  /\ a \in RequestRecords /\ a.admitted
               /\ a.at = q.at /\ a.carries = q.carries
               /\ a.live = q.live /\ a.dead = q.dead
               /\ a.allowed = q.allowed /\ a.denied = q.denied
  <1> DEFINE a == [q EXCEPT !.admitted = TRUE]
  <1>1. a \in RequestRecords
    <2>1. \A b \in BOOLEAN : [q EXCEPT !.admitted = b] \in RequestRecords
      BY DEF RequestRecords
    <2>2. QED
      BY <2>1
  <1>2. a.admitted /\ a.at = q.at /\ a.carries = q.carries
    BY DEF RequestRecords
  <1>3. a.live = q.live /\ a.dead = q.dead
    BY DEF RequestRecords
  <1>4. a.allowed = q.allowed /\ a.denied = q.denied
    BY DEF RequestRecords
  <1>5. QED
    BY <1>1, <1>2, <1>3, <1>4

LEMMA SeenFields ==
    ASSUME NEW q \in RequestRecords, NEW out, NEW in
    PROVE  /\ Seen(q, out, in) \in RequestRecords
           /\ Noted(Seen(q, out, in), out, in)
           /\ Seen(q, out, in).at = q.at /\ Seen(q, out, in).status = q.status
           /\ Caused(q) => Caused(Seen(q, out, in))
  <1> DEFINE t == TokenOf(q.carries)
             live    == q.live \/ t \notin out
             dead    == q.dead \/ t \in out
             allowed == q.allowed \/ t \in in
             denied  == q.denied \/ t \notin in
             s == [q EXCEPT !.live = live, !.dead = dead, !.allowed = allowed, !.denied = denied]
  <1>1. Seen(q, out, in) = s
    BY DEF Seen
  <1>2. {live, dead, allowed, denied} \subseteq BOOLEAN
    OBVIOUS
  <1> HIDE DEF live, dead, allowed, denied
  <1>3. s \in RequestRecords
    <2> DEFINE s1 == [q EXCEPT !.live = live]
               s2 == [s1 EXCEPT !.dead = dead]
               s3 == [s2 EXCEPT !.allowed = allowed]
               s4 == [s3 EXCEPT !.denied = denied]
    <2>1. s1 \in RequestRecords
      BY <1>2 DEF RequestRecords
    <2>2. s1 \in RequestRecords => s2 \in RequestRecords
      <3> HIDE DEF s1
      <3>1. QED
        BY <1>2 DEF RequestRecords
    <2>3. s2 \in RequestRecords => s3 \in RequestRecords
      <3> HIDE DEF s2
      <3>1. QED
        BY <1>2 DEF RequestRecords
    <2>4. s3 \in RequestRecords => s4 \in RequestRecords
      <3> HIDE DEF s3
      <3>1. QED
        BY <1>2 DEF RequestRecords
    <2> HIDE DEF s1, s2, s3, s4
    <2>5. s4 \in RequestRecords
      BY <2>1, <2>2, <2>3, <2>4
    <2>6. QED
      BY <2>5 DEF s1, s2, s3, s4
  <1>4. /\ s.at = q.at /\ s.route = q.route /\ s.carries = q.carries
        /\ s.status = q.status /\ s.faulted = q.faulted
        /\ s.live = live /\ s.dead = dead /\ s.allowed = allowed /\ s.denied = denied
        /\ s.admitted = q.admitted
    BY DEF RequestRecords
  <1> HIDE DEF s
  <1>5. Noted(s, out, in)
    BY <1>4 DEF Noted, live, dead, allowed, denied
  <1>6. /\ q.live => s.live
        /\ q.dead => s.dead
        /\ q.allowed => s.allowed
        /\ q.denied => s.denied
    BY <1>4 DEF live, dead, allowed, denied
  <1>7. Caused(q) => Caused(s)
    BY <1>4, <1>6 DEF Caused
  <1>8. QED
    BY <1>1, <1>3, <1>4, <1>5, <1>7

-----------------------------------------------------------------------------
LEMMA RequestsInitInv == RequestsInit => RequestsInv
  <1> SUFFICES ASSUME RequestsInit PROVE RequestsInv
    OBVIOUS
  <1>1. Nowhere \in RequestRecords /\ Nowhere.at = "nowhere" /\ ~Nowhere.admitted
    BY DEF Nowhere, Request, RequestRecords, Steps, Statuses, Routes, Brings
  <1>2. \A r \in Requests : request[r] = Nowhere
    BY DEF RequestsInit
  <1>3. Typed
    BY <1>1 DEF RequestsInit, Typed
  <1>4. Caused(Nowhere) /\ ~OnItsWay(Nowhere)
    BY <1>1 DEF Caused, OnItsWay
  <1>5. QED
    BY <1>2, <1>3, <1>4 DEF RequestsInv

LEMMA ArriveStep ==
    ASSUME RequestsInv, NEW r \in Requests, NEW route \in Routes, NEW carries \in Carried,
           Arrive(r, route, carries)
    PROVE  RequestsInv'
  <1> DEFINE q == Request("token", route, carries, 0)
  <1>1. q \in RequestRecords /\ q.at = "token" /\ ~q.admitted
    BY RequestsOK DEF Request, RequestRecords, Steps, Brings
  <1>2. Caused(q)
    BY <1>1 DEF Caused
  <1>3. Progress(r, Seen(q, revoked, granted))
    BY DEF Arrive, Progress
  <1> HIDE DEF q
  <1>4. QED
    BY <1>1, <1>2, <1>3, SeenFields, ProgressKeepsInv

LEMMA FindTokenStep ==
    ASSUME RequestsInv, NEW r \in Requests, FindToken(r)
    PROVE  RequestsInv'
  <1> DEFINE q == request[r]
             t == TokenOf(q.carries)
  <1>1. /\ q \in RequestRecords /\ q.at = "token"
        /\ Noted(q, revoked, granted) /\ Caused(q)
        /\ UNCHANGED <<revoked, granted>>
    BY DEF FindToken, RequestsInv, Typed, OnItsWay
  <1>2. CASE t = NoToken
    <2> DEFINE e == EndsWith(q, DefaultStatus)
    <2>1. Progress(r, e)
      BY <1>2, RequestsOK DEF FindToken, Progress
    <2>2. /\ e \in RequestRecords /\ e.at \in {"cookie_removed", "response"} /\ e.carries = q.carries
          /\ e.at = "response" => e.status = 400
          /\ e.live = q.live /\ e.dead = q.dead /\ e.allowed = q.allowed /\ e.denied = q.denied
          /\ e.admitted = q.admitted
      BY <1>1, EndsWithFields DEF DefaultStatus, Statuses
    <2> HIDE DEF e
    <2>3. Noted(e, revoked, granted)
      BY <1>1, <2>2 DEF Noted
    <2>4. Caused(e)
      BY <1>1, <1>2, <2>2, RequestsOK DEF Caused
    <2>5. QED
      BY <2>1, <2>2, <2>3, <2>4, ProgressKeepsInv
  <1>3. CASE t # NoToken /\ t \in Garbage
    <2> DEFINE e == EndsWith(q, 401)
    <2>1. Progress(r, e)
      BY <1>3 DEF FindToken, Progress
    <2>2. /\ e \in RequestRecords /\ e.at \in {"cookie_removed", "response"} /\ e.carries = q.carries
          /\ e.at = "response" => e.status = 401
          /\ e.live = q.live /\ e.dead = q.dead /\ e.allowed = q.allowed /\ e.denied = q.denied
          /\ e.admitted = q.admitted
      BY <1>1, EndsWithFields DEF Statuses
    <2> HIDE DEF e
    <2>3. Noted(e, revoked, granted)
      BY <1>1, <2>2 DEF Noted
    <2>4. Caused(e)
      BY <1>1, <1>3, <2>2, RequestsOK DEF Caused
    <2>5. QED
      BY <2>1, <2>2, <2>3, <2>4, ProgressKeepsInv
  <1>4. CASE t # NoToken /\ t \notin Garbage
    <2> DEFINE e == Moves(r, "revocation")
    <2>1. Progress(r, e)
      BY <1>4 DEF FindToken, Progress
    <2>2. /\ e \in RequestRecords /\ e.at = "revocation" /\ e.carries = q.carries
          /\ e.live = q.live /\ e.dead = q.dead /\ e.allowed = q.allowed /\ e.denied = q.denied
          /\ e.admitted = q.admitted
      BY MovesFields DEF Steps
    <2>3. t \in Tokens
      BY <1>1, <1>4, TokensCarried DEF RequestRecords
    <2> HIDE DEF e
    <2>4. Noted(e, revoked, granted)
      BY <1>1, <2>2 DEF Noted
    <2>5. Caused(e)
      BY <1>1, <2>2, <2>3 DEF Caused
    <2>6. QED
      BY <2>1, <2>2, <2>4, <2>5, ProgressKeepsInv
  <1>5. QED
    BY <1>2, <1>3, <1>4

LEMMA CheckRevocationStep ==
    ASSUME RequestsInv, NEW r \in Requests, CheckRevocation(r)
    PROVE  RequestsInv'
  <1> DEFINE q == request[r]
             t == TokenOf(q.carries)
  <1>1. /\ q \in RequestRecords /\ q.at = "revocation"
        /\ Noted(q, revoked, granted) /\ Caused(q)
    BY DEF CheckRevocation, RequestsInv, Typed, OnItsWay
  <1>2. CASE Progress(r, Moves(r, "permission_check")) /\ t \notin revoked
    <2> DEFINE e == Moves(r, "permission_check")
    <2>1. /\ e \in RequestRecords /\ e.at = "permission_check" /\ e.carries = q.carries
          /\ e.live = q.live /\ e.dead = q.dead /\ e.allowed = q.allowed /\ e.denied = q.denied
          /\ e.admitted = q.admitted
      BY MovesFields DEF Steps
    <2>2. t \in Tokens /\ q.live
      BY <1>1, <1>2 DEF Caused, Noted
    <2> HIDE DEF e
    <2>3. Noted(e, revoked, granted) /\ Caused(e)
      BY <1>1, <2>1, <2>2 DEF Noted, Caused
    <2>4. QED
      BY <1>2, <2>1, <2>3, ProgressKeepsInv DEF e
  <1>3. CASE Progress(r, EndsWith(q, 401)) /\ t \in revoked
    <2> DEFINE e == EndsWith(q, 401)
    <2>1. /\ e \in RequestRecords /\ e.at \in {"cookie_removed", "response"} /\ e.carries = q.carries
          /\ e.at = "response" => e.status = 401
          /\ e.live = q.live /\ e.dead = q.dead /\ e.allowed = q.allowed /\ e.denied = q.denied
          /\ e.admitted = q.admitted
      BY <1>1, EndsWithFields DEF Statuses
    <2>2. q.dead
      BY <1>1, <1>3 DEF Noted
    <2>3. Progress(r, e)
      BY <1>3
    <2> HIDE DEF e
    <2>4. Noted(e, revoked, granted) /\ Caused(e)
      BY <1>1, <2>1, <2>2 DEF Noted, Caused
    <2>5. QED
      BY <2>1, <2>3, <2>4, ProgressKeepsInv
  <1>4. CASE Progress(r, EndsWith([q EXCEPT !.faulted = TRUE], DefaultStatus))
    <2> DEFINE f == [q EXCEPT !.faulted = TRUE]
               e == EndsWith(f, DefaultStatus)
    <2>1. /\ f \in RequestRecords /\ f.faulted /\ f.carries = q.carries
          /\ f.live = q.live /\ f.dead = q.dead /\ f.allowed = q.allowed /\ f.denied = q.denied
          /\ f.admitted = q.admitted
      BY <1>1, FaultedFields
    <2> HIDE DEF f
    <2>2. /\ e \in RequestRecords /\ e.at \in {"cookie_removed", "response"} /\ e.carries = q.carries
          /\ e.at = "response" => e.status = 400
          /\ e.live = q.live /\ e.dead = q.dead /\ e.allowed = q.allowed /\ e.denied = q.denied
          /\ e.admitted = q.admitted
          /\ e.faulted
      BY <2>1, EndsWithFields DEF DefaultStatus, Statuses
    <2>3. Progress(r, e)
      BY <1>4 DEF f
    <2> HIDE DEF e
    <2>4. Noted(e, revoked, granted) /\ Caused(e)
      BY <1>1, <2>2 DEF Noted, Caused
    <2>5. QED
      BY <2>2, <2>3, <2>4, ProgressKeepsInv
  <1>5. QED
    BY <1>2, <1>3, <1>4 DEF CheckRevocation, ValidToken, Progress

LEMMA CheckPermissionStep ==
    ASSUME RequestsInv, NEW r \in Requests, CheckPermission(r)
    PROVE  RequestsInv'
  <1> DEFINE q == request[r]
             t == TokenOf(q.carries)
             s == IF q.route = "permission" THEN StatusOf("db") ELSE 403
  <1>1. /\ q \in RequestRecords /\ q.at = "permission_check"
        /\ Noted(q, revoked, granted) /\ Caused(q)
    BY DEF CheckPermission, RequestsInv, Typed, OnItsWay
  <1>2. t \in Tokens /\ q.live
    BY <1>1 DEF Caused
  <1>3. CASE Progress(r, [Moves(r, "handler") EXCEPT !.admitted = TRUE]) /\ t \in granted
    <2> DEFINE m == Moves(r, "handler")
               e == [m EXCEPT !.admitted = TRUE]
    <2>0. /\ m \in RequestRecords /\ m.at = "handler" /\ m.carries = q.carries
          /\ m.live = q.live /\ m.dead = q.dead /\ m.allowed = q.allowed /\ m.denied = q.denied
      BY MovesFields DEF Steps
    <2> HIDE DEF m
    <2>1. /\ e \in RequestRecords /\ e.at = "handler" /\ e.carries = q.carries
          /\ e.live = q.live /\ e.dead = q.dead /\ e.allowed = q.allowed /\ e.denied = q.denied
          /\ e.admitted
      BY <2>0, AdmittedFields
    <2>2. q.allowed
      BY <1>1, <1>3 DEF Noted
    <2>3. Progress(r, e)
      BY <1>3 DEF m
    <2> HIDE DEF e
    <2>4. Noted(e, revoked, granted) /\ Caused(e)
      BY <1>1, <1>2, <2>1, <2>2 DEF Noted, Caused
    <2>5. QED
      BY <2>1, <2>3, <2>4, ProgressKeepsInv
  <1>4. CASE Progress(r, EndsWith(q, 403)) /\ t \notin granted
    <2> DEFINE e == EndsWith(q, 403)
    <2>1. /\ e \in RequestRecords /\ e.at \in {"cookie_removed", "response"} /\ e.carries = q.carries
          /\ e.at = "response" => e.status = 403
          /\ e.live = q.live /\ e.dead = q.dead /\ e.allowed = q.allowed /\ e.denied = q.denied
          /\ e.admitted = q.admitted
      BY <1>1, EndsWithFields DEF Statuses
    <2>2. q.denied
      BY <1>1, <1>4 DEF Noted
    <2>3. Progress(r, e)
      BY <1>4
    <2> HIDE DEF e
    <2>4. Noted(e, revoked, granted) /\ Caused(e)
      BY <1>1, <2>1, <2>2 DEF Noted, Caused
    <2>5. QED
      BY <2>1, <2>3, <2>4, ProgressKeepsInv
  <1>5. CASE Progress(r, EndsWith([q EXCEPT !.faulted = TRUE], s))
    <2> DEFINE f == [q EXCEPT !.faulted = TRUE]
               e == EndsWith(f, s)
    <2>1. /\ f \in RequestRecords /\ f.faulted /\ f.carries = q.carries /\ f.route = q.route
          /\ f.live = q.live /\ f.dead = q.dead /\ f.allowed = q.allowed /\ f.denied = q.denied
          /\ f.admitted = q.admitted
          /\ (Optional(f) <=> Optional(q))
      BY <1>1, FaultedFields
    <2> HIDE DEF f
    <2>2. s \in {403, 500} /\ (s = 403 <=> q.route # "permission")
      BY StatusesKnown
    <2> HIDE DEF s
    <2>3. /\ e \in RequestRecords /\ e.at \in {"cookie_removed", "response"} /\ e.carries = q.carries
          /\ e.at = "response" => e.status = s /\ ~Optional(q)
          /\ e.live = q.live /\ e.dead = q.dead /\ e.allowed = q.allowed /\ e.denied = q.denied
          /\ e.admitted = q.admitted
          /\ e.faulted /\ e.route = q.route
      BY <2>1, <2>2, EndsWithFields DEF Statuses
    <2>4. Progress(r, e)
      BY <1>5 DEF f
    <2>5. ~Optional(q) => q.route # "test_token"
      BY <1>1 DEF Optional
    <2>6. q.route \in Routes
      BY <1>1 DEF RequestRecords
    <2> HIDE DEF e
    <2>7. Noted(e, revoked, granted) /\ Caused(e)
      BY <1>1, <2>2, <2>3, <2>5, <2>6 DEF Noted, Caused, Routes
    <2>8. QED
      BY <2>3, <2>4, <2>7, ProgressKeepsInv
  <1>6. QED
    BY <1>3, <1>4, <1>5 DEF CheckPermission, Progress

LEMMA RunHandlerStep ==
    ASSUME RequestsInv, NEW r \in Requests, RunHandler(r)
    PROVE  RequestsInv'
  <1> DEFINE q == request[r]
  <1>1. /\ q \in RequestRecords /\ q.at = "handler"
        /\ Noted(q, revoked, granted) /\ Caused(q)
    BY DEF RunHandler, RequestsInv, Typed, OnItsWay
  <1>2. PICK status \in Statuses : Progress(r, EndsWith(q, status))
    BY StatusesKnown DEF RunHandler, Progress, Statuses
  <1> DEFINE e == EndsWith(q, status)
  <1>3. /\ e \in RequestRecords /\ e.at = "response" /\ e.carries = q.carries
        /\ e.live = q.live /\ e.dead = q.dead /\ e.allowed = q.allowed /\ e.denied = q.denied
        /\ e.admitted = q.admitted
    BY <1>1, EndsWithFields DEF Optional
  <1>4. Progress(r, e)
    BY <1>2
  <1> HIDE DEF e
  <1>5. Noted(e, revoked, granted) /\ Caused(e)
    BY <1>1, <1>3 DEF Noted, Caused
  <1>6. QED
    BY <1>3, <1>4, <1>5, ProgressKeepsInv

LEMMA OverStep ==
    ASSUME RequestsInv, NEW r \in Requests, Answer(r) \/ Drop(r)
    PROVE  RequestsInv'
  <1>1. request[r] \in RequestRecords
    BY DEF RequestsInv, Typed
  <1>2. PICK at \in {"answered", "dropped"}, status \in Statuses \union {0} :
               Progress(r, Over(at, status))
    BY <1>1 DEF Answer, Drop, Progress, RequestRecords
  <1> DEFINE e == Over(at, status)
  <1>3. e \in RequestRecords /\ e.at \in {"answered", "dropped"} /\ ~e.admitted
    BY DEF Over, Request, Nowhere, RequestRecords, Steps, Routes, Brings
  <1>4. Progress(r, e)
    BY <1>2
  <1> HIDE DEF e
  <1>5. ~OnItsWay(e) /\ Caused(e)
    BY <1>3 DEF OnItsWay, Caused
  <1>6. QED
    BY <1>3, <1>4, <1>5, ProgressKeepsInv

(* Others log tokens out and change what users may do. *)
LEMMA WorldStep ==
    ASSUME RequestsInv, NEW t \in Tokens, Revoke(t) \/ Change(t)
    PROVE  RequestsInv'
  <1>1. /\ revoked' \subseteq Tokens /\ granted' \subseteq Tokens
        /\ request' = Observed(revoked', granted')
    BY DEF Revoke, Change, RequestsInv, Typed
  <1>2. ASSUME NEW r \in Requests
        PROVE  /\ request'[r] \in RequestRecords
               /\ Caused(request'[r])
               /\ OnItsWay(request'[r]) => Noted(request'[r], revoked', granted')
    <2>1. request[r] \in RequestRecords /\ Caused(request[r])
      BY DEF RequestsInv, Typed
    <2>2. CASE r \in InFlight
      <3>1. request'[r] = Seen(request[r], revoked', granted')
        BY <1>1, <2>2 DEF Observed
      <3>2. QED
        BY <2>1, <3>1, SeenFields
    <2>3. CASE r \notin InFlight
      <3>1. request'[r] = request[r] /\ ~OnItsWay(request[r])
        BY <1>1, <2>3 DEF Observed, InFlight, OnItsWay
      <3>2. QED
        BY <2>1, <3>1
    <2>4. QED
      BY <2>2, <2>3
  <1>3. Typed'
    BY <1>1, <1>2 DEF Typed, Observed
  <1>4. QED
    BY <1>2, <1>3 DEF RequestsInv, OnItsWay, Noted, Caused

-----------------------------------------------------------------------------
(* Every request that has got far has got there for a cause that was noted.*)
LEMMA RequestsInvariant == RequestsSpec => []RequestsInv
  <1>1. ASSUME RequestsInv, [RequestsNext]_requestVars PROVE RequestsInv'
    <2>1. CASE UNCHANGED requestVars
      BY <1>1, <2>1 DEF requestVars, RequestsInv, Typed, OnItsWay, Noted, Caused
    <2>2. CASE RequestsNext
      BY <1>1, <2>2, ArriveStep, FindTokenStep, CheckRevocationStep, CheckPermissionStep,
         RunHandlerStep, OverStep, WorldStep DEF RequestsNext
    <2>3. QED
      BY <1>1, <2>1, <2>2
  <1>2. QED
    BY <1>1, RequestsInitInv, PTL DEF RequestsSpec

(* A handler runs only for a token that was live and a user who was        *)
(* allowed, and the answers that are given without it (400, 401, 403, 500) *)
(* and the removal of the cookie have their causes, whatever is logged out *)
(* or changed while the request is on its way.  What a handler answers is  *)
(* its own, 401 and 403 included.                                          *)
THEOREM AnswersHaveCauses == RequestsSpec => []AnsweredForCause
  <1>1. RequestsInv => AnsweredForCause
    BY DEF RequestsInv, Caused, AnsweredForCause
  <1>2. QED
    BY <1>1, RequestsInvariant, PTL

-----------------------------------------------------------------------------
(* The counters *)

Succeeded == {r \in Requests : request[r].at = "answered" /\ Success(request[r].status)}

(* CountersAgree, with the counters natural numbers. *)
CountersOK ==
    /\ gauge \in Int /\ total \in Int /\ successful \in Int /\ failed \in Int /\ lost \in Int
    /\ gauge = Cardinality(InFlight) + lost
    /\ total = successful + failed + gauge
    /\ successful = Cardinality(Succeeded)

(* A request that goes on is under way still, and none is answered. *)
LEMMA RequestOnward ==
    ASSUME RequestsInv, CountersOK, UNCHANGED Counters,
           request' \in [Requests -> RequestRecords],
           \A r \in Requests :
             /\ OnItsWay(request[r]) <=> OnItsWay(request'[r])
             /\ ~OnItsWay(request[r]) =>
                  request'[r].at = request[r].at /\ request'[r].status = request[r].status
    PROVE  CountersOK'
  <1>1. InFlight' = InFlight
    BY DEF InFlight, OnItsWay
  <1>2. Succeeded' = Succeeded
    BY DEF Succeeded, OnItsWay
  <1>3. QED
    BY <1>1, <1>2 DEF CountersOK, Counters

LEMMA InFlightIsFinite == IsFiniteSet(InFlight) /\ IsFiniteSet(Succeeded)
  BY RequestsOK, FS_Subset DEF InFlight, Succeeded

LEMMA CountArrival ==
    ASSUME RequestsInv, CountersOK, NEW r \in Requests, NEW route \in Routes, NEW carries \in Carried,
           Arrive(r, route, carries)
    PROVE  CountersOK'
  <1> DEFINE q == Request("token", route, carries, 0)
  <1>1. q \in RequestRecords /\ q.at = "token"
    BY RequestsOK DEF Request, RequestRecords, Steps, Brings
  <1>2. request' = [request EXCEPT ![r] = Seen(q, revoked, granted)]
    BY DEF Arrive
  <1> HIDE DEF q
  <1>3. /\ request'[r].at = "token" /\ request[r].at = "nowhere"
        /\ \A o \in Requests : o # r => request'[o] = request[o]
    BY <1>1, <1>2, SeenFields DEF RequestsInv, Typed, Arrive
  <1>4. InFlight' = InFlight \union {r} /\ r \notin InFlight
    BY <1>3 DEF InFlight
  <1>5. Cardinality(InFlight') = Cardinality(InFlight) + 1
    BY <1>4, InFlightIsFinite, FS_AddElement
  <1>6. Succeeded' = Succeeded
    BY <1>3 DEF Succeeded
  <1>7. Cardinality(InFlight) \in Nat
    BY InFlightIsFinite, FS_CardinalityType
  <1>8. QED
    BY <1>5, <1>6, <1>7 DEF CountersOK, Arrive

LEMMA CountAnswer ==
    ASSUME RequestsInv, CountersOK, NEW r \in Requests, Answer(r)
    PROVE  CountersOK'
  <1> DEFINE q == request[r]
  <1>1. /\ q \in RequestRecords /\ q.at \in {"response", "cookie_removed"}
        /\ request' = [request EXCEPT ![r] = Over("answered", q.status)]
    BY DEF Answer, RequestsInv, Typed
  <1>2. /\ request'[r].at = "answered" /\ request'[r].status = q.status
        /\ \A o \in Requests : o # r => request'[o] = request[o]
    BY <1>1 DEF Over, Request, RequestsInv, Typed
  <1>3. InFlight' = InFlight \ {r} /\ r \in InFlight
    BY <1>1, <1>2 DEF InFlight
  <1>4. Cardinality(InFlight') = Cardinality(InFlight) - 1
    BY <1>3, InFlightIsFinite, FS_RemoveElement
  <1>5. Cardinality(InFlight) \in Nat /\ Cardinality(Succeeded) \in Nat
    BY InFlightIsFinite, FS_CardinalityType
  <1>6. gauge' = gauge - 1 /\ UNCHANGED <<total, lost>>
    BY DEF Answer, GaugeAfter
  <1>7. CASE Success(q.status)
    <2>1. Succeeded' = Succeeded \union {r} /\ r \notin Succeeded
      BY <1>1, <1>2, <1>7 DEF Succeeded
    <2>2. Cardinality(Succeeded') = Cardinality(Succeeded) + 1
      BY <2>1, InFlightIsFinite, FS_AddElement
    <2>3. successful' = successful + 1 /\ failed' = failed
      BY <1>7 DEF Answer
    <2>4. QED
      BY <1>4, <1>5, <1>6, <2>2, <2>3 DEF CountersOK
  <1>8. CASE ~Success(q.status)
    <2>1. Succeeded' = Succeeded
      BY <1>1, <1>2, <1>8 DEF Succeeded
    <2>2. failed' = failed + 1 /\ successful' = successful
      BY <1>8 DEF Answer
    <2>3. QED
      BY <1>4, <1>5, <1>6, <2>1, <2>2 DEF CountersOK
  <1>9. QED
    BY <1>7, <1>8

LEMMA CountDrop ==
    ASSUME RequestsInv, CountersOK, NEW r \in Requests, Drop(r)
    PROVE  CountersOK'
  <1>1. /\ r \in InFlight /\ lost' = lost + 1
        /\ request' = [request EXCEPT ![r] = Over("dropped", 0)]
        /\ UNCHANGED <<gauge, total, successful, failed>>
    BY DEF Drop
  <1>2. /\ request'[r].at = "dropped"
        /\ \A o \in Requests : o # r => request'[o] = request[o]
    BY <1>1 DEF Over, Request, RequestsInv, Typed
  <1>3. InFlight' = InFlight \ {r} /\ Succeeded' = Succeeded
    BY <1>1, <1>2 DEF InFlight, Succeeded
  <1>4. Cardinality(InFlight') = Cardinality(InFlight) - 1
    BY <1>1, <1>3, InFlightIsFinite, FS_RemoveElement
  <1>5. Cardinality(InFlight) \in Nat
    BY InFlightIsFinite, FS_CardinalityType
  <1>6. QED
    BY <1>1, <1>3, <1>4, <1>5 DEF CountersOK

(* The steps between the two halves of request_metrics leave the counters  *)
(* alone and the request under way.                                        *)
LEMMA CountOnward ==
    ASSUME RequestsInv, CountersOK, NEW r \in Requests,
           FindToken(r) \/ CheckRevocation(r) \/ CheckPermission(r) \/ RunHandler(r)
    PROVE  CountersOK'
  <1>1. /\ request[r] \in RequestRecords
        /\ request[r].at \in {"token", "revocation", "permission_check", "handler"}
        /\ UNCHANGED Counters
    BY DEF FindToken, CheckRevocation, CheckPermission, RunHandler, RequestsInv, Typed
  <1>2. RequestsInv'
    BY FindTokenStep, CheckRevocationStep, CheckPermissionStep, RunHandlerStep
  <1>3. \A s \in Statuses : EndsWith(request[r], s).at \in {"cookie_removed", "response"}
    BY <1>1, EndsWithFields
  <1>4. \A s \in Statuses : EndsWith([request[r] EXCEPT !.faulted = TRUE], s).at
                             \in {"cookie_removed", "response"}
    BY <1>1, FaultedFields, EndsWithFields
  <1>5. \A at \in Steps : Moves(r, at).at = at
    BY MovesFields
  <1>6. PICK q : /\ request' = [request EXCEPT ![r] = q]
                 /\ q.at \in {"cookie_removed", "response", "revocation", "permission_check", "handler"}
    <2>1. /\ DefaultStatus \in Statuses /\ 200 \in Statuses /\ 401 \in Statuses /\ 403 \in Statuses
          /\ StatusOf("db") \in Statuses /\ Reported \union BodyRejections \subseteq Statuses
      BY StatusesKnown DEF Statuses, DefaultStatus
    <2>2. "revocation" \in Steps /\ "permission_check" \in Steps /\ "handler" \in Steps
      BY DEF Steps
    <2>3. CASE FindToken(r)
      <3>1. PICK q : /\ request' = [request EXCEPT ![r] = q]
                     /\ q \in {EndsWith(request[r], DefaultStatus), EndsWith(request[r], 401),
                               Moves(r, "revocation")}
        BY <2>3, RequestsOK DEF FindToken
      <3>2. q.at \in {"cookie_removed", "response", "revocation", "permission_check", "handler"}
        BY <1>3, <1>5, <2>1, <2>2, <3>1
      <3>3. QED
        BY <3>1, <3>2
    <2>4. CASE CheckRevocation(r)
      <3>1. PICK q : /\ request' = [request EXCEPT ![r] = q]
                     /\ q \in {Moves(r, "permission_check"), EndsWith(request[r], 401),
                               EndsWith([request[r] EXCEPT !.faulted = TRUE], DefaultStatus)}
        BY <2>4 DEF CheckRevocation
      <3>2. q.at \in {"cookie_removed", "response", "revocation", "permission_check", "handler"}
        BY <1>3, <1>4, <1>5, <2>1, <2>2, <3>1
      <3>3. QED
        BY <3>1, <3>2
    <2>5. CASE CheckPermission(r)
      <3> DEFINE passed == [Moves(r, "handler") EXCEPT !.admitted = TRUE]
      <3>1. PICK q : /\ request' = [request EXCEPT ![r] = q]
                     /\ q \in {passed,
                               EndsWith(request[r], 403),
                               EndsWith([request[r] EXCEPT !.faulted = TRUE], StatusOf("db")),
                               EndsWith([request[r] EXCEPT !.faulted = TRUE], 403)}
        BY <2>5 DEF CheckPermission
      <3>2. passed.at = "handler"
        BY <2>2, MovesFields, AdmittedFields
      <3> HIDE DEF passed
      <3>3. q.at \in {"cookie_removed", "response", "revocation", "permission_check", "handler"}
        BY <1>3, <1>4, <2>1, <3>1, <3>2
      <3>4. QED
        BY <3>1, <3>3
    <2>6. CASE RunHandler(r)
      BY <1>3, <2>1, <2>6 DEF RunHandler
    <2>7. QED
      BY <2>3, <2>4, <2>5, <2>6
  <1>7. \A o \in Requests : /\ OnItsWay(request[o]) <=> OnItsWay(request'[o])
                            /\ ~OnItsWay(request[o]) => request'[o] = request[o]
    BY <1>1, <1>6 DEF OnItsWay, RequestsInv, Typed
  <1>8. QED
    BY <1>1, <1>2, <1>7, RequestOnward DEF RequestsInv, Typed

LEMMA CountWorld ==
    ASSUME RequestsInv, CountersOK, NEW t \in Tokens, Revoke(t) \/ Change(t)
    PROVE  CountersOK'
  <1>1. request' = Observed(revoked', granted') /\ UNCHANGED Counters
    BY DEF Revoke, Change
  <1>2. ASSUME NEW r \in Requests
        PROVE  request'[r].at = request[r].at /\ request'[r].status = request[r].status
    <2>1. request[r] \in RequestRecords
      BY DEF RequestsInv, Typed
    <2>2. QED
      BY <1>1, <2>1, SeenFields DEF Observed
  <1>3. RequestsInv'
    BY WorldStep
  <1>4. \A r \in Requests : OnItsWay(request[r]) <=> OnItsWay(request'[r])
    BY <1>2 DEF OnItsWay
  <1>5. QED
    BY <1>1, <1>2, <1>3, <1>4, RequestOnward DEF RequestsInv, Typed

LEMMA CountersInit == RequestsInit => CountersOK
  <1> SUFFICES ASSUME RequestsInit PROVE CountersOK
    OBVIOUS
  <1>1. \A r \in Requests : request[r].at = "nowhere"
    BY DEF RequestsInit, Nowhere, Request
  <1>2. InFlight = {} /\ Succeeded = {}
    BY <1>1 DEF InFlight, Succeeded
  <1>3. QED
    BY <1>2, FS_EmptySet DEF RequestsInit, CountersOK

(* The four counters of the metrics agree with each other and with what is *)
(* under way, but for the requests that were dropped, which the gauge      *)
(* counts for ever.                                                        *)
THEOREM CountersAlwaysAgree == RequestsSpec => []CountersAgree
  <1>1. ASSUME RequestsInv, CountersOK, [RequestsNext]_requestVars PROVE CountersOK'
    <2>1. CASE UNCHANGED requestVars
      BY <1>1, <2>1 DEF requestVars, CountersOK, InFlight, Succeeded
    <2>2. CASE RequestsNext
      BY <1>1, <2>2, CountArrival, CountAnswer, CountDrop, CountOnward, CountWorld DEF RequestsNext
    <2>3. QED
      BY <1>1, <2>1, <2>2
  <1>2. CountersOK => CountersAgree
    BY DEF CountersOK, CountersAgree, Succeeded
  <1>3. QED
    BY <1>1, <1>2, CountersInit, RequestsInvariant, PTL DEF RequestsSpec

-----------------------------------------------------------------------------
(* Email changes *)

(* A change is alive while a request works on it or the map has it.        *)
Alive(c) ==
    \/ c = change /\ change # NoChange
    \/ \E t \in Tasks : task[t] # Asleep /\ c = task[t].change

(* The number of a change tells it from every other, and nobody but the    *)
(* reader of its new address has got its second code.                      *)
Told ==
    /\ \A c \in Changes : Alive(c) => c.no <= started
    /\ \A c, d \in Changes : Alive(c) /\ Alive(d) /\ c.no = d.no => c.to = d.to
    /\ \A m \in Mailboxes, n \in 1 .. MaxChanges :
         <<n, "new">> \in mailed[m] =>
           n <= started /\ \A c \in Changes : Alive(c) /\ c.no = n => c.to = m

(* Who has confirmed a change that is about to be made reads both codes.   *)
Proven(q) ==
    /\ q.change.to \in q.reads
    /\ <<q.change.no, "new">> \in mailed[q.change.to]
    /\ \E m \in q.reads : <<q.change.no, "old">> \in mailed[m]

(* The inductive invariant of the email changes. *)
EmailInv ==
    /\ EmailTypeOK
    /\ Told
    /\ \A t \in Tasks : task[t].at = "changing" => Proven(task[t])

-----------------------------------------------------------------------------
(* The states of a request *)

LEMMA WorkingFields ==
    ASSUME NEW q \in RequestStates, q # Asleep
    PROVE  /\ q.change \in Changes
           /\ q.at \in {"mail_old", "mail_new", "insert", "changing", "remove"}
           /\ q.at \in {"mail_old", "mail_new", "insert"} =>
                q \in [at : {"mail_old", "mail_new", "insert"}, change : Changes, from : Mailboxes]
           /\ q.at \in {"changing", "remove"} =>
                q \in [at : {"changing", "remove"}, change : Changes, reads : SUBSET Mailboxes]
  BY DEF RequestStates

LEMMA AsleepFields == Asleep \in RequestStates /\ Asleep.at = "idle"
  BY DEF Asleep, RequestStates

LEMMA ChangeFields ==
    ASSUME NEW c \in Changes
    PROVE  c.no \in 1 .. MaxChanges /\ c.to \in Mailboxes
  BY DEF Changes

(* What is alive dies or goes on, and nothing else comes to life.          *)
LEMMA NothingNew ==
    ASSUME EmailInv, UNCHANGED <<started, mailed>>,
           \A c \in Changes : Alive(c)' => Alive(c)
    PROVE  Told'
  BY DEF EmailInv, Told

LEMMA TaskType ==
    ASSUME EmailTypeOK, NEW t \in Tasks, NEW q \in RequestStates, Becomes(t, q)
    PROVE  /\ task' \in [Tasks -> RequestStates]
           /\ task'[t] = q /\ \A o \in Tasks : o # t => task'[o] = task[o]
  BY DEF EmailTypeOK, Becomes

(* The request ends, or goes on with its change; the map loses its entry   *)
(* or gets the change of this request.                                     *)
LEMMA OnwardStep ==
    ASSUME EmailInv, NEW t \in Tasks, NEW q \in RequestStates, Becomes(t, q),
           UNCHANGED <<started, mailed, sweeping>>,
           email' \in Mailboxes,
           change' \in Changes \union {NoChange},
           q # Asleep => \/ task[t] # Asleep /\ q.change = task[t].change
                         \/ q.change = change /\ change # NoChange,
           change' # NoChange => \/ change' = change
                                 \/ task[t] # Asleep /\ change' = task[t].change,
           q.at = "changing" => Proven(q)
    PROVE  EmailInv'
  <1>1. /\ task' \in [Tasks -> RequestStates]
        /\ task'[t] = q /\ \A o \in Tasks : o # t => task'[o] = task[o]
    BY TaskType DEF EmailInv
  <1>2. EmailTypeOK'
    BY <1>1 DEF EmailInv, EmailTypeOK
  <1>3. \A c \in Changes : Alive(c)' => Alive(c)
    BY <1>1 DEF Alive
  <1>4. Told'
    BY <1>3, NothingNew
  <1>5. \A o \in Tasks : task'[o].at = "changing" => Proven(task'[o])
    BY <1>1 DEF EmailInv
  <1>6. QED
    BY <1>2, <1>4, <1>5 DEF EmailInv, Proven

-----------------------------------------------------------------------------
LEMMA EmailInitInv == EmailInit => EmailInv
  <1> SUFFICES ASSUME EmailInit PROVE EmailInv
    OBVIOUS
  <1>1. EmailTypeOK
    <2>1. task \in [Tasks -> RequestStates]
      BY AsleepFields DEF EmailInit
    <2>2. mailed \in [Mailboxes -> SUBSET Codes]
      BY DEF EmailInit
    <2>3. started \in 0 .. MaxChanges
      BY EmailChangeOK DEF EmailInit
    <2>4. QED
      BY <2>1, <2>2, <2>3, EmailChangeOK DEF EmailInit, EmailTypeOK
  <1>2. Told
    BY DEF EmailInit, Told, Alive
  <1>3. QED
    BY <1>1, <1>2, AsleepFields DEF EmailInit, EmailInv

LEMMA StartStep ==
    ASSUME EmailInv, NEW t \in Tasks, NEW to \in Mailboxes, Start(t, to)
    PROVE  EmailInv'
  <1> DEFINE c0 == [no |-> started + 1, to |-> to]
             q  == [at |-> "mail_old", change |-> c0, from |-> email]
  <1>1. /\ started' = started + 1 /\ started \in 0 .. MaxChanges /\ started < MaxChanges
        /\ Becomes(t, q) /\ UNCHANGED <<email, change, sweeping, mailed>>
    BY DEF Start, EmailInv, EmailTypeOK
  <1>2. c0 \in Changes /\ c0.no = started + 1
    BY <1>1, EmailChangeOK DEF Changes
  <1>3. q \in RequestStates /\ q.change = c0 /\ q.at = "mail_old"
    BY <1>2 DEF RequestStates, EmailInv, EmailTypeOK
  <1> HIDE DEF c0, q
  <1>4. /\ task' \in [Tasks -> RequestStates]
        /\ task'[t] = q /\ \A o \in Tasks : o # t => task'[o] = task[o]
    BY <1>1, <1>3, TaskType DEF EmailInv
  <1>5. EmailTypeOK'
    BY <1>1, <1>4, EmailChangeOK DEF EmailInv, EmailTypeOK
  <1>6. \A c \in Changes : Alive(c)' => c = c0 \/ Alive(c)
    BY <1>1, <1>3, <1>4 DEF Alive
  <1>7. \A c \in Changes : Alive(c) => c.no <= started /\ c.no \in 1 .. MaxChanges
    BY ChangeFields DEF EmailInv, Told
  <1>8. Told'
    <2>1. \A c \in Changes : Alive(c)' => c.no <= started'
      BY <1>1, <1>2, <1>6, <1>7
    <2>2. \A c, d \in Changes : Alive(c)' /\ Alive(d)' /\ c.no = d.no => c.to = d.to
      BY <1>1, <1>2, <1>6, <1>7 DEF EmailInv, Told
    <2>3. ASSUME NEW m \in Mailboxes, NEW n \in 1 .. MaxChanges, <<n, "new">> \in mailed'[m]
          PROVE  n <= started' /\ \A c \in Changes : Alive(c)' /\ c.no = n => c.to = m
      <3>1. n <= started /\ \A c \in Changes : Alive(c) /\ c.no = n => c.to = m
        BY <1>1, <2>3 DEF EmailInv, Told
      <3>2. QED
        BY <1>1, <1>2, <1>6, <3>1
    <2>4. QED
      BY <2>1, <2>2, <2>3 DEF Told
  <1>9. \A o \in Tasks : task'[o].at = "changing" => Proven(task'[o])
    BY <1>3, <1>4 DEF EmailInv
  <1>10. QED
    BY <1>1, <1>5, <1>8, <1>9 DEF EmailInv, Proven

(* The mail with a code is delivered, or the request ends. *)
LEMMA MailStep ==
    ASSUME EmailInv, NEW t \in Tasks, NEW kind \in {"old", "new"}, NEW to \in Mailboxes,
           NEW next \in {"mail_new", "insert"},
           task[t].at \in {"mail_old", "mail_new"}, Mail(t, task[t].at, kind, to, next),
           kind = "new" => to = task[t].change.to
    PROVE  EmailInv'
  <1>1. task[t] \in RequestStates /\ task[t] # Asleep
    BY AsleepFields DEF EmailInv, EmailTypeOK
  <1>2. /\ task[t].change \in Changes
        /\ task[t] \in [at : {"mail_old", "mail_new", "insert"}, change : Changes, from : Mailboxes]
    BY <1>1, WorkingFields
  <1> DEFINE no == task[t].change.no
  <1>3. no \in 1 .. MaxChanges
    BY <1>2, ChangeFields
  <1>4. UNCHANGED <<email, change, sweeping, started>>
    BY DEF Mail
  <1>5. CASE Delivered(to, <<no, kind>>) /\ Becomes(t, [task[t] EXCEPT !.at = next])
    <2> DEFINE q == [task[t] EXCEPT !.at = next]
    <2>1. q \in RequestStates
      BY <1>2 DEF RequestStates
    <2>2. q.change = task[t].change /\ q.at = next /\ q # Asleep
      BY <1>2, AsleepFields
    <2>3. Becomes(t, q)
      BY <1>5
    <2> HIDE DEF q
    <2>4. /\ task' \in [Tasks -> RequestStates]
          /\ task'[t] = q /\ \A o \in Tasks : o # t => task'[o] = task[o]
      BY <2>1, <2>3, TaskType DEF EmailInv
    <2>5. /\ mailed' = [mailed EXCEPT ![to] = @ \union {<<no, kind>>}]
          /\ mailed \in [Mailboxes -> SUBSET Codes] /\ <<no, kind>> \in Codes
      BY <1>3, <1>5 DEF Delivered, EmailInv, EmailTypeOK, Codes
    <2> HIDE DEF no
    <2>6. /\ mailed' \in [Mailboxes -> SUBSET Codes]
          /\ \A m \in Mailboxes : mailed[m] \subseteq mailed'[m]
          /\ \A m \in Mailboxes : \A code \in mailed'[m] :
               code \in mailed[m] \/ (m = to /\ code = <<no, kind>>)
      BY <2>5
    <2>7. EmailTypeOK'
      BY <1>4, <2>4, <2>6 DEF EmailInv, EmailTypeOK
    <2>8. \A c \in Changes : Alive(c)' <=> Alive(c)
      BY <1>1, <1>4, <2>2, <2>4 DEF Alive
    <2>9. Told'
      <3>1. /\ \A c \in Changes : Alive(c)' => c.no <= started'
            /\ \A c, d \in Changes : Alive(c)' /\ Alive(d)' /\ c.no = d.no => c.to = d.to
        BY <1>4, <2>8 DEF EmailInv, Told
      <3>2. ASSUME NEW m \in Mailboxes, NEW n \in 1 .. MaxChanges, <<n, "new">> \in mailed'[m]
            PROVE  n <= started' /\ \A c \in Changes : Alive(c)' /\ c.no = n => c.to = m
        <4>1. CASE <<n, "new">> \in mailed[m]
          BY <1>4, <2>8, <4>1 DEF EmailInv, Told
        <4>2. CASE <<n, "new">> \notin mailed[m]
          <5>1. m = to /\ n = no /\ kind = "new"
            BY <2>6, <3>2, <4>2
          <5>2. Alive(task[t].change) /\ task[t].change.no = n /\ task[t].change.to = m
            BY <1>1, <5>1 DEF Alive, no
          <5>3. QED
            BY <1>2, <1>4, <2>8, <3>1, <5>2 DEF EmailInv, Told
        <4>3. QED
          BY <4>1, <4>2
      <3>3. QED
        BY <3>1, <3>2 DEF Told
    <2>10. ASSUME NEW o \in Tasks, task'[o].at = "changing"
           PROVE  Proven(task[o])'
      <3>1. o # t
        BY <2>2, <2>4, <2>10
      <3>2. task'[o] = task[o] /\ Proven(task[o]) /\ task[o] \in RequestStates /\ task[o] # Asleep
        BY <2>4, <2>10, <3>1, AsleepFields DEF EmailInv, EmailTypeOK
      <3>3. task[o].change \in Changes /\ task[o].reads \in SUBSET Mailboxes
        BY <2>10, <3>2, WorkingFields
      <3>4. task[o].change.to \in Mailboxes
        BY <3>3, ChangeFields
      <3>5. <<task[o].change.no, "new">> \in mailed'[task[o].change.to]
        BY <2>6, <3>2, <3>4 DEF Proven
      <3>6. PICK m \in task[o].reads : <<task[o].change.no, "old">> \in mailed[m]
        BY <3>2 DEF Proven
      <3>7. <<task[o].change.no, "old">> \in mailed'[m]
        BY <2>6, <3>3, <3>6
      <3>8. QED
        BY <3>2, <3>5, <3>6, <3>7 DEF Proven
    <2>11. QED
      BY <2>7, <2>9, <2>10 DEF EmailInv
  <1>6. CASE Becomes(t, Asleep) /\ UNCHANGED mailed
    BY <1>4, <1>6, AsleepFields, OnwardStep DEF EmailInv, EmailTypeOK
  <1>7. QED
    BY <1>5, <1>6 DEF Mail

(* Both codes were in mailboxes that the client reads, and the second is   *)
(* in that of the new address only.                                        *)
LEMMA ConfirmStep ==
    ASSUME EmailInv, NEW t \in Tasks, NEW reads \in SUBSET Mailboxes, Confirm(t, reads)
    PROVE  EmailInv'
  <1> DEFINE q == [at |-> "changing", change |-> change, reads |-> reads]
  <1>1. /\ change \in Changes /\ change # NoChange
        /\ Becomes(t, q) /\ UNCHANGED <<email, change, sweeping, started, mailed>>
    BY DEF Confirm, EmailInv, EmailTypeOK
  <1>2. q \in RequestStates
    BY <1>1 DEF RequestStates
  <1>3. q.change = change /\ q.reads = reads
    OBVIOUS
  <1>4. PICK m1 \in reads, m2 \in reads :
          <<change.no, "old">> \in mailed[m1] /\ <<change.no, "new">> \in mailed[m2]
    BY DEF Confirm, Accepted
  <1>5. Alive(change) /\ change.no \in 1 .. MaxChanges
    BY <1>1, ChangeFields DEF Alive
  <1>6. change.to = m2
    BY <1>1, <1>4, <1>5 DEF EmailInv, Told
  <1> HIDE DEF q
  <1>7. Proven(q)
    BY <1>3, <1>4, <1>6 DEF Proven
  <1>8. QED
    BY <1>1, <1>2, <1>3, <1>7, OnwardStep DEF EmailInv, EmailTypeOK

LEMMA ContinueStep ==
    ASSUME EmailInv, NEW t \in Tasks, Continue(t)
    PROVE  EmailInv'
  <1>1. task[t] \in RequestStates /\ task[t] # Asleep
    BY AsleepFields
    DEF Continue, MailOld, MailNew, InsertEntry, ChangeAddress, Refused, RemoveEntry, EmailInv,
       EmailTypeOK
  <1>2. task[t].change \in Changes /\ task[t].change.to \in Mailboxes
    BY <1>1, WorkingFields, ChangeFields
  <1>3. CASE MailOld(t)
    <2>1. task[t].from \in Mailboxes
      BY <1>1, <1>3, WorkingFields DEF MailOld
    <2>2. QED
      BY <1>3, <2>1, MailStep DEF MailOld
  <1>4. CASE MailNew(t)
    BY <1>2, <1>4, MailStep DEF MailNew
  <1>5. CASE InsertEntry(t)
    BY <1>1, <1>2, <1>5, AsleepFields, OnwardStep DEF InsertEntry, EmailInv, EmailTypeOK
  <1>6. CASE ChangeAddress(t)
    <2> DEFINE q == [task[t] EXCEPT !.at = "remove"]
    <2>1. task[t] \in [at : {"changing", "remove"}, change : Changes, reads : SUBSET Mailboxes]
      BY <1>1, <1>6, WorkingFields DEF ChangeAddress
    <2>2. q \in RequestStates
      BY <2>1 DEF RequestStates
    <2>3. q.change = task[t].change /\ q.at = "remove"
      BY <2>1
    <2>4. /\ Becomes(t, q) /\ email' = task[t].change.to
          /\ UNCHANGED <<change, sweeping, started, mailed>>
      BY <1>6 DEF ChangeAddress
    <2> HIDE DEF q
    <2>5. QED
      BY <1>1, <1>2, <2>2, <2>3, <2>4, OnwardStep DEF EmailInv, EmailTypeOK
  <1>7. CASE Refused(t)
    BY <1>1, <1>7, AsleepFields, OnwardStep DEF Refused, EmailInv, EmailTypeOK
  <1>8. CASE RemoveEntry(t)
    BY <1>1, <1>8, AsleepFields, OnwardStep DEF RemoveEntry, EmailInv, EmailTypeOK
  <1>9. QED
    BY <1>3, <1>4, <1>5, <1>6, <1>7, <1>8 DEF Continue

(* The sweeper, and an administrator who sets the address. *)
LEMMA OthersStep ==
    ASSUME EmailInv, BeginSweep \/ EndSweep \/ SetByAdmin \/ UNCHANGED emailVars
    PROVE  EmailInv'
  <1>1. /\ UNCHANGED <<task, started, mailed>>
        /\ change' \in {change, NoChange} /\ email' \in Mailboxes /\ sweeping' \in BOOLEAN
    BY DEF BeginSweep, EndSweep, SetByAdmin, emailVars, EmailInv, EmailTypeOK
  <1>2. EmailTypeOK'
    BY <1>1 DEF EmailInv, EmailTypeOK
  <1>3. \A c \in Changes : Alive(c)' => Alive(c)
    BY <1>1 DEF Alive
  <1>4. Told'
    BY <1>1, <1>3, NothingNew
  <1>5. QED
    BY <1>1, <1>2, <1>4 DEF EmailInv, Proven

-----------------------------------------------------------------------------
(* Types, the numbers of changes and who has got which code.               *)
LEMMA EmailInvariant == EmailSpec => []EmailInv
  <1>1. EmailInv /\ [EmailNext]_emailVars => EmailInv'
    BY StartStep, ConfirmStep, ContinueStep, OthersStep DEF EmailNext
  <1>2. QED
    BY <1>1, EmailInitInv, PTL DEF EmailSpec

(* No order of starts, confirmations, sweeps and refusals makes an address *)
(* the user's that the client who confirmed does not read, or that was not *)
(* confirmed from an old one.                                              *)
THEOREM AddressesAreProven == EmailSpec => AddressProven
  <1> DEFINE Shown(t) ==
        LET codes(m) == {c \in mailed[m] : c[1] = task[t].change.no} IN
        /\ email' \in task[t].reads /\ "new" \in {c[2] : c \in codes(email')}
        /\ \E m \in task[t].reads : "old" \in {c[2] : c \in codes(m)}
  <1>1. ASSUME EmailInv, NEW t \in Tasks, ChangeAddress(t)
        PROVE  Shown(t)
    <2>1. Proven(task[t]) /\ email' = task[t].change.to
      BY <1>1 DEF EmailInv, ChangeAddress
    <2>2. \A m, kind : <<task[t].change.no, kind>> \in mailed[m] =>
             kind \in {c[2] : c \in {d \in mailed[m] : d[1] = task[t].change.no}}
      OBVIOUS
    <2>3. QED
      BY <2>1, <2>2 DEF Proven
  <1>2. EmailInv /\ [EmailNext]_emailVars
          => [\A t \in Tasks : ChangeAddress(t) => Shown(t)]_emailVars
    BY <1>1
  <1>3. QED
    BY <1>2, EmailInvariant, PTL DEF EmailSpec, AddressProven

(* A runtime with more threads than there are requests at once: the others *)
(* and the sweeper may all wait for the lock that a confirmation holds     *)
(* across its update, and it still has a thread to go on with.  (One       *)
(* thread less, and they stop it: the sweeper and all the others wait.)    *)
THEOREM LocksComeFree ==
    ASSUME Cardinality(Tasks) < Threads
    PROVE  EmailSpec => []LockComesFree
  <1>1. ASSUME NEW t \in Tasks, Guarding(t)
        PROVE  ~Blocking(t) /\ ThreadFree
    <2> DEFINE Waiting == {w \in Tasks : Blocking(w)}
    <2>1. ~Blocking(t)
      BY <1>1 DEF Guarding, Blocking
    <2>2. /\ IsFiniteSet(Tasks \ {t}) /\ Cardinality(Tasks \ {t}) = Cardinality(Tasks) - 1
          /\ Cardinality(Tasks) \in Nat
      BY EmailChangeOK, FS_RemoveElement, FS_CardinalityType
    <2>3. Waiting \in SUBSET (Tasks \ {t})
      BY <2>1
    <2>4. IsFiniteSet(Waiting) /\ Cardinality(Waiting) <= Cardinality(Tasks \ {t})
      BY <2>2, <2>3, FS_Subset
    <2>5. Cardinality(Waiting) \in Nat
      BY <2>4, FS_CardinalityType
    <2> HIDE DEF Waiting
    <2>6. Cardinality(Waiting) + (IF sweeping THEN 1 ELSE 0) < Threads
      BY <2>2, <2>4, <2>5, EmailChangeOK
    <2>7. QED
      BY <2>1, <2>6 DEF ThreadFree, Waiting
  <1>2. LockComesFree
    BY <1>1 DEF LockComesFree
  <1>3. QED
    BY <1>2, PTL

-----------------------------------------------------------------------------
(* OidcLogin: a browser is signed in only by a login of its own, and no    *)
(* code is sent twice.  Neither is inductive.  The cookie that a callback  *)
(* compares has to be one that its browser was given (OwnFlows), and a     *)
(* code that was sent must have left behind neither an entry of its state  *)
(* nor a callback that goes to send it (TradesOnce).                       *)

Calls == [at : {"token", "nonce", "userinfo", "sign_in"},
          by : Browsers, flow : Flows, config : Providers]

(* Nothing is under way. *)
LEMMA LoginInitInv == LoginInit => LoginInv
BY NoneOK DEF LoginInit, LoginInv, LoginTypeOK, OwnFlows, TradesOnce, Trading, CodesSentOnce, Rest

(* What a callback that is under way looks like. *)
LEMMA CallTypes ==
    ASSUME LoginTypeOK, NEW c \in Callbacks, call[c] # Rest
    PROVE  call[c] \in Calls
BY DEF LoginTypeOK, Calls

(* A callback that goes on, or ends, is like before or at rest: no cookie, *)
(* callback or session comes to name another flow.                         *)
LEMMA CallsGoOn ==
    ASSUME LoginInv, NEW c \in Callbacks, call[c] # Rest,
           NEW q, q = Rest \/ \E at \in {"nonce", "userinfo", "sign_in"} :
                                  q = [call[c] EXCEPT !.at = at],
           call' = [call EXCEPT ![c] = q],
           cookie' = cookie \/ cookie' = [cookie EXCEPT ![call[c].by] = None],
           UNCHANGED flow,
           states' \subseteq states,
           UNCHANGED session \/ session' = [session EXCEPT ![call[c].by] = call[c].flow]
    PROVE  /\ call' \in [Callbacks -> {Rest} \union Calls]
           /\ cookie' \in [Browsers -> Flows \union {None}]
           /\ session' \in [Browsers -> Flows \union {None}]
           /\ OwnFlows'
           /\ \A d \in Callbacks : Trading(d)' => d # c /\ Trading(d) /\ call'[d] = call[d]
<1>1. call[c] \in Calls
    BY CallTypes DEF LoginInv
<1>2. q = Rest \/ (/\ q \in Calls /\ q.at # "token"
                   /\ q.by = call[c].by /\ q.flow = call[c].flow)
    BY <1>1 DEF Calls
<1>3. call' \in [Callbacks -> {Rest} \union Calls]
    BY <1>2 DEF LoginInv, LoginTypeOK, Calls
<1>4. cookie' \in [Browsers -> Flows \union {None}]
    BY DEF LoginInv, LoginTypeOK
<1>5. session' \in [Browsers -> Flows \union {None}]
    BY <1>1 DEF LoginInv, LoginTypeOK, Calls
<1>6. \A d \in Callbacks : d # c => call'[d] = call[d]
    BY DEF LoginInv, LoginTypeOK
<1>7. call'[c] = q
    BY DEF LoginInv, LoginTypeOK
<1>8. OwnFlows'
    <2>1. \A b \in Browsers : cookie'[b] # None => cookie'[b] = cookie[b]
        BY DEF LoginInv, LoginTypeOK
    <2>2. \A b \in Browsers : session'[b] # None =>
             session'[b] = session[b] \/ (b = call[c].by /\ session'[b] = call[c].flow)
        BY <1>1 DEF LoginInv, LoginTypeOK, Calls
    <2>3. \A d \in Callbacks : call'[d] # Rest =>
             /\ call[d] # Rest
             /\ call'[d].by = call[d].by /\ call'[d].flow = call[d].flow
        BY <1>2, <1>6, <1>7
    <2> QED BY <2>1, <2>2, <2>3 DEF LoginInv, OwnFlows
<1>9. \A d \in Callbacks : Trading(d)' => d # c /\ Trading(d) /\ call'[d] = call[d]
    BY <1>2, <1>6, <1>7 DEF Trading, Rest
<1> QED BY <1>3, <1>4, <1>5, <1>8, <1>9

(* The same, when the counters of the codes stay as they are. *)
LEMMA CallsGoOnUnasked ==
    ASSUME LoginInv, NEW c \in Callbacks, call[c] # Rest,
           NEW q, q = Rest \/ \E at \in {"nonce", "userinfo", "sign_in"} :
                                  q = [call[c] EXCEPT !.at = at],
           call' = [call EXCEPT ![c] = q],
           cookie' = cookie \/ cookie' = [cookie EXCEPT ![call[c].by] = None],
           UNCHANGED <<provider, states, flow, coded, asked>>,
           nonces' \subseteq nonces,
           UNCHANGED session \/ session' = [session EXCEPT ![call[c].by] = call[c].flow]
    PROVE  LoginInv'
<1>1. /\ call' \in [Callbacks -> {Rest} \union Calls]
      /\ cookie' \in [Browsers -> Flows \union {None}]
      /\ session' \in [Browsers -> Flows \union {None}]
      /\ OwnFlows'
      /\ \A d \in Callbacks : Trading(d)' => d # c /\ Trading(d) /\ call'[d] = call[d]
    BY CallsGoOn
<1>2. LoginTypeOK'
    BY <1>1 DEF LoginInv, LoginTypeOK, Calls
<1>3. TradesOnce'
    BY <1>1 DEF LoginInv, TradesOnce
<1>4. CodesSentOnce'
    BY DEF LoginInv, CodesSentOnce
<1> QED BY <1>1, <1>2, <1>3, <1>4 DEF LoginInv

(* oidc_url begins a flow that nobody names yet. *)
LEMMA UrlStep ==
    ASSUME LoginInv, NEW b \in Browsers, NEW f \in Flows, Url(b, f)
    PROVE  LoginInv'
<1>1. flow'[f] = [by |-> b, provider |-> provider] /\ flow'[f] \in Begun
    BY DEF Url, LoginInv, LoginTypeOK, Begun
<1>2. \A g \in Flows : g # f => flow'[g] = flow[g]
    BY DEF Url, LoginInv, LoginTypeOK
<1>3. \A g \in Flows : flow[g] \in Begun => flow'[g] = flow[g]
    BY <1>2, NoneOK DEF Url
<1>4. LoginTypeOK'
    BY <1>1 DEF Url, LoginInv, LoginTypeOK
<1>5. OwnFlows'
    <2>1. \A a \in Browsers : cookie'[a] # None =>
             flow'[cookie'[a]] \in Begun /\ flow'[cookie'[a]].by = a
        BY <1>1, <1>3 DEF Url, LoginInv, LoginTypeOK, OwnFlows
    <2>2. \A c \in Callbacks : call'[c] # Rest =>
             flow'[call'[c].flow] \in Begun /\ flow'[call'[c].flow].by = call'[c].by
        BY <1>3, CallTypes DEF Url, LoginInv, OwnFlows, Calls
    <2>3. \A a \in Browsers : session'[a] # None =>
             flow'[session'[a]] \in Begun /\ flow'[session'[a]].by = a
        BY <1>3 DEF Url, LoginInv, LoginTypeOK, OwnFlows
    <2> QED BY <2>1, <2>2, <2>3 DEF OwnFlows
<1>6. TradesOnce'
    <2>1. \A c \in Callbacks : Trading(c) => call[c].flow # f
        BY NoneOK DEF Trading, Rest, Url, LoginInv, OwnFlows
    <2>2. \A g \in Flows : g \in states' => flow'[g] \in Begun
        BY <1>1, <1>2 DEF Url, LoginInv, TradesOnce
    <2>3. \A g \in Flows : g \in states' \/ flow'[g] = None => asked'[g] = 0
        BY <1>1, <1>2 DEF Url, LoginInv, TradesOnce
    <2>4. \A c \in Callbacks : Trading(c)' =>
             call'[c].flow \notin states' /\ asked'[call'[c].flow] = 0
        BY <2>1 DEF Url, LoginInv, TradesOnce, Trading
    <2>5. \A c, d \in Callbacks : Trading(c)' /\ Trading(d)' /\ c # d =>
             call'[c].flow # call'[d].flow
        BY DEF Url, LoginInv, TradesOnce, Trading
    <2> QED BY <2>2, <2>3, <2>4, <2>5 DEF TradesOnce, Trading
<1>7. CodesSentOnce'
    BY DEF Url, LoginInv, CodesSentOnce
<1> QED BY <1>4, <1>5, <1>6, <1>7 DEF LoginInv

(* oidc_callback takes the entry of the state, and with it the right to    *)
(* send the code, or sends the browser away.                               *)
LEMMA CallbackBegins ==
    ASSUME LoginInv, NEW c \in Callbacks, NEW b \in Browsers, NEW f \in Flows, Callback(c, b, f)
    PROVE  LoginInv'
<1> DEFINE goes == f \in states /\ Carries(b, f) /\ f \in coded
           begun == [at |-> "token", by |-> b, flow |-> f, config |-> provider]
<1>1. CASE goes
    <2>1. call' = [call EXCEPT ![c] = begun] /\ UNCHANGED cookie
        BY <1>1 DEF Callback
    <2>2. begun \in Calls /\ begun # Rest
        BY DEF Calls, Rest, Callback, LoginInv, LoginTypeOK
    <2>3. call'[c] = begun /\ \A d \in Callbacks : d # c => call'[d] = call[d]
        BY <2>1 DEF LoginInv, LoginTypeOK
    <2>4. f \notin states' /\ states' \subseteq states
        BY DEF Callback, StatesWithout
    <2>5. LoginTypeOK'
        BY <2>1, <2>2, <2>4 DEF Callback, LoginInv, LoginTypeOK, Calls
    <2>6. flow[f] \in Begun /\ flow[f].by = b /\ asked[f] = 0
        BY <1>1, NoneOK DEF Carries, LoginInv, OwnFlows, TradesOnce
    <2>7. OwnFlows'
        <3>1. \A d \in Callbacks : call'[d] # Rest =>
                 flow[call'[d].flow] \in Begun /\ flow[call'[d].flow].by = call'[d].by
            BY <2>3, <2>6 DEF LoginInv, OwnFlows
        <3> QED BY <3>1, <2>1 DEF OwnFlows, LoginInv, Callback
    <2>8. TradesOnce'
        <3>1. \A d \in Callbacks : Trading(d)' =>
                 \/ d = c /\ call'[d].flow = f
                 \/ d # c /\ Trading(d) /\ call'[d].flow = call[d].flow /\ call[d].flow # f
            BY <1>1, <2>3 DEF Trading, LoginInv, TradesOnce
        <3>2. \A d \in Callbacks : Trading(d)' =>
                 call'[d].flow \notin states' /\ asked'[call'[d].flow] = 0
            BY <3>1, <2>4, <2>6 DEF Callback, LoginInv, TradesOnce
        <3>3. \A d, e \in Callbacks : Trading(d)' /\ Trading(e)' /\ d # e =>
                 call'[d].flow # call'[e].flow
            BY <3>1 DEF LoginInv, TradesOnce
        <3>4. /\ \A g \in Flows : g \in states' => flow'[g] \in Begun
              /\ \A g \in Flows : g \in states' \/ flow'[g] = None => asked'[g] = 0
            BY <2>4 DEF Callback, LoginInv, TradesOnce
        <3> QED BY <3>2, <3>3, <3>4 DEF TradesOnce
    <2>9. CodesSentOnce'
        BY DEF Callback, LoginInv, CodesSentOnce
    <2> QED BY <2>5, <2>7, <2>8, <2>9 DEF LoginInv
<1>2. CASE ~goes
    <2>1. cookie' = [cookie EXCEPT ![b] = None] /\ UNCHANGED call
        BY <1>2 DEF Callback
    <2>2. states' \subseteq states
        BY DEF Callback, StatesWithout
    <2>3. LoginTypeOK'
        BY <2>1, <2>2 DEF Callback, LoginInv, LoginTypeOK
    <2>4. OwnFlows'
        BY <2>1 DEF Callback, LoginInv, LoginTypeOK, OwnFlows
    <2>5. TradesOnce'
        BY <2>1, <2>2 DEF Callback, LoginInv, TradesOnce, Trading
    <2>6. CodesSentOnce'
        BY DEF Callback, LoginInv, CodesSentOnce
    <2> QED BY <2>3, <2>4, <2>5, <2>6 DEF LoginInv
<1> QED BY <1>1, <1>2

(* check_code sends the code, which nobody else will send.                 *)
LEMMA TokenStep ==
    ASSUME LoginInv, NEW c \in Callbacks, Token(c)
    PROVE  LoginInv'
<1> DEFINE f == call[c].flow
<1>1. call[c] # Rest /\ call[c] \in Calls /\ f \in Flows
    BY CallTypes DEF Token, Rest, LoginInv, Calls
<1>2. asked[f] = 0 /\ f \notin states /\ flow[f] \in Begun
    BY <1>1 DEF Token, LoginInv, TradesOnce, Trading, OwnFlows
<1>3. PICK q : /\ q = Rest \/ \E at \in {"nonce", "userinfo", "sign_in"} :
                                    q = [call[c] EXCEPT !.at = at]
               /\ call' = [call EXCEPT ![c] = q]
               /\ cookie' = cookie \/ cookie' = [cookie EXCEPT ![call[c].by] = None]
    <2>1. CASE To(c, "nonce") /\ UNCHANGED cookie
        BY <2>1 DEF To
    <2>2. CASE Redirect(c)
        BY <2>2 DEF Redirect
    <2>3. CASE Error(c)
        BY <2>3 DEF Error
    <2> QED BY <2>1, <2>2, <2>3 DEF Token
<1>4. /\ call' \in [Callbacks -> {Rest} \union Calls]
      /\ cookie' \in [Browsers -> Flows \union {None}]
      /\ session' \in [Browsers -> Flows \union {None}]
      /\ OwnFlows'
      /\ \A d \in Callbacks : Trading(d)' => d # c /\ Trading(d) /\ call'[d] = call[d]
    BY <1>1, <1>3, CallsGoOn DEF Token
<1>5. /\ asked' \in [Flows -> Nat] /\ asked'[f] = 1
      /\ \A g \in Flows : g # f => asked'[g] = asked[g]
    BY <1>1, <1>2 DEF Token, LoginInv, LoginTypeOK
<1>6. LoginTypeOK'
    BY <1>4, <1>5 DEF Token, LoginInv, LoginTypeOK, Calls
<1>7. TradesOnce'
    <2>1. \A d \in Callbacks : Trading(d)' =>
             /\ call'[d].flow = call[d].flow /\ call[d].flow \in Flows
             /\ call[d].flow # f /\ call[d].flow \notin states /\ asked[call[d].flow] = 0
        BY <1>4, CallTypes DEF Token, LoginInv, TradesOnce, Trading, Calls, Rest
    <2>2. \A d \in Callbacks : Trading(d)' =>
             call'[d].flow \notin states' /\ asked'[call'[d].flow] = 0
        BY <2>1, <1>5 DEF Token
    <2>3. \A d, e \in Callbacks : Trading(d)' /\ Trading(e)' /\ d # e =>
             call'[d].flow # call'[e].flow
        BY <1>4 DEF LoginInv, TradesOnce
    <2>4. /\ \A g \in Flows : g \in states' => flow'[g] \in Begun
          /\ \A g \in Flows : g \in states' \/ flow'[g] = None => asked'[g] = 0
        BY <1>2, <1>5, NoneOK DEF Token, LoginInv, TradesOnce
    <2> QED BY <2>2, <2>3, <2>4 DEF TradesOnce
<1>8. CodesSentOnce'
    BY <1>5 DEF LoginInv, CodesSentOnce
<1> QED BY <1>4, <1>6, <1>7, <1>8 DEF LoginInv

(* The rest of check_code. *)
LEMMA CheckCodeStep ==
    ASSUME LoginInv, NEW c \in Callbacks, Nonce(c) \/ UserInfo(c) \/ FinishLogin(c)
    PROVE  LoginInv'
<1>1. call[c] # Rest
    BY DEF Nonce, UserInfo, FinishLogin, Rest
<1>2. CASE Nonce(c)
    BY <1>1, <1>2, CallsGoOnUnasked DEF Nonce, To, Error
<1>3. CASE UserInfo(c)
    BY <1>1, <1>3, CallsGoOnUnasked DEF UserInfo, To, Redirect, Error
<1>4. CASE FinishLogin(c)
    BY <1>1, <1>4, CallsGoOnUnasked DEF FinishLogin, Redirect, Error
<1> QED BY <1>2, <1>3, <1>4

(* The provider, the browser, the sweepers, the settings and a restart     *)
(* only take away what may be named.                                       *)
LEMMA OtherLoginSteps ==
    ASSUME LoginInv,
           \/ \E f \in Flows : Authenticate(f)
           \/ \E b \in Browsers : CallbackVoid(b)
           \/ Reconfigure \/ SweepLogins \/ RestartLogins
    PROVE  LoginInv'
<1> USE DEF LoginInv, LoginTypeOK, OwnFlows, TradesOnce, Trading, CodesSentOnce
<1>1. CASE \E f \in Flows : Authenticate(f)
    BY <1>1 DEF Authenticate
<1>2. CASE \E b \in Browsers : CallbackVoid(b)
    BY <1>2 DEF CallbackVoid
<1>3. CASE Reconfigure
    BY <1>3 DEF Reconfigure
<1>4. CASE SweepLogins
    BY <1>4 DEF SweepLogins
<1>5. CASE RestartLogins
    BY <1>5 DEF RestartLogins, Rest
<1> QED BY <1>1, <1>2, <1>3, <1>4, <1>5

(* The invariant holds of every behaviour. *)
LEMMA LoginInvariant == LoginSpec => []LoginInv
<1>1. LoginInv /\ [LoginNext]_loginVars => LoginInv'
    <2> SUFFICES ASSUME LoginInv, [LoginNext]_loginVars
                 PROVE  LoginInv'
        OBVIOUS
    <2>1. CASE UNCHANGED loginVars
        BY <2>1 DEF loginVars, LoginInv, LoginTypeOK, OwnFlows, TradesOnce, Trading, CodesSentOnce
    <2>2. CASE LoginNext
        BY <2>2, UrlStep, CallbackBegins, TokenStep, CheckCodeStep, OtherLoginSteps
           DEF LoginNext, CallbackStep
    <2> QED BY <2>1, <2>2
<1> QED BY <1>1, LoginInitInv, PTL DEF LoginSpec

(* A browser is signed in only by a login it began itself (oidc_callback   *)
(* compares the cookie with the state).                                    *)
THEOREM LoginsAreOnesOwn == LoginSpec => []LoginsAreOwn
<1>1. LoginInv => LoginsAreOwn
    BY DEF LoginInv, OwnFlows, LoginsAreOwn
<1> QED BY <1>1, LoginInvariant, PTL

(* The code of a login is sent to a provider at most once (oidc_callback   *)
(* takes the entry of the state out of the map before anything else).      *)
THEOREM CodesAreSentOnce == LoginSpec => []CodesSentOnce
<1>1. LoginInv => CodesSentOnce
    BY DEF LoginInv
<1> QED BY <1>1, LoginInvariant, PTL
=============================================================================

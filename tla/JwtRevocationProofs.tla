------------------------ MODULE JwtRevocationProofs ------------------------
(***************************************************************************)
(* Theorems about JwtRevocation, for any number of concurrent requests,    *)
(* any token lifetime, leeway and limit, and a clock without bound as well *)
(* as with one (MaxTime is any number).                                    *)
(***************************************************************************)
EXTENDS JwtRevocation, FiniteSetTheorems, TLAPS

-----------------------------------------------------------------------------
(* Types *)

LEMMA IdleFields ==
    /\ Idle.at = "idle" /\ Idle.token = NoToken
    /\ Idle.cookie = NoToken /\ Idle.late = {}
  BY DEF Idle

LEMMA IdleIsNotWorking == Idle \notin Working
  BY DEF Idle, Working

LEMMA WorkingFields ==
    ASSUME NEW q \in Working
    PROVE  /\ q.token \in Tokens /\ q.cookie \in Tokens \union {NoToken}
           /\ q.late \in SUBSET Rows
           /\ q.token.exp \in Nat
  BY DEF Working, Tokens

LEMMA OnFields ==
    ASSUME NEW q, NEW place
    PROVE  /\ On(q, place).at = place
           /\ On(q, place).token = q.token
           /\ On(q, place).cookie = q.cookie
           /\ On(q, place).late = {}
  BY DEF On

LEMMA OnType ==
    ASSUME NEW q \in Working,
           NEW place \in {"admitted", "inserted", "adding", "sweeping", "resetting"}
    PROVE  On(q, place) \in Working
  BY WorkingFields DEF On, Working

LEMMA RowType ==
    ASSUME NEW t \in Tokens, NEW until \in Nat
    PROVE  Row(t, until) \in Rows /\ Row(t, until).token = t /\ Row(t, until).until = until
  BY DEF Row, Rows

LEMMA StartedType ==
    ASSUME TypeOK, NEW t \in Tokens, NEW c \in Tokens \union {NoToken}
    PROVE  /\ Started(t, c) \in Working
           /\ Started(t, c).at = "decoded"
           /\ Started(t, c).token = t
           /\ Started(t, c).late = {x \in revoked : x.token = t}
  BY DEF Started, Working, TypeOK

LEMMA IssuedType ==
    ASSUME TypeOK
    PROVE  Issued \subseteq Tokens
  BY ConstantsOK DEF Issued, Tokens, TypeOK

(* A request that is not idle. *)
LEMMA AtWorking ==
    ASSUME TypeOK, NEW r \in Requests, request[r].at # "idle"
    PROVE  request[r] \in Working
  BY IdleFields DEF TypeOK

LEMMA NextCases ==
    ASSUME Next
    PROVE  \/ \E r \in Requests, t \in Issued, c \in Issued \union {NoToken} : Decode(r, t, c)
           \/ \E r \in Requests : Admit(r)
           \/ \E r \in Requests : Leave(r)
           \/ \E r \in Requests : Insert(r)
           \/ \E r \in Requests : Load(r)
           \/ \E r \in Requests : Add(r)
           \/ \E r \in Requests : Sweep(r)
           \/ \E r \in Requests : SweepFails(r)
           \/ \E r \in Requests : Reset(r)
           \/ Tick
           \/ Restart
  BY Zenon DEF Next, Serve

-----------------------------------------------------------------------------
(* The inductive invariant *)

Logging == {"inserted", "adding", "sweeping", "resetting"}

(* What the insert of a logout under way wrote is still there. *)
InsertRemembered ==
    \A r \in Requests : request[r].at \in Logging =>
      /\ request[r].cookie # NoToken
      /\ clock < request[r].token.exp => Row(request[r].cookie, request[r].token.exp) \in rows

(* The history a request carries is about its token. *)
LateIsRevoked ==
    \A r \in Requests : \A x \in request[r].late : x \in revoked /\ x.token = request[r].token

(* The inductive invariant of the revocations. *)
JwtInv == TypeOK /\ InsertRemembered /\ LogoutRemembered /\ LateIsRevoked

LEMMA InitInv == Init => JwtInv
  BY ConstantsOK, IdleFields
  DEF Init, JwtInv, TypeOK, InsertRemembered, LogoutRemembered, LateIsRevoked, Logging

(* A step in which request r becomes v and nobody else moves. *)
LEMMA RequestBecomes ==
    ASSUME JwtInv, NEW r \in Requests, NEW v \in Working \union {Idle},
           request' = [request EXCEPT ![r] = v],
           clock' = clock,
           rows \subseteq rows', rows' \subseteq Rows,
           revoked \subseteq revoked', revoked' \subseteq Rows,
           \A x \in revoked' : clock < x.until => x \in rows',
           count' \in Nat,
           v.at \in Logging => /\ v.cookie # NoToken
                               /\ clock < v.token.exp => Row(v.cookie, v.token.exp) \in rows',
           \A x \in v.late : x \in revoked' /\ x.token = v.token
    PROVE  JwtInv'
  <1>1. /\ request'[r] = v
        /\ \A q \in Requests : q # r => request'[q] = request[q]
    BY DEF JwtInv, TypeOK
  <1>2. TypeOK'
    BY <1>1 DEF JwtInv, TypeOK
  <1>3. InsertRemembered'
    BY <1>1 DEF JwtInv, InsertRemembered
  <1>4. LogoutRemembered'
    BY DEF LogoutRemembered
  <1>5. LateIsRevoked'
    BY <1>1 DEF JwtInv, LateIsRevoked
  <1>6. QED
    BY <1>2, <1>3, <1>4, <1>5 DEF JwtInv

LEMMA NextInv ==
    ASSUME JwtInv, [Next]_vars
    PROVE  JwtInv'
  <1>0. /\ TypeOK
        /\ rows \subseteq Rows /\ revoked \subseteq Rows /\ count \in Nat /\ clock \in Nat
        /\ \A x \in revoked : clock < x.until => x \in rows
    BY DEF JwtInv, TypeOK, LogoutRemembered
  <1>1. ASSUME NEW r \in Requests, NEW t \in Issued, NEW c \in Issued \union {NoToken},
               Decode(r, t, c)
        PROVE  JwtInv'
    <2>1. t \in Tokens /\ c \in Tokens \union {NoToken}
      BY <1>0, IssuedType
    <2>2. /\ request' = [request EXCEPT ![r] = Started(t, c)]
          /\ UNCHANGED <<clock, rows, count, revoked>>
      BY <1>1 DEF Decode
    <2>3. \A x \in Started(t, c).late : x \in revoked /\ x.token = Started(t, c).token
      BY <1>0, <2>1, StartedType
    <2>4. Started(t, c).at \notin Logging
      BY <1>0, <2>1, StartedType DEF Logging
    <2>5. QED
      BY <1>0, <2>1, <2>2, <2>3, <2>4, StartedType, RequestBecomes
  <1>2. ASSUME NEW r \in Requests, Admit(r)
        PROVE  JwtInv'
    <2> DEFINE v == On(request[r], "admitted")
    <2>1. v \in Working
      BY <1>0, <1>2, AtWorking, OnType DEF Admit, At
    <2>2. v.late = {} /\ v.at \notin Logging
      BY OnFields DEF Logging
    <2>3. /\ request' = [request EXCEPT ![r] = v]
          /\ UNCHANGED <<clock, rows, count, revoked>>
      BY <1>0, <1>2 DEF Admit, Goes, TypeOK
    <2> HIDE DEF v
    <2>4. QED
      BY <1>0, <2>1, <2>2, <2>3, RequestBecomes
  <1>3. ASSUME NEW r \in Requests, Leave(r) \/ SweepFails(r)
        PROVE  JwtInv'
    <2>1. /\ request' = [request EXCEPT ![r] = Idle]
          /\ UNCHANGED <<clock, rows, count, revoked>>
      BY <1>3 DEF Leave, SweepFails, Ends
    <2>2. QED
      BY <1>0, <2>1, IdleFields, RequestBecomes DEF Logging
  <1>4. ASSUME NEW r \in Requests, Insert(r)
        PROVE  JwtInv'
    <2> DEFINE v == On(request[r], "inserted")
               x == Row(request[r].cookie, request[r].token.exp)
    <2>1. request[r] \in Working
      BY <1>0, <1>4, AtWorking DEF Insert, At
    <2>2. v \in Working
      BY <2>1, OnType
    <2>3. x \in Rows
      BY <1>4, <2>1, WorkingFields, RowType DEF Insert
    <2>4. /\ v.late = {} /\ v.cookie = request[r].cookie /\ v.token = request[r].token
          /\ v.cookie # NoToken
      BY <1>4, OnFields DEF Insert
    <2>5. /\ request' = [request EXCEPT ![r] = v]
          /\ rows' = rows \union {x}
          /\ UNCHANGED <<clock, count, revoked>>
      BY <1>0, <1>4 DEF Insert, Goes, TypeOK
    <2>6. Row(v.cookie, v.token.exp) = x
      BY <2>4
    <2> HIDE DEF v, x
    <2>7. QED
      BY <1>0, <2>2, <2>3, <2>4, <2>5, <2>6, RequestBecomes
  <1>5. ASSUME NEW r \in Requests, Load(r)
        PROVE  JwtInv'
    <2> DEFINE place == IF Full(count) THEN "sweeping" ELSE "adding"
               v == On(request[r], place)
    <2>1. request[r] \in Working
      BY <1>0, <1>5, AtWorking DEF Load, At
    <2>2. v \in Working
      BY <2>1, OnType
    <2>3. v.late = {} /\ v.cookie = request[r].cookie /\ v.token = request[r].token
      BY OnFields
    <2>4. /\ request[r].cookie # NoToken
          /\ clock < request[r].token.exp => Row(request[r].cookie, request[r].token.exp) \in rows
      BY <1>5 DEF Load, At, JwtInv, InsertRemembered, Logging
    <2>5. /\ request' = [request EXCEPT ![r] = v]
          /\ UNCHANGED <<clock, rows, count, revoked>>
      BY <1>0, <1>5 DEF Load, Goes, TypeOK
    <2> HIDE DEF v
    <2>6. QED
      BY <1>0, <2>2, <2>3, <2>4, <2>5, RequestBecomes
  <1>6. ASSUME NEW r \in Requests, Add(r) \/ Reset(r)
        PROVE  JwtInv'
    <2> DEFINE x == Row(request[r].cookie, request[r].token.exp)
    <2>1. request[r].at \in Logging
      BY <1>6 DEF Add, Reset, At, Logging
    <2>2. request[r] \in Working /\ request[r].cookie # NoToken
      BY <1>0, <2>1, AtWorking DEF JwtInv, InsertRemembered, Logging
    <2>3. x \in Rows /\ x.until = request[r].token.exp
      BY <2>2, WorkingFields, RowType
    <2>4. clock < x.until => x \in rows
      BY <2>1, <2>3 DEF JwtInv, InsertRemembered
    <2>5. /\ request' = [request EXCEPT ![r] = Idle]
          /\ revoked' = revoked \union {x}
          /\ UNCHANGED <<clock, rows>>
          /\ count' \in Nat
      BY <1>0, <1>6 DEF Add, Reset, LogoutEnds, Ends
    <2> HIDE DEF x
    <2>6. QED
      BY <1>0, <2>3, <2>4, <2>5, IdleFields, RequestBecomes DEF Logging
  <1>7. ASSUME NEW r \in Requests, Sweep(r)
        PROVE  JwtInv'
    (* Only rows whose time has come are deleted. *)
    <2> DEFINE v == On(request[r], "resetting")
    <2>1. /\ request' = [request EXCEPT ![r] = v]
          /\ UNCHANGED <<clock, count, revoked>>
      BY <1>0, <1>7 DEF Sweep, Goes, TypeOK
    <2>2. rows' \subseteq rows /\ \A x \in rows : clock < x.until => x \in rows'
      <3>1. \A x \in Rows : x.until \in Nat
        BY DEF Rows
      <3>2. QED
        BY <1>0, <1>7, <3>1 DEF Sweep, Expired
    <2>3. request[r] \in Working /\ request[r].at \in Logging
      BY <1>0, <1>7, AtWorking DEF Sweep, At, Logging
    <2>4. v \in Working /\ v.late = {} /\ v.cookie = request[r].cookie /\ v.token = request[r].token
      BY <2>3, OnType, OnFields
    <2> HIDE DEF v
    <2>5. /\ request'[r] = v
          /\ \A q \in Requests : q # r => request'[q] = request[q]
      BY <1>0, <2>1 DEF TypeOK
    <2>6. TypeOK'
      BY <1>0, <2>1, <2>2, <2>4, <2>5 DEF TypeOK
    <2>7. ASSUME NEW q \in Requests, request[q].at \in Logging,
                 clock < request[q].token.exp
          PROVE  Row(request[q].cookie, request[q].token.exp) \in rows'
      <3>1. request[q] \in Working /\ request[q].cookie # NoToken
        BY <1>0, <2>7, AtWorking DEF JwtInv, InsertRemembered, Logging
      <3>2. Row(request[q].cookie, request[q].token.exp).until = request[q].token.exp
        BY <3>1, WorkingFields, RowType
      <3>3. QED
        BY <2>2, <2>7, <3>2 DEF JwtInv, InsertRemembered
    <2>8. InsertRemembered'
      BY <2>1, <2>3, <2>4, <2>5, <2>7 DEF JwtInv, InsertRemembered
    <2>9. LogoutRemembered'
      BY <1>0, <2>1, <2>2 DEF LogoutRemembered
    <2>10. LateIsRevoked'
      BY <2>1, <2>4, <2>5 DEF JwtInv, LateIsRevoked
    <2>11. QED
      BY <2>6, <2>8, <2>9, <2>10 DEF JwtInv
  <1>8. CASE Tick
    <2>1. /\ clock' = clock + 1
          /\ UNCHANGED <<rows, count, request, revoked>>
      BY <1>8 DEF Tick
    <2>2. TypeOK'
      BY <1>0, <2>1 DEF TypeOK
    <2>3. InsertRemembered'
      <3>1. ASSUME NEW r \in Requests, request[r].at \in Logging
            PROVE  request[r].token.exp \in Nat
        BY <1>0, <3>1, AtWorking, WorkingFields DEF Logging
      <3>2. QED
        BY <1>0, <2>1, <3>1 DEF JwtInv, InsertRemembered
    <2>4. LogoutRemembered'
      <3>1. \A x \in Rows : x.until \in Nat
        BY DEF Rows
      <3>2. QED
        BY <1>0, <2>1, <3>1 DEF LogoutRemembered
    <2>5. LateIsRevoked'
      BY <2>1 DEF JwtInv, LateIsRevoked
    <2>6. QED
      BY <2>2, <2>3, <2>4, <2>5 DEF JwtInv
  <1>9. CASE Restart
    BY <1>9, IdleFields
    DEF Restart, JwtInv, TypeOK, InsertRemembered, LogoutRemembered, LateIsRevoked, Logging
  <1>10. CASE UNCHANGED vars
    BY <1>10 DEF vars, JwtInv, TypeOK, InsertRemembered, LogoutRemembered, LateIsRevoked
  <1>11. QED
    BY NextCases, <1>1, <1>2, <1>3, <1>4, <1>5, <1>6, <1>7, <1>8, <1>9, <1>10, Zenon

(* The invariant holds in every reachable state. *)
THEOREM JwtInvariant == Spec => []JwtInv
  <1>1. JwtInv /\ [Next]_vars => JwtInv'
    BY NextInv
  <1>2. QED
    BY <1>1, InitInv, PTL DEF Spec

(* Rows, requests and the counter have their types in every state. *)
THEOREM RevocationIsTyped == Spec => []TypeOK
  <1>1. JwtInv => TypeOK
    BY DEF JwtInv
  <1>2. QED
    BY <1>1, JwtInvariant, PTL

(* Sweeping never forgets a logout that still matters. *)
THEOREM LogoutsAreRemembered == Spec => []LogoutRemembered
  <1>1. JwtInv => LogoutRemembered
    BY DEF JwtInv
  <1>2. QED
    BY <1>1, JwtInvariant, PTL

-----------------------------------------------------------------------------
(* A request that comes after the logout is refused until the expiry the   *)
(* logout recorded: the row is there when the lookup runs, although the    *)
(* exp of the token was checked at some earlier time.                      *)
LEMMA NextRefusesLate ==
    ASSUME JwtInv, [Next]_vars
    PROVE  StepRefusesLate
  <1> SUFFICES ASSUME NEW r \in Requests, At(r, "decoded"), At(r, "admitted")',
                      NEW x \in request[r].late
               PROVE  x.until <= clock
    BY DEF StepRefusesLate
  <1>0. TypeOK
    BY DEF JwtInv
  <1>1. x \in revoked /\ x.token = request[r].token
    BY DEF JwtInv, LateIsRevoked
  <1>2. x \in rows => Revoked(request[r].token)
    BY <1>1 DEF Revoked
  <1>3. x.until \in Nat /\ clock \in Nat
    BY <1>0, <1>1 DEF TypeOK, Rows
  <1>4. Admit(r)
    <2>1. request[r].at = "decoded" /\ request'[r].at = "admitted"
      BY DEF At
    <2>2. ASSUME NEW q \in Requests, NEW v, request' = [request EXCEPT ![q] = v], q # r
          PROVE  FALSE
      BY <1>0, <2>1, <2>2 DEF TypeOK
    <2>3. ASSUME NEW q \in Requests, NEW v, request' = [request EXCEPT ![q] = v],
                 v.at # "admitted"
          PROVE  FALSE
      BY <1>0, <2>1, <2>3 DEF TypeOK
    <2>4. ASSUME NEW q \in Requests, NEW t \in Issued, NEW c \in Issued \union {NoToken},
                 Decode(q, t, c)
          PROVE  FALSE
      <3>1. Started(t, c).at = "decoded"
        BY DEF Started
      <3>2. QED
        BY <2>3, <2>4, <3>1 DEF Decode
    <2>5. ASSUME NEW q \in Requests, Admit(q)
          PROVE  Admit(r)
      <3>1. request' = [request EXCEPT ![q] = On(request[q], "admitted")]
        BY <1>0, <2>5 DEF Admit, Goes, TypeOK
      <3>2. QED
        BY <2>2, <2>5, <3>1
    <2>6. ASSUME NEW q \in Requests,
                 Leave(q) \/ SweepFails(q) \/ Add(q) \/ Reset(q)
          PROVE  FALSE
      <3>1. request' = [request EXCEPT ![q] = Idle]
        BY <2>6 DEF Leave, SweepFails, Add, Reset, LogoutEnds, Ends
      <3>2. QED
        BY <2>3, <3>1, IdleFields
    <2>7. ASSUME NEW q \in Requests, NEW place \in {"inserted", "adding", "sweeping", "resetting"},
                 Goes(q, place)
          PROVE  FALSE
      <3>1. request' = [request EXCEPT ![q] = On(request[q], place)]
        BY <1>0, <2>7 DEF Goes, TypeOK
      <3>2. On(request[q], place).at # "admitted"
        BY OnFields
      <3>3. QED
        BY <2>3, <3>1, <3>2
    <2>8. ASSUME NEW q \in Requests, Insert(q) \/ Load(q) \/ Sweep(q)
          PROVE  FALSE
      BY <2>7, <2>8 DEF Insert, Load, Sweep
    <2>9. CASE Tick \/ UNCHANGED vars
      BY <2>1, <2>9 DEF Tick, vars
    <2>10. CASE Restart
      BY <2>1, <2>10, IdleFields DEF Restart
    <2>11. QED
      BY NextCases, <2>4, <2>5, <2>6, <2>8, <2>9, <2>10, Zenon
  <1>5. x \notin rows
    BY <1>2, <1>4 DEF Admit
  <1>6. QED
    BY <1>1, <1>3, <1>5 DEF JwtInv, LogoutRemembered

(* Whatever the order of sweeps, restarts and checks, a logged-out token   *)
(* admits no later request before its time.                                *)
THEOREM LateRequestsAreRefused == Spec => LateRequestsRefused
  <1>1. JwtInv /\ [Next]_vars => [StepRefusesLate]_vars
    BY NextRefusesLate
  <1>2. QED
    BY <1>1, JwtInvariant, PTL DEF Spec, LateRequestsRefused

-----------------------------------------------------------------------------
(* The counter *)

Adding == {r \in Requests : At(r, "adding")}

(* The counter, with the requests that have still to add to it. *)
CountInv == count + Cardinality(Adding) <= Limit + Cardinality(Requests)

LEMMA AddingFinite ==
    /\ IsFiniteSet(Adding) /\ Cardinality(Adding) \in Nat
    /\ Cardinality(Adding) <= Cardinality(Requests)
    /\ Cardinality(Requests) \in Nat
  <1>1. Adding \in SUBSET Requests
    BY DEF Adding
  <1>2. QED
    BY <1>1, ConstantsOK, FS_Subset, FS_CardinalityType

LEMMA AddingFinitePrimed ==
    /\ IsFiniteSet(Adding') /\ Cardinality(Adding') \in Nat
    /\ Cardinality(Adding') <= Cardinality(Requests)
  <1>1. Adding' \in SUBSET Requests
    BY DEF Adding
  <1>2. QED
    BY <1>1, ConstantsOK, FS_Subset, FS_CardinalityType

(* Nobody gets past the comparison and the counter does not grow. *)
LEMMA FewerAdding ==
    ASSUME TypeOK, CountInv, Adding' \subseteq Adding, count' \in Nat, count' <= count
    PROVE  CountInv'
  <1>1. Cardinality(Adding') <= Cardinality(Adding)
    BY AddingFinite, FS_Subset
  <1>2. Limit \in Nat
    BY ConstantsOK
  <1>3. QED
    BY <1>1, <1>2, AddingFinite, AddingFinitePrimed DEF CountInv, TypeOK

LEMMA NextCount ==
    ASSUME TypeOK, CountInv, [Next]_vars
    PROVE  CountInv'
  <1> USE DEF At
  <1>0. count \in Nat /\ Limit \in Nat
    BY ConstantsOK DEF TypeOK
  <1>1. ASSUME NEW r \in Requests, NEW t \in Issued, NEW c \in Issued \union {NoToken},
               Decode(r, t, c)
        PROVE  CountInv'
    <2>1. Started(t, c).at = "decoded"
      BY DEF Started
    <2>2. Adding' \subseteq Adding
      BY <1>1, <2>1 DEF Decode, Adding, TypeOK
    <2>3. QED
      BY <1>0, <1>1, <2>2, FewerAdding DEF Decode
  <1>2. ASSUME NEW r \in Requests, NEW place \in {"admitted", "inserted", "sweeping", "resetting"},
               Goes(r, place), count' = count
        PROVE  CountInv'
    <2>1. request' = [request EXCEPT ![r] = On(request[r], place)]
      BY <1>2 DEF Goes, TypeOK
    <2>2. Adding' \subseteq Adding
      BY <2>1, OnFields DEF Adding, TypeOK
    <2>3. QED
      BY <1>0, <1>2, <2>2, FewerAdding
  <1>3. ASSUME NEW r \in Requests, Admit(r) \/ Insert(r) \/ Sweep(r)
        PROVE  CountInv'
    BY <1>2, <1>3 DEF Admit, Insert, Sweep
  <1>4. ASSUME NEW r \in Requests, Leave(r) \/ SweepFails(r)
        PROVE  CountInv'
    <2>1. request' = [request EXCEPT ![r] = Idle] /\ count' = count
      BY <1>4 DEF Leave, SweepFails, Ends
    <2>2. Adding' \subseteq Adding
      BY <2>1, IdleFields DEF Adding, TypeOK
    <2>3. QED
      BY <1>0, <2>1, <2>2, FewerAdding
  <1>5. ASSUME NEW r \in Requests, Load(r)
        PROVE  CountInv'
    <2>1. CASE Full(count)
      BY <1>2, <1>5, <2>1 DEF Load
    <2>2. CASE ~Full(count)
      <3>1. count' = count /\ count <= Limit
        BY <1>0, <1>5, <2>2 DEF Load, Full
      <3>2. QED
        BY <1>0, <3>1, AddingFinite, AddingFinitePrimed DEF CountInv
    <2>3. QED
      BY <2>1, <2>2
  <1>6. ASSUME NEW r \in Requests, Add(r)
        PROVE  CountInv'
    <2>1. /\ request[r].at = "adding"
          /\ count' = count + 1
          /\ request' = [request EXCEPT ![r] = Idle]
      BY <1>6 DEF Add, LogoutEnds, Ends
    <2>2. Adding' = Adding \ {r} /\ r \in Adding
      BY <2>1, IdleFields DEF Adding, TypeOK
    <2>3. Cardinality(Adding') = Cardinality(Adding) - 1
      BY <2>2, AddingFinite, FS_RemoveElement
    <2>4. QED
      BY <1>0, <2>1, <2>3, AddingFinite, AddingFinitePrimed DEF CountInv
  <1>7. ASSUME NEW r \in Requests, Reset(r)
        PROVE  CountInv'
    <2>1. count' = 0
      BY <1>7 DEF Reset
    <2>2. QED
      BY <1>0, <2>1, AddingFinite, AddingFinitePrimed DEF CountInv
  <1>8. CASE Tick \/ UNCHANGED vars
    <2>1. Adding' \subseteq Adding /\ count' = count
      BY <1>8 DEF Tick, vars, Adding
    <2>2. QED
      BY <1>0, <2>1, FewerAdding
  <1>9. CASE Restart
    <2>1. count' = 0
      BY <1>9 DEF Restart
    <2>2. QED
      BY <1>0, <2>1, AddingFinite, AddingFinitePrimed DEF CountInv
  <1>10. QED
    BY NextCases, <1>1, <1>3, <1>4, <1>5, <1>6, <1>7, <1>8, <1>9, Zenon

(* However many logouts overlap, the counter stays within the number of    *)
(* concurrent requests of its limit: it cannot wrap around.                *)
THEOREM CounterIsBounded == Spec => []CountBounded
  <1>1. Init => CountInv
    <2>1. ASSUME Init
          PROVE  count = 0
      BY <2>1 DEF Init
    <2>2. QED
      BY <2>1, ConstantsOK, AddingFinite DEF CountInv
  <1>2. TypeOK /\ CountInv /\ [Next]_vars => CountInv'
    BY NextCount
  <1>3. JwtInv => TypeOK
    BY DEF JwtInv
  <1>4. TypeOK /\ CountInv => CountBounded
    BY ConstantsOK, AddingFinite DEF CountInv, CountBounded, TypeOK
  <1>5. QED
    BY <1>1, <1>2, <1>3, <1>4, JwtInvariant, PTL DEF Spec
=============================================================================

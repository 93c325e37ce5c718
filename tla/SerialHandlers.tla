--------------------------- MODULE SerialHandlers ---------------------------
(***************************************************************************)
(* The handlers one request at a time, from the first boot on: no request  *)
(* or boot step comes between the steps of another, no client goes away    *)
(* and the process does not die.  Run so, the statements of a handler add  *)
(* up to an action of Directory.                                           *)
(***************************************************************************)
EXTENDS Handlers

(* History: the directory and its last answer, as the last whole request left them. *)
VARIABLE before

Now == [users |-> users, groups |-> groups, name |-> name, perms |-> perms,
        members |-> members, completed |-> completed, sent |-> sent, response |-> response]

Quiet == \A r \in Requests : request[r] = Idle

(* The step ends a request that has written nothing, which is no action. *)
Refused == request' # request /\ response' = Silent

SerialInit == HandlersInit /\ before = Now

SerialNext ==
    /\ \/ /\ Quiet
          /\ \/ \E r \in Requests : Arrives(r) /\ UNCHANGED <<boot, skipping>>
             \/ Starts /\ UNCHANGED request
       \/ \E r \in Requests : (Handle(r) \/ Reply(r)) /\ UNCHANGED <<boot, skipping>>
    /\ Remembers
    /\ before' = IF Quiet' /\ ~Refused THEN Now' ELSE before

SerialSpec == SerialInit /\ [][SerialNext]_<<steps, before>>

(* To Directory, a request happens when its handler ends. *)
D == INSTANCE Directory WITH
    users <- before.users, groups <- before.groups, name <- before.name,
    perms <- before.perms, members <- before.members, completed <- before.completed,
    sent <- before.sent, response <- before.response

(* Every sequence of whole requests is a behaviour of Directory: its six   *)
(* management actions, three kinds of login and the setup are what the     *)
(* handlers do statement by statement, the half-done ones included.  (This *)
(* is D!Spec; the first conjunct only lets TLC see a stutter at once.)     *)
ImplementsDirectory == D!Init /\ [][D!vars' # D!vars /\ D!Next]_(D!vars)
=============================================================================

---------------------------- MODULE UpdateProxy ----------------------------
(***************************************************************************)
(* The delivery of update messages to browsers.  Handlers put a message in *)
(* one bounded channel, the trigger channel; the proxy task takes it out   *)
(* and sends it into the bounded channel of every session it is for, while *)
(* it iterates over the two-level map of sessions with the locks of the    *)
(* map held; the socket task of a session takes it from there and writes   *)
(* it to the client, and removes the session when the client closes.       *)
(*                                                                         *)
(* A lock of the map (a DashMap: one lock for each shard) stops the        *)
(* THREAD of a task that waits for it, so a waiting task keeps one of the  *)
(* runtime's workers busy; a task that awaits a channel keeps none.        *)
(* Writers hold their locks within one step, the proxy holds read locks    *)
(* across its awaits.  A message is its number in `log`, the history of    *)
(* whom each was for.  Contents are left out.                              *)
(***************************************************************************)
EXTENDS Naturals, FiniteSets, Sequences

CONSTANTS
    Users,
    Sessions,
    Owner,        \* the user of a session
    Shards,       \* shards of either map
    OuterShard,   \* the shard of a user in the outer map
    InnerShard,   \* the shard of a session in its user's map
    Workers,      \* threads of the runtime
    TriggerCap,   \* capacity of the trigger channel (100)
    SessionCap,   \* capacity of a session's channel (100)
    MaxMessages,  \* bound of the number of updates
    Everyone,     \* the target of a broadcast
    None

ASSUME ConstantsOK ==
    /\ Owner \in [Sessions -> Users]
    /\ OuterShard \in [Users -> Shards] /\ InnerShard \in [Sessions -> Shards]
    /\ {Workers, TriggerCap, SessionCap} \subseteq Nat \ {0}
    /\ MaxMessages \in Nat
    /\ IsFiniteSet(Sessions)
    /\ Everyone \notin Users
    /\ None \notin Shards /\ None \notin Users \X Shards

VARIABLES
    at,        \* where the request that opened a session, then its socket task, is
    inbox,     \* the channel of a session
    triggers,  \* the trigger channel
    proxy,     \* the proxy task
    log,       \* history: the target of each update, in the order they were queued
    since,     \* history: how many updates were queued when the session was made
    got        \* history: the updates put in the session's channel

vars == <<at, inbox, triggers, proxy, log, since, got>>

(* What the proxy is doing: the message it delivers (0: none), the shards  *)
(* it has still to visit, the outer shard it has locked, the inner shards  *)
(* <<user, shard>> to visit there, the one it has locked, and the sessions *)
(* to send to in it, in the order of the iteration.                        *)
Waiting == [msg |-> 0, shards |-> {}, outer |-> None, inners |-> {}, inner |-> None, to |-> <<>>]

TypeOK ==
    /\ at \in [Sessions -> {"none", "creating", "upgrading", "select", "sending", "removing",
                            "leaked"}]
    /\ inbox \in [Sessions -> Seq(1 .. MaxMessages)]
    /\ \A s \in Sessions : Len(inbox[s]) <= SessionCap
    /\ triggers \in Seq(1 .. MaxMessages) /\ Len(triggers) <= TriggerCap
    /\ proxy.msg \in 0 .. MaxMessages
    /\ proxy.shards \subseteq Shards /\ proxy.outer \in Shards \union {None}
    /\ proxy.inners \subseteq Users \X Shards /\ proxy.inner \in (Users \X Shards) \union {None}
    /\ proxy.to \in Seq(Sessions)
    /\ log \in Seq(Users \union {Everyone})
    /\ since \in [Sessions -> 0 .. MaxMessages]
    /\ got \in [Sessions -> SUBSET (1 .. MaxMessages)]

-----------------------------------------------------------------------------
(* The session is in the map. *)
Registered(s) == at[s] \notin {"none", "creating"}

(* Its receiver exists: a failed upgrade drops it and leaves the entry.    *)
Open(s) == Registered(s) /\ at[s] # "leaked"

(* A worker is left to run a task that waits for no lock. *)
Free == Cardinality({s \in Sessions : at[s] \in {"creating", "removing"}}) < Workers

For(id, u) == log[id] \in {u, Everyone}

PlaceOf(s) == <<Owner[s], InnerShard[s]>>

(* The orders in which an iteration may meet the members of S. *)
Orders(S) == {f \in [1 .. Cardinality(S) -> S] : \A i, j \in DOMAIN f : f[i] = f[j] => i = j}

-----------------------------------------------------------------------------
(* Handlers *)

(* Updater::send_to, and broadcast with Everyone; with the channel full    *)
(* the handler waits.                                                      *)
Trigger(target) ==
    /\ Free
    /\ Len(log) < MaxMessages
    /\ Len(triggers) < TriggerCap
    /\ log' = Append(log, target)
    /\ triggers' = Append(triggers, Len(log'))
    /\ UNCHANGED <<at, inbox, proxy, since, got>>

-----------------------------------------------------------------------------
(* The proxy task *)

(* The shards of the map that a delivery comes to: it iterates over all,   *)
(* or looks one user up.                                                   *)
Visited(id) == IF log[id] = Everyone THEN Shards ELSE {OuterShard[log[id]]}

(* Mutant: a stack. *)
Receive_Last ==
    /\ Free
    /\ proxy.msg = 0 /\ triggers # <<>>
    /\ proxy' = [Waiting EXCEPT !.msg = triggers[Len(triggers)],
                               !.shards = Visited(triggers[Len(triggers)])]
    /\ triggers' = SubSeq(triggers, 1, Len(triggers) - 1)
    /\ UNCHANGED <<at, inbox, log, since, got>>

Receive ==
    /\ Free
    /\ proxy.msg = 0 /\ triggers # <<>>
    /\ proxy' = [Waiting EXCEPT !.msg = Head(triggers), !.shards = Visited(Head(triggers))]
    /\ triggers' = Tail(triggers)
    /\ UNCHANGED <<at, inbox, log, since, got>>

(* Mutant: `next` for `for`: one inner shard is visited. *)
Inners_One(k) ==
    LET all == {p \in {PlaceOf(s) : s \in {t \in Sessions : Registered(t) /\ For(proxy.msg, Owner[t])}} :
                  OuterShard[p[1]] = k}
    IN  IF all = {} THEN {} ELSE {CHOOSE p \in all : TRUE}

(* The inner shards of outer shard k with a session the message is for.    *)
Inners(k) ==
    {p \in {PlaceOf(s) : s \in {t \in Sessions : Registered(t) /\ For(proxy.msg, Owner[t])}} :
       OuterShard[p[1]] = k}

LockOuter(k) ==
    /\ Free
    /\ proxy.outer = None /\ k \in proxy.shards
    /\ proxy' = [proxy EXCEPT !.shards = @ \ {k}, !.outer = k, !.inners = Inners(k)]
    /\ UNCHANGED <<at, inbox, triggers, log, since, got>>

LockInner(p) ==
    /\ Free
    /\ proxy.inner = None /\ p \in proxy.inners
    /\ \E to \in Orders({s \in Sessions : Registered(s) /\ PlaceOf(s) = p}) :
         proxy' = [proxy EXCEPT !.inners = @ \ {p}, !.inner = p, !.to = to]
    /\ UNCHANGED <<at, inbox, triggers, log, since, got>>

(* Mutant: an unbounded channel. *)
HasRoom_Always(s) == TRUE
HasRoom(s)        == Len(inbox[s]) < SessionCap

(* Send to the next session of the iteration: into its channel when there  *)
(* is room, otherwise wait; a dropped receiver is an error that is ignored. *)
Send(s) ==
    /\ Free
    /\ proxy.to # <<>> /\ s = Head(proxy.to)
    /\ proxy' = [proxy EXCEPT !.to = Tail(@)]
    /\ \/ /\ Open(s) /\ HasRoom(s)
          /\ inbox' = [inbox EXCEPT ![s] = Append(@, proxy.msg)]
          /\ got' = [got EXCEPT ![s] = @ \union {proxy.msg}]
       \/ ~Open(s) /\ UNCHANGED <<inbox, got>>
    /\ UNCHANGED <<at, triggers, log, since>>

(* Mutant: the guard of the last shard lives until the next message. *)
Unlock_Kept ==
    /\ Free
    /\ proxy.to = <<>>
    /\ \/ /\ proxy.inner # None
          /\ proxy' = [proxy EXCEPT !.inner = None]
       \/ /\ proxy.inner = None /\ proxy.inners = {} /\ proxy.outer # None /\ proxy.shards # {}
          /\ proxy' = [proxy EXCEPT !.outer = None]
       \/ /\ proxy.inner = None /\ proxy.inners = {} /\ proxy.shards = {} /\ proxy.msg # 0
          /\ proxy' = [Waiting EXCEPT !.outer = proxy.outer]
    /\ UNCHANGED <<at, inbox, triggers, log, since, got>>

(* The iteration leaves an inner shard, an outer shard, the map. *)
Unlock ==
    /\ Free
    /\ proxy.to = <<>>
    /\ \/ /\ proxy.inner # None
          /\ proxy' = [proxy EXCEPT !.inner = None]
       \/ /\ proxy.inner = None /\ proxy.inners = {} /\ proxy.outer # None
          /\ proxy' = [proxy EXCEPT !.outer = None]
       \/ /\ proxy.outer = None /\ proxy.shards = {} /\ proxy.msg # 0
          /\ proxy' = Waiting
    /\ UNCHANGED <<at, inbox, triggers, log, since, got>>

-----------------------------------------------------------------------------
(* A session: the request that opens it, then its socket task *)

Moves(s, place) == at' = [at EXCEPT ![s] = place]

Connect(s) ==
    /\ Free
    /\ at[s] = "none"
    /\ Moves(s, "creating")
    /\ UNCHANGED <<inbox, triggers, proxy, log, since, got>>

(* create_session: the write lock of the user's outer shard, then of the   *)
(* inner shard, which is free with it.                                     *)
Create(s) ==
    /\ at[s] = "creating"
    /\ proxy.outer # OuterShard[Owner[s]]
    /\ Moves(s, "upgrading")
    /\ since' = [since EXCEPT ![s] = Len(log)]
    /\ UNCHANGED <<inbox, triggers, proxy, log, got>>

Upgrade(s) ==
    /\ Free
    /\ at[s] = "upgrading"
    /\ Moves(s, "select")
    /\ UNCHANGED <<inbox, triggers, proxy, log, since, got>>

(* The connection is not upgraded: handle_socket never runs, the receiver  *)
(* is dropped, and nobody removes the session.                             *)
UpgradeFails(s) ==
    /\ Free
    /\ at[s] = "upgrading"
    /\ Moves(s, "leaked")
    /\ inbox' = [inbox EXCEPT ![s] = <<>>]
    /\ UNCHANGED <<triggers, proxy, log, since, got>>

(* The select takes a message from the channel... *)
Take(s) ==
    /\ Free
    /\ at[s] = "select" /\ inbox[s] # <<>>
    /\ Moves(s, "sending")
    /\ inbox' = [inbox EXCEPT ![s] = Tail(@)]
    /\ UNCHANGED <<triggers, proxy, log, since, got>>

(* ... whose write to the client ends, with or without an error; *)
Written(s) ==
    /\ Free
    /\ at[s] = "sending"
    /\ Moves(s, "select")
    /\ UNCHANGED <<inbox, triggers, proxy, log, since, got>>

(* or it sees that the client has closed the socket. *)
Close(s) ==
    /\ Free
    /\ at[s] = "select"
    /\ Moves(s, "removing")
    /\ UNCHANGED <<inbox, triggers, proxy, log, since, got>>

(* Mutant: the entry is taken out without its lock. *)
InnerFree_Always(s) == TRUE

(* Nobody has locked the inner shard of s. *)
InnerFree(s) == proxy.inner # PlaceOf(s)

(* remove_session: the write lock of the inner shard.  The receiver lives  *)
(* until the handler returns.                                              *)
Remove(s) ==
    /\ at[s] = "removing"
    /\ InnerFree(s)
    /\ Moves(s, "none")
    /\ inbox' = [inbox EXCEPT ![s] = <<>>]
    /\ since' = [since EXCEPT ![s] = 0]
    /\ got' = [got EXCEPT ![s] = {}]
    /\ UNCHANGED <<triggers, proxy, log>>

(* The process restarts: everything here lives in memory only. *)
Restart ==
    /\ at' = [s \in Sessions |-> "none"]
    /\ inbox' = [s \in Sessions |-> <<>>]
    /\ triggers' = <<>>
    /\ proxy' = Waiting
    /\ since' = [s \in Sessions |-> 0]
    /\ got' = [s \in Sessions |-> {}]
    /\ UNCHANGED log

-----------------------------------------------------------------------------
Init ==
    /\ at = [s \in Sessions |-> "none"]
    /\ inbox = [s \in Sessions |-> <<>>]
    /\ triggers = <<>> /\ log = <<>>
    /\ proxy = Waiting
    /\ since = [s \in Sessions |-> 0]
    /\ got = [s \in Sessions |-> {}]

Proxy ==
    \/ Receive
    \/ \E k \in Shards : LockOuter(k)
    \/ \E p \in Users \X Shards : LockInner(p)
    \/ \E s \in Sessions : Send(s)
    \/ Unlock

(* What the session does without its client. *)
Runs(s) == Create(s) \/ Upgrade(s) \/ UpgradeFails(s) \/ Take(s) \/ Written(s) \/ Remove(s)

Next ==
    \/ \E target \in Users \union {Everyone} : Trigger(target)
    \/ Proxy
    \/ \E s \in Sessions : Connect(s) \/ Runs(s) \/ Close(s)
    \/ Restart

Spec == Init /\ [][Next]_vars

(* The runtime polls every task that can go on, and a write to a client    *)
(* ends at last, with an error if the client is gone.                      *)
FairSpec == Spec /\ WF_vars(Proxy) /\ \A s \in Sessions : WF_vars(Runs(s))
-----------------------------------------------------------------------------
(* Properties *)

(* Every update queued after a session was made, and for its user, is on   *)
(* its way or was put in the session's channel, whatever sessions come and *)
(* go while the proxy iterates.                                            *)
NothingMissed ==
    \A s \in Sessions : Open(s) =>
      \A id \in since[s] + 1 .. Len(log) :
        log[id] \in {Owner[s], Everyone} =>
          id \in got[s] \/ id = proxy.msg \/ \E i \in DOMAIN triggers : triggers[i] = id

(* The proxy never sends to an entry that was removed under it: what       *)
(* remove_session deletes is not in the shard being iterated.              *)
IteratesEntries == \A i \in DOMAIN proxy.to : Registered(proxy.to[i])

(* A session is sent an update that is for its user, once, and after all   *)
(* the updates queued before it that it is ever sent: nobody overtakes     *)
(* between the handlers and the client, and no iteration comes twice.      *)
DeliveredInOrder ==
    [][\A s \in Sessions : Len(inbox'[s]) > Len(inbox[s]) =>
         LET sent == inbox'[s][Len(inbox'[s])]
         IN  /\ log[sent] \in {Owner[s], Everyone}
             /\ \A id \in got[s] : id < sent]_vars

Due(s, id) ==
    /\ Open(s)
    /\ id \in since[s] + 1 .. Len(log)
    /\ log[id] \in {Owner[s], Everyone}
WrittenOut(s, id) == id \in got[s] /\ \A i \in DOMAIN inbox[s] : inbox[s][i] # id

(* "test_broadcast_reaches_all_sessions" (state.rs:190), in any run: an    *)
(* update for a session is written to its client, unless the session ends  *)
(* before.                                                                 *)
UpdatesReachSessions ==
    \A s \in Sessions, id \in 1 .. MaxMessages :
      Due(s, id) ~> (WrittenOut(s, id) \/ ~Open(s))

(* Nobody waits for a lock of the map for ever. *)
LocksAreGranted ==
    \A s \in Sessions :
      /\ at[s] = "creating" ~> at[s] # "creating"
      /\ at[s] = "removing" ~> at[s] # "removing"
=============================================================================

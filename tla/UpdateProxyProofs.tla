------------------------- MODULE UpdateProxyProofs -------------------------
(***************************************************************************)
(* Theorems about UpdateProxy, for any number of users, sessions, shards,  *)
(* workers and updates and channels of any capacity.  None of them needs   *)
(* a worker to be free: that matters for liveness only.                    *)
(***************************************************************************)
EXTENDS UpdateProxy, FiniteSetTheorems, SequenceTheorems, TLAPS

Places == Users \X Shards

(* The proxy as a record of the right types; it is at rest without a       *)
(* message, and what it iterates over is in the shard that it has locked.  *)
ProxyOK ==
    /\ proxy \in [msg : 0 .. MaxMessages, shards : SUBSET Shards, outer : Shards \union {None},
                  inners : SUBSET Places, inner : Places \union {None}, to : Seq(Sessions)]
    /\ proxy.msg = 0 => proxy = Waiting
    /\ \A i \in DOMAIN proxy.to : proxy.inner = PlaceOf(proxy.to[i])

HistoryOK == Len(log) <= MaxMessages

(* The iteration has not come to the session yet. *)
Ahead(s) ==
    \/ OuterShard[Owner[s]] \in proxy.shards
    \/ /\ OuterShard[Owner[s]] = proxy.outer
       /\ \/ PlaceOf(s) \in proxy.inners
          \/ \E i \in DOMAIN proxy.to : proxy.to[i] = s

Queued(id) == \E i \in DOMAIN triggers : triggers[i] = id

(* NothingMissed, and for the message under way: the iteration will come   *)
(* to every session that has not got it.                                   *)
NothingPassedBy ==
    \A s \in Sessions : Open(s) =>
      \A id \in since[s] + 1 .. Len(log) :
        log[id] \in {Owner[s], Everyone} =>
          id \in got[s] \/ Queued(id) \/ (id = proxy.msg /\ Ahead(s))

(* The inductive invariant of the proxy. *)
ProxyInv == TypeOK /\ ProxyOK /\ HistoryOK /\ IteratesEntries /\ NothingPassedBy

(* The trigger channel holds the updates in the order of the log, and none *)
(* that is not newer than the one under way.                               *)
QueueInOrder ==
    /\ \A i \in DOMAIN triggers : triggers[i] <= Len(log) /\ proxy.msg < triggers[i]
    /\ \A i, j \in DOMAIN triggers : i < j => triggers[i] < triggers[j]
    /\ proxy.msg <= Len(log)

(* What a session was sent is older than everything that is queued, and no *)
(* newer than the update under way.                                        *)
SentIsOlder ==
    \A s \in Sessions : \A id \in got[s] :
      /\ id <= Len(log)
      /\ \A i \in DOMAIN triggers : id < triggers[i]
      /\ proxy.msg # 0 => id <= proxy.msg

(* The iteration never comes to a place twice: the shard it has locked is  *)
(* not among those to come, on either level, what it has still to visit    *)
(* has a session that the update is for, and no session is sent to twice.  *)
IterationAdvances ==
    /\ proxy.outer \notin proxy.shards /\ proxy.inner \notin proxy.inners
    /\ \A p \in Users \X Shards : p \in proxy.inners \/ p = proxy.inner =>
         OuterShard[p[1]] = proxy.outer /\ For(proxy.msg, p[1])
    /\ \A i, j \in DOMAIN proxy.to : proxy.to[i] = proxy.to[j] => i = j

(* A session that has got the update under way is behind the iteration.    *)
SentOnce == \A s \in Sessions : proxy.msg \in got[s] => ~Ahead(s)

(* Why updates arrive in order, on top of ProxyInv. *)
OrderInv == QueueInOrder /\ SentIsOlder /\ IterationAdvances /\ SentOnce

-----------------------------------------------------------------------------
(* Iterations *)

LEMMA PlacesAreTyped == \A s \in Sessions : PlaceOf(s) \in Places
  BY ConstantsOK DEF PlaceOf, Places

LEMMA NoneIsNoPlace == None \notin Shards /\ None \notin Places
  BY ConstantsOK DEF Places

(* An order of a set of sessions meets each of them. *)
LEMMA OrdersMeetAll ==
    ASSUME NEW S \in SUBSET Sessions, NEW f \in Orders(S)
    PROVE  f \in Seq(S) /\ \A s \in S : \E i \in DOMAIN f : f[i] = s
  <1>1. IsFiniteSet(S) /\ Cardinality(S) \in Nat
    BY ConstantsOK, FS_Subset, FS_CardinalityType
  <1>2. /\ f \in [1 .. Cardinality(S) -> S]
        /\ \A i, j \in 1 .. Cardinality(S) : f[i] = f[j] => i = j
    BY DEF Orders
  <1>3. f \in Seq(S)
    BY <1>1, <1>2
  <1>4. ASSUME NEW s \in S, \A i \in 1 .. Cardinality(S) : f[i] # s
        PROVE  FALSE
    <2> DEFINE D == 1 .. Cardinality(S)
               T == S \ {s}
    <2>1. IsFiniteSet(T) /\ Cardinality(T) = Cardinality(S) - 1
      BY <1>1, <1>4, FS_RemoveElement
    <2>2. IsFiniteSet(D) /\ Cardinality(D) = Cardinality(S)
      BY <1>1, FS_Interval
    <2>3. f \in [D -> T]
      BY <1>2, <1>4
    <2>4. Cardinality(T) < Cardinality(D)
      BY <1>1, <2>1, <2>2
    <2>5. \A i, j \in D : f[i] = f[j] => i = j
      BY <1>2
    <2> HIDE DEF D, T
    <2>6. \E i, j \in D : i # j /\ f[i] = f[j]
      BY <2>1, <2>2, <2>3, <2>4, FS_PigeonHole
    <2>7. QED
      BY <2>5, <2>6
  <1>5. QED
    BY <1>2, <1>3, <1>4

LEMMA TailFacts ==
    ASSUME NEW T, NEW q \in Seq(T), q # <<>>
    PROVE  /\ Head(q) = q[1] /\ Head(q) \in T
           /\ Tail(q) \in Seq(T) /\ Len(Tail(q)) = Len(q) - 1
           /\ \A i \in DOMAIN Tail(q) : i + 1 \in DOMAIN q /\ Tail(q)[i] = q[i + 1]
           /\ \A i \in DOMAIN q : i # 1 => i - 1 \in DOMAIN Tail(q) /\ Tail(q)[i - 1] = q[i]
  <1>1. Len(q) \in Nat \ {0} /\ DOMAIN q = 1 .. Len(q)
    BY EmptySeq, LenProperties
  <1>2. /\ Head(q) = q[1] /\ Head(q) \in T
        /\ Tail(q) \in Seq(T) /\ Len(Tail(q)) = Len(q) - 1
        /\ \A i \in 1 .. Len(Tail(q)) : Tail(q)[i] = q[i + 1]
    BY <1>1, HeadTailProperties
  <1>3. DOMAIN Tail(q) = 1 .. Len(q) - 1
    BY <1>2, LenProperties
  <1>4. QED
    BY <1>1, <1>2, <1>3

-----------------------------------------------------------------------------
LEMMA ProxyInitInv == Init => ProxyInv
  <1> SUFFICES ASSUME Init PROVE ProxyInv
    OBVIOUS
  <1> USE ConstantsOK
  <1>1. TypeOK
    BY DEF Init, TypeOK, Waiting
  <1>2. ProxyOK /\ HistoryOK /\ IteratesEntries
    BY DEF Init, ProxyOK, HistoryOK, IteratesEntries, Waiting, Places
  <1>3. NothingPassedBy
    BY DEF Init, NothingPassedBy, Open, Registered
  <1>4. QED
    BY <1>1, <1>2, <1>3 DEF ProxyInv

LEMMA TriggerStep ==
    ASSUME ProxyInv, NEW target \in Users \union {Everyone}, Trigger(target)
    PROVE  ProxyInv'
  <1> USE DEF ProxyInv
  <1>1. /\ log' = Append(log, target) /\ Len(log') = Len(log) + 1
        /\ \A id \in 1 .. Len(log) : log'[id] = log[id]
        /\ triggers' = Append(triggers, Len(log')) /\ Len(triggers') = Len(triggers) + 1
        /\ triggers'[Len(triggers')] = Len(log')
        /\ \A i \in DOMAIN triggers : i \in DOMAIN triggers' /\ triggers'[i] = triggers[i]
        /\ Len(triggers') \in DOMAIN triggers'
        /\ UNCHANGED <<at, inbox, proxy, since, got>>
    BY DEF Trigger, TypeOK
  <1>2. TypeOK' /\ HistoryOK'
    BY <1>1, ConstantsOK DEF Trigger, TypeOK, HistoryOK
  <1>3. ProxyOK' /\ IteratesEntries'
    BY <1>1 DEF ProxyOK, IteratesEntries, Registered
  <1>4. NothingPassedBy'
    <2> SUFFICES ASSUME NEW s \in Sessions, Open(s)', NEW id \in (since[s] + 1 .. Len(log))',
                        log'[id] \in {Owner[s], Everyone}
                 PROVE  (id \in got[s] \/ Queued(id) \/ (id = proxy.msg /\ Ahead(s)))'
      BY DEF NothingPassedBy
    <2>1. CASE id = Len(log')
      BY <1>1, <2>1 DEF Queued
    <2>2. CASE id # Len(log')
      <3>1. id \in since[s] + 1 .. Len(log) /\ id \in 1 .. Len(log)
        BY <1>1, <2>2 DEF TypeOK
      <3>2. id \in got[s] \/ Queued(id) \/ (id = proxy.msg /\ Ahead(s))
        BY <1>1, <3>1 DEF NothingPassedBy, Open, Registered
      <3>3. QED
        BY <1>1, <3>2 DEF Queued, Ahead
    <2>3. QED
      BY <2>1, <2>2
  <1>5. QED
    BY <1>2, <1>3, <1>4

-----------------------------------------------------------------------------
(* The proxy *)

LEMMA ReceiveStep ==
    ASSUME ProxyInv, QueueInOrder, Receive
    PROVE  ProxyInv'
  <1> USE DEF ProxyInv
  <1>1. /\ triggers \in Seq(1 .. MaxMessages) /\ triggers # <<>>
        /\ Head(triggers) = triggers[1] /\ Head(triggers) \in 1 .. MaxMessages
        /\ triggers' = Tail(triggers) /\ triggers' \in Seq(1 .. MaxMessages)
        /\ Len(triggers') = Len(triggers) - 1
        /\ \A i \in DOMAIN triggers : i # 1 => i - 1 \in DOMAIN triggers' /\ triggers'[i - 1] = triggers[i]
    BY TailFacts DEF Receive, TypeOK
  <1>2. /\ proxy' = [msg |-> Head(triggers), shards |-> Visited(Head(triggers)), outer |-> None,
                     inners |-> {}, inner |-> None, to |-> <<>>]
        /\ UNCHANGED <<at, inbox, log, since, got>>
    BY DEF Receive, Waiting
  <1> DEFINE shards == Visited(Head(triggers))
  <1>3. shards \in SUBSET Shards
    <2>1. Head(triggers) \in 1 .. Len(log)
      BY <1>1 DEF QueueInOrder, TypeOK
    <2>2. log[Head(triggers)] \in Users \union {Everyone}
      BY <2>1 DEF TypeOK
    <2>3. QED
      BY <2>2, ConstantsOK DEF Visited
  <1> HIDE DEF shards
  <1>4. TypeOK' /\ HistoryOK'
    BY <1>1, <1>2, <1>3, ConstantsOK DEF TypeOK, HistoryOK, shards
  <1>5. ProxyOK' /\ IteratesEntries'
    BY <1>1, <1>2, <1>3 DEF ProxyOK, IteratesEntries, shards
  <1>6. NothingPassedBy'
    <2> SUFFICES ASSUME NEW s \in Sessions, Open(s)', NEW id \in (since[s] + 1 .. Len(log))',
                        log'[id] \in {Owner[s], Everyone}
                 PROVE  (id \in got[s] \/ Queued(id) \/ (id = proxy.msg /\ Ahead(s)))'
      BY DEF NothingPassedBy
    <2>1. id # 0 /\ id \in since[s] + 1 .. Len(log)
      BY <1>2 DEF TypeOK
    <2>2. id \in got[s] \/ Queued(id)
      BY <1>2, <2>1 DEF NothingPassedBy, Open, Registered, Receive
    <2>3. id = Head(triggers) => Ahead(s)'
      BY <1>2, ConstantsOK DEF Ahead, Visited
    <2>4. QED
      BY <1>1, <1>2, <2>2, <2>3 DEF Queued
  <1>7. QED
    BY <1>4, <1>5, <1>6

(* A step of the iteration that moves on keeps every session ahead that    *)
(* has not got the message.                                                *)
LEMMA IterationStep ==
    ASSUME ProxyInv, UNCHANGED <<at, triggers, log, since>>,
           proxy'.msg = proxy.msg,
           \A s \in Sessions : got[s] \subseteq got'[s],
           \A s \in Sessions : Open(s) /\ Ahead(s) /\ log[proxy.msg] \in {Owner[s], Everyone}
                                 => proxy.msg \in got'[s] \/ Ahead(s)'
    PROVE  NothingPassedBy'
  BY DEF ProxyInv, NothingPassedBy, Open, Registered, Queued

LEMMA LockOuterStep ==
    ASSUME ProxyInv, NEW k \in Shards, LockOuter(k)
    PROVE  ProxyInv'
  <1> USE DEF ProxyInv
  <1>1. /\ proxy' = [proxy EXCEPT !.shards = @ \ {k}, !.outer = k, !.inners = Inners(k)]
        /\ proxy.outer = None /\ k \in proxy.shards
        /\ UNCHANGED <<at, inbox, triggers, log, since, got>>
    BY DEF LockOuter
  <1>2. Inners(k) \in SUBSET Places
    BY PlacesAreTyped DEF Inners
  <1>3. /\ proxy'.msg = proxy.msg /\ proxy'.shards = proxy.shards \ {k} /\ proxy'.outer = k
        /\ proxy'.inners = Inners(k) /\ proxy'.inner = proxy.inner /\ proxy'.to = proxy.to
        /\ proxy.msg # 0
    BY <1>1 DEF ProxyOK, Waiting
  <1>4. TypeOK' /\ HistoryOK'
    BY <1>1, <1>2, <1>3 DEF TypeOK, HistoryOK, Places
  <1>5. ProxyOK' /\ IteratesEntries'
    BY <1>1, <1>2, <1>3 DEF ProxyOK, IteratesEntries, Registered
  <1>6. ASSUME NEW s \in Sessions, Open(s), Ahead(s), log[proxy.msg] \in {Owner[s], Everyone}
        PROVE  Ahead(s)'
    <2>1. OuterShard[Owner[s]] \in proxy.shards
      BY <1>1, <1>6, ConstantsOK DEF Ahead
    <2>2. PlaceOf(s) \in Inners(k) \/ OuterShard[Owner[s]] # k
      BY <1>6 DEF Inners, Open, For, PlaceOf
    <2>3. QED
      BY <1>3, <2>1, <2>2 DEF Ahead
  <1>7. NothingPassedBy'
    BY <1>1, <1>3, <1>6, IterationStep
  <1>8. QED
    BY <1>4, <1>5, <1>7

LEMMA LockInnerStep ==
    ASSUME ProxyInv, NEW p \in Places, LockInner(p)
    PROVE  ProxyInv'
  <1> USE DEF ProxyInv
  <1> DEFINE S == {s \in Sessions : Registered(s) /\ PlaceOf(s) = p}
  <1>1. PICK to \in Orders(S) : proxy' = [proxy EXCEPT !.inners = @ \ {p}, !.inner = p, !.to = to]
    BY DEF LockInner
  <1>2. /\ proxy.inner = None /\ p \in proxy.inners
        /\ UNCHANGED <<at, inbox, triggers, log, since, got>>
    BY DEF LockInner
  <1>3. /\ to \in Seq(S) /\ \A s \in S : \E i \in DOMAIN to : to[i] = s
    BY OrdersMeetAll
  <1>4. /\ to \in Seq(Sessions)
        /\ \A i \in DOMAIN to : to[i] \in Sessions /\ Registered(to[i]) /\ PlaceOf(to[i]) = p
    BY <1>3
  <1>5. /\ proxy'.msg = proxy.msg /\ proxy'.shards = proxy.shards /\ proxy'.outer = proxy.outer
        /\ proxy'.inners = proxy.inners \ {p} /\ proxy'.inner = p /\ proxy'.to = to
        /\ proxy.msg # 0
    BY <1>1, <1>2 DEF ProxyOK, Waiting
  <1>6. TypeOK' /\ HistoryOK'
    BY <1>2, <1>4, <1>5 DEF TypeOK, HistoryOK, Places
  <1>7. ProxyOK' /\ IteratesEntries'
    BY <1>1, <1>2, <1>4, <1>5 DEF ProxyOK, IteratesEntries, Registered, PlaceOf
  <1>8. ASSUME NEW s \in Sessions, Open(s), Ahead(s), log[proxy.msg] \in {Owner[s], Everyone}
        PROVE  Ahead(s)'
    <2>1. CASE OuterShard[Owner[s]] \in proxy.shards
      BY <1>5, <2>1 DEF Ahead
    <2>2. CASE OuterShard[Owner[s]] \notin proxy.shards
      <3>1. ~ \E i \in DOMAIN proxy.to : proxy.to[i] = s
        BY <1>2, PlacesAreTyped, NoneIsNoPlace DEF ProxyOK
      <3>2. OuterShard[Owner[s]] = proxy.outer /\ PlaceOf(s) \in proxy.inners
        BY <1>8, <2>2, <3>1 DEF Ahead
      <3>3. CASE PlaceOf(s) = p
        <4>1. \E i \in DOMAIN to : to[i] = s
          BY <1>3, <1>8, <3>3 DEF Open
        <4>2. QED
          BY <1>5, <3>2, <4>1 DEF Ahead
      <3>4. CASE PlaceOf(s) # p
        <4>1. PlaceOf(s)' \in proxy'.inners
          BY <1>5, <3>2, <3>4 DEF PlaceOf
        <4>2. QED
          BY <1>5, <3>2, <4>1 DEF Ahead
      <3>5. QED
        BY <3>3, <3>4
    <2>3. QED
      BY <2>1, <2>2
  <1>9. NothingPassedBy'
    BY <1>2, <1>5, <1>8, IterationStep
  <1>10. QED
    BY <1>6, <1>7, <1>9

LEMMA SendStep ==
    ASSUME ProxyInv, NEW r \in Sessions, Send(r)
    PROVE  ProxyInv'
  <1> USE DEF ProxyInv
  <1>1. /\ proxy.to # <<>> /\ r = Head(proxy.to)
        /\ proxy' = [proxy EXCEPT !.to = Tail(@)]
        /\ UNCHANGED <<at, triggers, log, since>>
    BY DEF Send
  <1>2. /\ proxy'.msg = proxy.msg /\ proxy'.shards = proxy.shards /\ proxy'.outer = proxy.outer
        /\ proxy'.inners = proxy.inners /\ proxy'.inner = proxy.inner
        /\ proxy'.to = Tail(proxy.to) /\ proxy.msg # 0
    BY <1>1 DEF ProxyOK, Waiting
  <1>3. /\ r = proxy.to[1]
        /\ proxy'.to \in Seq(Sessions)
        /\ \A i \in DOMAIN proxy'.to : i + 1 \in DOMAIN proxy.to /\ proxy'.to[i] = proxy.to[i + 1]
        /\ \A i \in DOMAIN proxy.to : i # 1 => i - 1 \in DOMAIN proxy'.to /\ proxy'.to[i - 1] = proxy.to[i]
    BY <1>1, <1>2, TailFacts DEF ProxyOK
  <1>4. ProxyOK' /\ IteratesEntries'
    <2>1. proxy' \in [msg : 0 .. MaxMessages, shards : SUBSET Shards,
                      outer : Shards \union {None}, inners : SUBSET Places,
                      inner : Places \union {None}, to : Seq(Sessions)]
      BY <1>1, <1>3, <1>2 DEF ProxyOK
    <2>2. \A i \in DOMAIN proxy'.to :
            proxy'.inner = PlaceOf(proxy'.to[i]) /\ Registered(proxy'.to[i])
      BY <1>2, <1>3 DEF ProxyOK, IteratesEntries
    <2>3. QED
      BY <1>1, <1>2, <2>1, <2>2 DEF ProxyOK, IteratesEntries, Registered, PlaceOf
  <1>5. CASE /\ Open(r) /\ HasRoom(r)
             /\ inbox' = [inbox EXCEPT ![r] = Append(@, proxy.msg)]
             /\ got' = [got EXCEPT ![r] = @ \union {proxy.msg}]
    <2>1. proxy.msg \in 1 .. MaxMessages
      BY <1>2 DEF ProxyOK
    <2>2. /\ Append(inbox[r], proxy.msg) \in Seq(1 .. MaxMessages)
          /\ Len(Append(inbox[r], proxy.msg)) <= SessionCap
      BY <1>5, <2>1, ConstantsOK DEF TypeOK, HasRoom
    <2>3. TypeOK' /\ HistoryOK'
      BY <1>1, <1>2, <1>3, <1>5, <2>1, <2>2 DEF TypeOK, HistoryOK
    <2>4. proxy.msg \in got'[r] /\ \A s \in Sessions : got[s] \subseteq got'[s]
      BY <1>5 DEF TypeOK
    <2>5. \A s \in Sessions : Ahead(s) => s = r \/ Ahead(s)'
      BY <1>2, <1>3 DEF Ahead, PlaceOf
    <2>6. NothingPassedBy'
      BY <1>1, <1>2, <2>4, <2>5, IterationStep
    <2>7. QED
      BY <1>4, <2>3, <2>6
  <1>6. CASE ~Open(r) /\ UNCHANGED <<inbox, got>>
    <2>1. TypeOK' /\ HistoryOK'
      BY <1>1, <1>2, <1>3, <1>6 DEF TypeOK, HistoryOK
    <2>2. \A s \in Sessions : Ahead(s) => s = r \/ Ahead(s)'
      BY <1>2, <1>3 DEF Ahead, PlaceOf
    <2>3. NothingPassedBy'
      BY <1>1, <1>2, <1>6, <2>2, IterationStep
    <2>4. QED
      BY <1>4, <2>1, <2>3
  <1>7. QED
    BY <1>5, <1>6 DEF Send

(* Nothing is ahead when the iteration leaves the map: the message is in   *)
(* the channel of everybody it is for.                                     *)
LEMMA UnlockStep ==
    ASSUME ProxyInv, Unlock
    PROVE  ProxyInv'
  <1> USE DEF ProxyInv
  <1>1. proxy.to = <<>> /\ UNCHANGED <<at, inbox, triggers, log, since, got>>
    BY DEF Unlock
  <1>2. CASE proxy.inner # None /\ proxy' = [proxy EXCEPT !.inner = None]
    <2>1. /\ proxy'.msg = proxy.msg /\ proxy'.shards = proxy.shards /\ proxy'.outer = proxy.outer
          /\ proxy'.inners = proxy.inners /\ proxy'.inner = None /\ proxy'.to = proxy.to
          /\ proxy.msg # 0
      BY <1>2 DEF ProxyOK, Waiting
    <2>2. /\ TypeOK' /\ HistoryOK' /\ ProxyOK'
          /\ IteratesEntries'
      <3>1. TypeOK' /\ HistoryOK'
        BY <1>1, <2>1 DEF TypeOK, HistoryOK
      <3>2. ProxyOK' /\ IteratesEntries'
        BY <1>1, <1>2, <2>1 DEF ProxyOK, IteratesEntries
      <3>3. QED
        BY <3>1, <3>2
    <2>3. \A s \in Sessions : Ahead(s) => Ahead(s)'
      BY <2>1 DEF Ahead, PlaceOf
    <2>4. NothingPassedBy'
      BY <1>1, <2>1, <2>3, IterationStep
    <2>5. QED
      BY <2>2, <2>4
  <1>3. CASE /\ proxy.inner = None /\ proxy.inners = {} /\ proxy.outer # None
             /\ proxy' = [proxy EXCEPT !.outer = None]
    <2>1. /\ proxy'.msg = proxy.msg /\ proxy'.shards = proxy.shards /\ proxy'.outer = None
          /\ proxy'.inners = proxy.inners /\ proxy'.inner = proxy.inner /\ proxy'.to = proxy.to
          /\ proxy.msg # 0
      BY <1>3 DEF ProxyOK, Waiting
    <2>2. /\ TypeOK' /\ HistoryOK' /\ ProxyOK'
          /\ IteratesEntries'
      <3>1. TypeOK' /\ HistoryOK'
        BY <1>1, <2>1 DEF TypeOK, HistoryOK
      <3>2. ProxyOK' /\ IteratesEntries'
        BY <1>1, <1>3, <2>1 DEF ProxyOK, IteratesEntries
      <3>3. QED
        BY <3>1, <3>2
    <2>3. \A s \in Sessions : Ahead(s) => Ahead(s)'
      BY <1>1, <1>3, <2>1 DEF Ahead
    <2>4. NothingPassedBy'
      BY <1>1, <2>1, <2>3, IterationStep
    <2>5. QED
      BY <2>2, <2>4
  <1>4. CASE /\ proxy.outer = None /\ proxy.shards = {} /\ proxy.msg # 0
             /\ proxy' = Waiting
    <2>1. TypeOK' /\ HistoryOK' /\ ProxyOK' /\ IteratesEntries'
      BY <1>1, <1>4, ConstantsOK DEF TypeOK, HistoryOK, ProxyOK, IteratesEntries, Waiting
    <2>2. \A s \in Sessions : ~Ahead(s)
      BY <1>1, <1>4, ConstantsOK DEF Ahead
    <2>3. NothingPassedBy'
      BY <1>1, <2>2 DEF NothingPassedBy, Open, Registered, Queued
    <2>4. QED
      BY <2>1, <2>3
  <1>5. QED
    BY <1>2, <1>3, <1>4 DEF Unlock

-----------------------------------------------------------------------------
(* The sessions *)

(* A session that only moves, and is in the map before and after or is     *)
(* none the proxy iterates over.                                           *)
LEMMA MoveStep ==
    ASSUME ProxyInv, NEW s \in Sessions,
           NEW place \in {"creating", "upgrading", "select", "sending", "removing"},
           Moves(s, place),
           UNCHANGED <<triggers, proxy, log, since, got>>,
           Open(s) \/ place = "creating",
           place = "creating" => at[s] = "none",
           inbox' \in [Sessions -> Seq(1 .. MaxMessages)],
           \A t \in Sessions : Len(inbox'[t]) <= SessionCap
    PROVE  ProxyInv'
  <1> USE DEF ProxyInv
  <1>1. /\ at' \in [Sessions -> {"none", "creating", "upgrading", "select", "sending", "removing",
                                 "leaked"}]
        /\ at'[s] = place /\ \A t \in Sessions : t # s => at'[t] = at[t]
    BY DEF Moves, TypeOK
  <1>2. \A t \in Sessions : (Registered(t) => Registered(t)') /\ (Open(t)' => Open(t))
    BY <1>1 DEF Registered, Open
  <1>3. TypeOK' /\ HistoryOK' /\ ProxyOK'
    BY <1>1 DEF TypeOK, HistoryOK, ProxyOK, PlaceOf
  <1>4. IteratesEntries'
    BY <1>2 DEF IteratesEntries, ProxyOK
  <1>5. NothingPassedBy'
    BY <1>2 DEF NothingPassedBy, Queued, Ahead, PlaceOf
  <1>6. QED
    BY <1>3, <1>4, <1>5

LEMMA CreateStep ==
    ASSUME ProxyInv, NEW s \in Sessions, Create(s)
    PROVE  ProxyInv'
  <1> USE DEF ProxyInv
  <1>1. /\ at' \in [Sessions -> {"none", "creating", "upgrading", "select", "sending", "removing",
                                 "leaked"}]
        /\ at'[s] = "upgrading" /\ \A t \in Sessions : t # s => at'[t] = at[t]
        /\ since' \in [Sessions -> 0 .. MaxMessages]
        /\ since'[s] = Len(log) /\ \A t \in Sessions : t # s => since'[t] = since[t]
        /\ UNCHANGED <<inbox, triggers, proxy, log, got>>
    BY DEF Create, Moves, TypeOK, HistoryOK
  <1>2. TypeOK' /\ HistoryOK' /\ ProxyOK'
    BY <1>1 DEF TypeOK, HistoryOK, ProxyOK, PlaceOf
  <1>3. IteratesEntries'
    BY <1>1 DEF IteratesEntries, ProxyOK, Registered
  <1>4. ASSUME NEW t \in Sessions, t # s
        PROVE  Open(t)' => Open(t)
    BY <1>1, <1>4 DEF Open, Registered
  <1>5. since'[s] + 1 .. Len(log') = {}
    BY <1>1 DEF TypeOK
  <1>6. NothingPassedBy'
    BY <1>1, <1>4, <1>5 DEF NothingPassedBy, Queued, Ahead, PlaceOf
  <1>7. QED
    BY <1>2, <1>3, <1>6

LEMMA UpgradeFailsStep ==
    ASSUME ProxyInv, NEW s \in Sessions, UpgradeFails(s)
    PROVE  ProxyInv'
  <1> USE DEF ProxyInv
  <1>1. /\ at' \in [Sessions -> {"none", "creating", "upgrading", "select", "sending", "removing",
                                 "leaked"}]
        /\ at'[s] = "leaked" /\ \A t \in Sessions : t # s => at'[t] = at[t]
        /\ at[s] = "upgrading"
        /\ inbox' = [inbox EXCEPT ![s] = <<>>]
        /\ UNCHANGED <<triggers, proxy, log, since, got>>
    BY DEF UpgradeFails, Moves, TypeOK
  <1>2. TypeOK' /\ HistoryOK' /\ ProxyOK'
    BY <1>1, ConstantsOK DEF TypeOK, HistoryOK, ProxyOK, PlaceOf
  <1>3. IteratesEntries'
    BY <1>1 DEF IteratesEntries, ProxyOK, Registered
  <1>4. \A t \in Sessions : Open(t)' => Open(t)
    BY <1>1 DEF Open, Registered
  <1>5. NothingPassedBy'
    BY <1>1, <1>4 DEF NothingPassedBy, Queued, Ahead, PlaceOf
  <1>6. QED
    BY <1>2, <1>3, <1>5

(* A session that is removed is in another inner shard than the proxy is.  *)
LEMMA RemoveStep ==
    ASSUME ProxyInv, NEW s \in Sessions, Remove(s)
    PROVE  ProxyInv'
  <1> USE DEF ProxyInv
  <1>1. /\ at' \in [Sessions -> {"none", "creating", "upgrading", "select", "sending", "removing",
                                 "leaked"}]
        /\ at'[s] = "none" /\ \A t \in Sessions : t # s => at'[t] = at[t]
        /\ inbox' = [inbox EXCEPT ![s] = <<>>]
        /\ since' = [since EXCEPT ![s] = 0] /\ got' = [got EXCEPT ![s] = {}]
        /\ proxy.inner # PlaceOf(s)
        /\ UNCHANGED <<triggers, proxy, log>>
    BY DEF Remove, Moves, TypeOK, InnerFree
  <1>2. TypeOK' /\ HistoryOK' /\ ProxyOK'
    BY <1>1, ConstantsOK DEF TypeOK, HistoryOK, ProxyOK, PlaceOf
  <1>3. \A i \in DOMAIN proxy.to : proxy.to[i] \in Sessions /\ proxy.to[i] # s
    BY <1>1 DEF ProxyOK
  <1>4. IteratesEntries'
    BY <1>1, <1>3 DEF IteratesEntries, Registered
  <1>5. \A t \in Sessions : Open(t)' => Open(t) /\ t # s
    BY <1>1 DEF Open, Registered
  <1>6. \A t \in Sessions : t # s => since'[t] = since[t] /\ got'[t] = got[t]
    BY <1>1 DEF TypeOK
  <1>7. NothingPassedBy'
    BY <1>1, <1>5, <1>6 DEF NothingPassedBy, Queued, Ahead, PlaceOf
  <1>8. QED
    BY <1>2, <1>4, <1>7

LEMMA RestartStep ==
    ASSUME ProxyInv, Restart
    PROVE  ProxyInv'
  <1> USE DEF ProxyInv
  <1>1. TypeOK' /\ HistoryOK'
    BY ConstantsOK DEF Restart, TypeOK, HistoryOK, Waiting
  <1>2. ProxyOK' /\ IteratesEntries'
    BY ConstantsOK DEF Restart, ProxyOK, IteratesEntries, Waiting, Places
  <1>3. NothingPassedBy'
    BY DEF Restart, NothingPassedBy, Open, Registered
  <1>4. QED
    BY <1>1, <1>2, <1>3

-----------------------------------------------------------------------------
(* The order of the updates *)

LEMMA Numbers ==
    ASSUME TypeOK
    PROVE  /\ \A i \in DOMAIN triggers : i \in Nat \ {0} /\ triggers[i] \in Nat \ {0}
           /\ \A s \in Sessions : \A id \in got[s] : id \in Nat
  <1>1. triggers \in Seq(1 .. MaxMessages) /\ \A s \in Sessions : got[s] \subseteq 1 .. MaxMessages
    BY DEF TypeOK
  <1>2. DOMAIN triggers = 1 .. Len(triggers) /\ Len(triggers) \in Nat
        /\ \A i \in 1 .. Len(triggers) : triggers[i] \in 1 .. MaxMessages
    BY <1>1, ElementOfSeq, LenProperties
  <1>3. QED
    BY <1>1, <1>2, ConstantsOK

LEMMA OrderInit == Init => OrderInv
  <1> SUFFICES ASSUME Init PROVE OrderInv
    OBVIOUS
  <1>1. /\ triggers = <<>> /\ log = <<>> /\ proxy = Waiting
        /\ \A s \in Sessions : got[s] = {}
    BY DEF Init
  <1>2. QueueInOrder /\ SentIsOlder /\ SentOnce
    BY <1>1 DEF QueueInOrder, SentIsOlder, SentOnce, Waiting
  <1>3. IterationAdvances
    BY <1>1, NoneIsNoPlace DEF IterationAdvances, Waiting, Places
  <1>4. QED
    BY <1>2, <1>3 DEF OrderInv

(* A step of a session sends nothing.                                      *)
LEMMA SessionsKeepOrder ==
    ASSUME OrderInv, UNCHANGED <<triggers, proxy, log>>,
           \A s \in Sessions : got'[s] \subseteq got[s]
    PROVE  OrderInv'
  <1>1. QueueInOrder' /\ SentIsOlder' /\ SentOnce'
    BY DEF OrderInv, QueueInOrder, SentIsOlder, SentOnce, Ahead, PlaceOf
  <1>2. IterationAdvances'
    BY DEF OrderInv, IterationAdvances, For
  <1>3. QED
    BY <1>1, <1>2 DEF OrderInv

(* The iteration goes on and sends nothing. *)
LEMMA IterationKeepsOrder ==
    ASSUME OrderInv, UNCHANGED <<triggers, log, got>>, proxy'.msg = proxy.msg,
           IterationAdvances', \A s \in Sessions : Ahead(s)' => Ahead(s)
    PROVE  OrderInv'
  BY DEF OrderInv, QueueInOrder, SentIsOlder, SentOnce

LEMMA TriggerOrder ==
    ASSUME ProxyInv, OrderInv, NEW target \in Users \union {Everyone}, Trigger(target)
    PROVE  OrderInv'
  <1> USE DEF ProxyInv, OrderInv
  <1>1. /\ log' = Append(log, target) /\ Len(log') = Len(log) + 1 /\ Len(log) \in Nat
        /\ \A id \in 1 .. Len(log) : log'[id] = log[id]
        /\ triggers' = Append(triggers, Len(log'))
        /\ DOMAIN triggers' = DOMAIN triggers \union {Len(triggers) + 1}
        /\ triggers'[Len(triggers) + 1] = Len(log')
        /\ \A i \in DOMAIN triggers : triggers'[i] = triggers[i] /\ i < Len(triggers) + 1
        /\ UNCHANGED <<at, inbox, proxy, since, got>>
    BY DEF Trigger, TypeOK
  <1>2. /\ proxy.msg \in Nat
        /\ \A i \in DOMAIN triggers : i \in Nat /\ triggers[i] \in Nat
        /\ \A s \in Sessions : \A id \in got[s] : id \in Nat
    BY Numbers DEF ProxyOK
  <1>3. QueueInOrder'
    BY <1>1, <1>2 DEF QueueInOrder
  <1>4. SentIsOlder'
    BY <1>1, <1>2 DEF SentIsOlder
  <1>5. IterationAdvances'
    <2>1. ASSUME NEW p \in Users \X Shards, p \in proxy.inners \/ p = proxy.inner
          PROVE  OuterShard[p[1]] = proxy.outer /\ For(proxy.msg, p[1])'
      <3>1. proxy.msg \in 1 .. Len(log)
        <4>1. proxy.msg # 0
          BY <2>1, NoneIsNoPlace DEF ProxyOK, Waiting, Places
        <4>2. QED
          BY <4>1, <1>1, <1>2 DEF QueueInOrder
      <3>2. QED
        BY <1>1, <2>1, <3>1 DEF IterationAdvances, For
    <2>2. QED
      BY <1>1, <2>1 DEF IterationAdvances
  <1>6. SentOnce'
    BY <1>1 DEF SentOnce, Ahead, PlaceOf
  <1>7. QED
    BY <1>3, <1>4, <1>5, <1>6

(* The update that is taken is older than what stays in the channel, and   *)
(* newer than everything that was sent.                                    *)
LEMMA ReceiveOrder ==
    ASSUME ProxyInv, OrderInv, Receive
    PROVE  OrderInv'
  <1> USE DEF ProxyInv, OrderInv
  <1>1. /\ triggers \in Seq(1 .. MaxMessages) /\ triggers # <<>> /\ 1 \in DOMAIN triggers
        /\ Head(triggers) = triggers[1] /\ Head(triggers) \in 1 .. MaxMessages
        /\ triggers' = Tail(triggers)
        /\ \A i \in DOMAIN triggers' : /\ i \in Nat \ {0} /\ i + 1 \in DOMAIN triggers
                                       /\ triggers'[i] = triggers[i + 1]
    <2>1. triggers \in Seq(1 .. MaxMessages) /\ triggers # <<>> /\ triggers' = Tail(triggers)
      BY DEF Receive, TypeOK
    <2>2. DOMAIN triggers = 1 .. Len(triggers) /\ Len(triggers) \in Nat \ {0}
      BY <2>1, EmptySeq, LenProperties
    <2>3. /\ Head(triggers) = triggers[1] /\ Head(triggers) \in 1 .. MaxMessages
          /\ Tail(triggers) \in Seq(1 .. MaxMessages)
          /\ \A i \in DOMAIN Tail(triggers) : i + 1 \in DOMAIN triggers
                                              /\ Tail(triggers)[i] = triggers[i + 1]
      BY <2>1, TailFacts
    <2>4. \A i \in DOMAIN Tail(triggers) : i \in Nat \ {0}
      BY <2>3, LenProperties
    <2>5. QED
      BY <2>1, <2>2, <2>3, <2>4
  <1>2. /\ proxy'.msg = triggers[1] /\ proxy'.outer = None /\ proxy'.inners = {}
        /\ proxy'.inner = None /\ proxy'.to = <<>>
        /\ proxy'.shards = Visited(triggers[1])
        /\ UNCHANGED <<at, inbox, log, since, got>>
    BY <1>1 DEF Receive, Waiting
  <1>3. /\ \A i \in DOMAIN triggers : triggers[i] \in Nat
        /\ \A s \in Sessions : \A id \in got[s] : id \in Nat
    BY Numbers
  <1>4. QueueInOrder'
    BY <1>1, <1>2, <1>3 DEF QueueInOrder
  <1>5. SentIsOlder'
    BY <1>1, <1>2, <1>3 DEF SentIsOlder
  <1>6. IterationAdvances'
    <2>1. None \notin Visited(triggers[1])
      <3>1. triggers[1] \in 1 .. Len(log)
        BY <1>1 DEF QueueInOrder, TypeOK
      <3>2. log[triggers[1]] \in Users \union {Everyone}
        BY <3>1 DEF TypeOK
      <3>3. QED
        BY <3>2, ConstantsOK DEF Visited
    <2>2. QED
      BY <1>2, <2>1, NoneIsNoPlace DEF IterationAdvances, Places
  <1>7. SentOnce'
    <2>1. \A s \in Sessions : triggers[1] \notin got[s]
      BY <1>1, <1>3 DEF SentIsOlder
    <2>2. QED
      BY <1>2, <2>1 DEF SentOnce
  <1>8. QED
    BY <1>4, <1>5, <1>6, <1>7

LEMMA LockOuterOrder ==
    ASSUME ProxyInv, OrderInv, NEW k \in Shards, LockOuter(k)
    PROVE  OrderInv'
  <1> USE DEF ProxyInv, OrderInv
  <1>1. /\ proxy'.msg = proxy.msg /\ proxy'.shards = proxy.shards \ {k} /\ proxy'.outer = k
        /\ proxy'.inners = Inners(k) /\ proxy'.inner = proxy.inner /\ proxy'.to = proxy.to
        /\ proxy.outer = None /\ k \in proxy.shards
        /\ UNCHANGED <<at, inbox, triggers, log, since, got>>
    BY DEF LockOuter, ProxyOK
  <1>2. proxy.inner = None
    BY <1>1, ConstantsOK DEF IterationAdvances, ProxyOK, Places
  <1>3. \A p \in Inners(k) : p \in Places /\ OuterShard[p[1]] = k /\ For(proxy.msg, p[1])
    BY PlacesAreTyped DEF Inners, PlaceOf
  <1>4. IterationAdvances'
    BY <1>1, <1>2, <1>3, NoneIsNoPlace DEF IterationAdvances, For, Places
  <1>5. ASSUME NEW s \in Sessions, Ahead(s)'
        PROVE  Ahead(s)
    BY <1>1, <1>5 DEF Ahead
  <1>6. QED
    BY <1>1, <1>4, <1>5, IterationKeepsOrder

(* The sessions of a place are found once, in some order. *)
LEMMA LockInnerOrder ==
    ASSUME ProxyInv, OrderInv, NEW p \in Places, LockInner(p)
    PROVE  OrderInv'
  <1> USE DEF ProxyInv, OrderInv
  <1> DEFINE S == {s \in Sessions : Registered(s) /\ PlaceOf(s) = p}
  <1>1. PICK to \in Orders(S) : proxy' = [proxy EXCEPT !.inners = @ \ {p}, !.inner = p, !.to = to]
    BY DEF LockInner
  <1>2. /\ proxy.inner = None /\ p \in proxy.inners
        /\ UNCHANGED <<at, inbox, triggers, log, since, got>>
    BY DEF LockInner
  <1>3. \A i, j \in DOMAIN to : to[i] = to[j] => i = j
    BY DEF Orders
  <1>4. \A i \in DOMAIN to : PlaceOf(to[i]) = p
    BY DEF Orders
  <1>5. /\ proxy'.msg = proxy.msg /\ proxy'.shards = proxy.shards /\ proxy'.outer = proxy.outer
        /\ proxy'.inners = proxy.inners \ {p} /\ proxy'.inner = p /\ proxy'.to = to
    BY <1>1 DEF ProxyOK
  <1>6. IterationAdvances'
    BY <1>2, <1>3, <1>5 DEF IterationAdvances, For
  <1>7. ASSUME NEW s \in Sessions, Ahead(s)'
        PROVE  Ahead(s)
    <2>1. PlaceOf(s) = p => OuterShard[Owner[s]] = proxy.outer
      BY <1>2 DEF IterationAdvances, Places, PlaceOf
    <2>2. QED
      BY <1>2, <1>4, <1>5, <1>7, <2>1 DEF Ahead, PlaceOf
  <1>8. QED
    BY <1>2, <1>5, <1>6, <1>7, IterationKeepsOrder

(* What a session is sent is for its user, and newer than all it was sent  *)
(* before: the iteration had not come to it yet.                           *)
LEMMA SentIsNext ==
    ASSUME ProxyInv, OrderInv, NEW s \in Sessions, Send(s)
    PROVE  /\ proxy.msg \in 1 .. Len(log) /\ log[proxy.msg] \in {Owner[s], Everyone}
           /\ \A id \in got[s] : id \in Nat /\ id < proxy.msg
           /\ 1 \in DOMAIN proxy.to /\ s = proxy.to[1]
  <1> USE DEF ProxyInv, OrderInv
  <1>1. proxy.to # <<>> /\ s = proxy.to[1] /\ 1 \in DOMAIN proxy.to
    BY TailFacts DEF Send, ProxyOK
  <1>2. proxy.msg \in Nat \ {0}
    BY <1>1 DEF ProxyOK, Waiting
  <1>3. proxy.inner = PlaceOf(s) /\ PlaceOf(s) \in Places
    BY <1>1, PlacesAreTyped DEF ProxyOK
  <1>4. OuterShard[Owner[s]] = proxy.outer /\ For(proxy.msg, Owner[s])
    BY <1>3 DEF IterationAdvances, PlaceOf, Places
  <1>5. Ahead(s)
    BY <1>1, <1>4 DEF Ahead
  <1>6. \A id \in got[s] : id \in Nat /\ id <= proxy.msg /\ id # proxy.msg
    BY <1>2, <1>5 DEF SentIsOlder, SentOnce, TypeOK
  <1>7. QED
    BY <1>1, <1>2, <1>4, <1>6 DEF QueueInOrder, For, TypeOK

LEMMA SendOrder ==
    ASSUME ProxyInv, OrderInv, NEW r \in Sessions, Send(r)
    PROVE  OrderInv'
  <1> USE DEF ProxyInv, OrderInv
  <1>1. /\ proxy.to # <<>> /\ UNCHANGED <<at, triggers, log, since>>
        /\ proxy'.msg = proxy.msg /\ proxy'.shards = proxy.shards /\ proxy'.outer = proxy.outer
        /\ proxy'.inners = proxy.inners /\ proxy'.inner = proxy.inner
        /\ proxy'.to = Tail(proxy.to)
    BY DEF Send, ProxyOK
  <1>2. \A i \in DOMAIN proxy'.to : /\ i \in Nat \ {0} /\ i + 1 \in DOMAIN proxy.to
                                    /\ proxy'.to[i] = proxy.to[i + 1]
    BY <1>1, TailFacts DEF ProxyOK
  <1>3. /\ proxy.msg \in 1 .. Len(log) /\ r = proxy.to[1] /\ 1 \in DOMAIN proxy.to
    BY SentIsNext
  <1>4. \A s \in Sessions : got'[s] = got[s] \/ (s = r /\ got'[s] = got[s] \union {proxy.msg})
    BY DEF Send, TypeOK
  <1>5. QueueInOrder'
    BY <1>1 DEF QueueInOrder
  <1>6. SentIsOlder'
    BY <1>1, <1>3, <1>4 DEF SentIsOlder, QueueInOrder
  <1>7. IterationAdvances'
    <2>1. \A i, j \in DOMAIN proxy'.to : proxy'.to[i] = proxy'.to[j] => i = j
      BY <1>2 DEF IterationAdvances
    <2>2. QED
      BY <1>1, <2>1 DEF IterationAdvances, For
  <1>8. SentOnce'
    <2>1. \A s \in Sessions : Ahead(s)' => Ahead(s)
      BY <1>1, <1>2 DEF Ahead, PlaceOf
    <2>2. ~Ahead(r)'
      <3>1. \A i \in DOMAIN proxy'.to : proxy'.to[i] # r
        BY <1>2, <1>3 DEF IterationAdvances
      <3>2. proxy.inner = PlaceOf(r) /\ PlaceOf(r) \in Places
        BY <1>3, PlacesAreTyped DEF ProxyOK
      <3>3. OuterShard[Owner[r]] = proxy.outer
        BY <3>2 DEF IterationAdvances, PlaceOf, Places
      <3>4. QED
        BY <1>1, <3>1, <3>2, <3>3 DEF Ahead, IterationAdvances, PlaceOf
    <2>3. QED
      BY <1>1, <1>4, <2>1, <2>2 DEF SentOnce
  <1>9. QED
    BY <1>5, <1>6, <1>7, <1>8

LEMMA UnlockOrder ==
    ASSUME ProxyInv, OrderInv, Unlock
    PROVE  OrderInv'
  <1> USE DEF ProxyInv, OrderInv
  <1>1. proxy.to = <<>> /\ UNCHANGED <<at, inbox, triggers, log, since, got>>
    BY DEF Unlock
  <1>2. CASE proxy.inner # None /\ proxy' = [proxy EXCEPT !.inner = None]
    <2>1. /\ proxy'.msg = proxy.msg /\ proxy'.shards = proxy.shards /\ proxy'.outer = proxy.outer
          /\ proxy'.inners = proxy.inners /\ proxy'.inner = None /\ proxy'.to = proxy.to
      BY <1>2 DEF ProxyOK
    <2>2. None \notin proxy.inners
      BY NoneIsNoPlace DEF ProxyOK
    <2>3. IterationAdvances'
      BY <1>1, <2>1, <2>2, NoneIsNoPlace DEF IterationAdvances, For, Places
    <2>4. \A s \in Sessions : Ahead(s)' => Ahead(s)
      BY <2>1 DEF Ahead, PlaceOf
    <2>5. QED
      BY <1>1, <2>1, <2>3, <2>4, IterationKeepsOrder
  <1>3. CASE /\ proxy.inner = None /\ proxy.inners = {} /\ proxy.outer # None
             /\ proxy' = [proxy EXCEPT !.outer = None]
    <2>1. /\ proxy'.msg = proxy.msg /\ proxy'.shards = proxy.shards /\ proxy'.outer = None
          /\ proxy'.inners = {} /\ proxy'.inner = None /\ proxy'.to = <<>>
      BY <1>1, <1>3 DEF ProxyOK
    <2>2. None \notin proxy.shards
      BY NoneIsNoPlace DEF ProxyOK
    <2>3. IterationAdvances'
      BY <2>1, <2>2, NoneIsNoPlace DEF IterationAdvances, Places
    <2>4. \A s \in Sessions : Ahead(s)' => Ahead(s)
      BY <2>1 DEF Ahead
    <2>5. QED
      BY <1>1, <2>1, <2>3, <2>4, IterationKeepsOrder
  <1>4. CASE /\ proxy.outer = None /\ proxy.shards = {} /\ proxy.msg # 0
             /\ proxy' = Waiting
    <2>1. /\ proxy'.msg = 0 /\ proxy'.shards = {} /\ proxy'.outer = None
          /\ proxy'.inners = {} /\ proxy'.inner = None /\ proxy'.to = <<>>
      BY <1>4 DEF Waiting
    <2>2. QueueInOrder'
      <3>1. \A i \in DOMAIN triggers : triggers[i] \in Nat /\ 0 < triggers[i]
        BY Numbers
      <3>2. Len(log) \in Nat
        BY DEF TypeOK
      <3>3. QED
        BY <1>1, <2>1, <3>1, <3>2 DEF QueueInOrder
    <2>3. SentIsOlder'
      BY <1>1, <2>1 DEF SentIsOlder
    <2>4. IterationAdvances'
      BY <2>1, NoneIsNoPlace DEF IterationAdvances, Places
    <2>5. SentOnce'
      BY <1>1, <2>1 DEF SentOnce, TypeOK
    <2>6. QED
      BY <2>2, <2>3, <2>4, <2>5
  <1>5. QED
    BY <1>2, <1>3, <1>4 DEF Unlock

LEMMA RestartOrder ==
    ASSUME ProxyInv, Restart
    PROVE  OrderInv'
  <1>1. /\ triggers' = <<>> /\ log' = log /\ proxy' = Waiting
        /\ \A s \in Sessions : got'[s] = {}
    BY DEF Restart
  <1>2. QueueInOrder' /\ SentIsOlder' /\ SentOnce'
    BY <1>1 DEF QueueInOrder, SentIsOlder, SentOnce, Waiting, ProxyInv, TypeOK
  <1>3. IterationAdvances'
    BY <1>1, NoneIsNoPlace DEF IterationAdvances, Waiting, Places
  <1>4. QED
    BY <1>2, <1>3 DEF OrderInv

(* Everything in order, whatever the step.                                 *)
LEMMA OrderStep == ProxyInv /\ OrderInv /\ [Next]_vars => OrderInv'
  <1> SUFFICES ASSUME ProxyInv, OrderInv, [Next]_vars PROVE OrderInv'
    OBVIOUS
  <1>1. ASSUME NEW target \in Users \union {Everyone}, Trigger(target) PROVE OrderInv'
    BY <1>1, TriggerOrder
  <1>2. CASE Proxy
    BY <1>2, ReceiveOrder, LockOuterOrder, LockInnerOrder, SendOrder, UnlockOrder DEF Proxy, Places
  <1>3. ASSUME NEW s \in Sessions, Connect(s) \/ Runs(s) \/ Close(s) PROVE OrderInv'
    <2>1. /\ UNCHANGED <<triggers, proxy, log>>
          /\ \A t \in Sessions : got'[t] \subseteq got[t]
      BY <1>3 DEF Connect, Runs, Close, Create, Upgrade, UpgradeFails, Take, Written, Remove,
         ProxyInv, TypeOK
    <2>2. QED
      BY <2>1, SessionsKeepOrder
  <1>4. CASE Restart
    BY <1>4, RestartOrder
  <1>5. CASE UNCHANGED vars
    BY <1>5, SessionsKeepOrder DEF vars
  <1>6. QED
    BY <1>1, <1>2, <1>3, <1>4, <1>5 DEF Next

-----------------------------------------------------------------------------
(* What the proxy has still to deliver, to whom and in which order, in     *)
(* every state.                                                            *)
LEMMA ProxyInvariant == Spec => [](ProxyInv /\ OrderInv)
  <1>1. ASSUME ProxyInv, OrderInv, [Next]_vars PROVE ProxyInv'
    <2>1. ASSUME NEW target \in Users \union {Everyone}, Trigger(target) PROVE ProxyInv'
      BY <1>1, <2>1, TriggerStep
    <2>2. CASE Proxy
      BY <1>1, <2>2, ReceiveStep, LockOuterStep, LockInnerStep, SendStep, UnlockStep
         DEF Proxy, Places, OrderInv
    <2>3. ASSUME NEW s \in Sessions, Connect(s) \/ Upgrade(s) \/ Written(s) \/ Close(s)
          PROVE  ProxyInv'
      <3>1. PICK place \in {"creating", "upgrading", "select", "sending", "removing"} :
                   /\ Moves(s, place) /\ UNCHANGED <<inbox, triggers, proxy, log, since, got>>
                   /\ Open(s) \/ place = "creating"
                   /\ place = "creating" => at[s] = "none"
        BY <2>3 DEF Connect, Upgrade, Written, Close, Open, Registered
      <3>2. QED
        BY <1>1, <3>1, MoveStep DEF ProxyInv, TypeOK
    <2>4. ASSUME NEW s \in Sessions, Take(s) PROVE ProxyInv'
      <3>1. /\ inbox' = [inbox EXCEPT ![s] = Tail(@)] /\ inbox[s] # <<>>
            /\ inbox[s] \in Seq(1 .. MaxMessages) /\ Len(inbox[s]) <= SessionCap
        BY <1>1, <2>4 DEF Take, ProxyInv, TypeOK
      <3>2. Tail(inbox[s]) \in Seq(1 .. MaxMessages) /\ Len(Tail(inbox[s])) <= SessionCap
        <4>1. Tail(inbox[s]) \in Seq(1 .. MaxMessages) /\ Len(Tail(inbox[s])) = Len(inbox[s]) - 1
          BY <3>1, HeadTailProperties
        <4>2. Len(inbox[s]) \in Nat /\ SessionCap \in Nat
          BY <3>1, LenProperties, ConstantsOK
        <4>3. QED
          BY <3>1, <4>1, <4>2
      <3>3. /\ inbox' \in [Sessions -> Seq(1 .. MaxMessages)]
            /\ \A t \in Sessions : Len(inbox'[t]) <= SessionCap
        BY <1>1, <3>1, <3>2 DEF ProxyInv, TypeOK
      <3>4. Moves(s, "sending") /\ Open(s) /\ UNCHANGED <<triggers, proxy, log, since, got>>
        BY <2>4 DEF Take, Open, Registered
      <3>5. QED
        BY <1>1, <3>3, <3>4, MoveStep
    <2>5. ASSUME NEW s \in Sessions, Create(s) \/ UpgradeFails(s) \/ Remove(s) PROVE ProxyInv'
      BY <1>1, <2>5, CreateStep, UpgradeFailsStep, RemoveStep
    <2>6. CASE Restart
      BY <1>1, <2>6, RestartStep
    <2>7. CASE UNCHANGED vars
      <3>1. TypeOK' /\ HistoryOK' /\ IteratesEntries'
        BY <1>1, <2>7 DEF vars, ProxyInv, TypeOK, HistoryOK, IteratesEntries, Registered
      <3>2. ProxyOK'
        BY <1>1, <2>7 DEF vars, ProxyInv, ProxyOK, PlaceOf
      <3>3. NothingPassedBy'
        BY <1>1, <2>7 DEF vars, ProxyInv, NothingPassedBy, Open, Registered, Queued, Ahead, PlaceOf
      <3>4. QED
        BY <3>1, <3>2, <3>3 DEF ProxyInv
    <2>8. QED
      BY <1>1, <2>1, <2>2, <2>3, <2>4, <2>5, <2>6, <2>7 DEF Next, Runs
  <1>2. QED
    BY <1>1, ProxyInitInv, OrderInit, OrderStep, PTL DEF Spec

(* The channels never hold more than their capacities, and everything has  *)
(* its type.                                                               *)
THEOREM UpdatesAreTyped == Spec => []TypeOK
  <1>1. ProxyInv => TypeOK
    BY DEF ProxyInv
  <1>2. QED
    BY <1>1, ProxyInvariant, PTL

(* No update is lost between the trigger channel and the channel of a      *)
(* session it is for, whoever connects, closes or is removed while the     *)
(* proxy iterates.                                                         *)
THEOREM NoUpdateIsMissed == Spec => []NothingMissed
  <1>1. ProxyInv => NothingMissed
    BY DEF ProxyInv, NothingPassedBy, NothingMissed, Queued
  <1>2. QED
    BY <1>1, ProxyInvariant, PTL

(* What the proxy iterates over is in the map: remove_session waits.       *)
THEOREM EntriesOutliveIterations == Spec => []IteratesEntries
  <1>1. ProxyInv => IteratesEntries
    BY DEF ProxyInv
  <1>2. QED
    BY <1>1, ProxyInvariant, PTL

(* A client is told of what concerns its user, of each update once and in  *)
(* the order in which the handlers announced them, whoever connects and    *)
(* leaves meanwhile and however long the proxy waits for a full channel.   *)
THEOREM UpdatesArriveInOrder == Spec => DeliveredInOrder
  <1>1. ASSUME ProxyInv, OrderInv, [Next]_vars, NEW s \in Sessions, Len(inbox'[s]) > Len(inbox[s])
        PROVE  LET sent == inbox'[s][Len(inbox'[s])]
               IN  /\ log[sent] \in {Owner[s], Everyone}
                   /\ \A id \in got[s] : id < sent
    <2>1. inbox[s] \in Seq(1 .. MaxMessages) /\ Len(inbox[s]) \in Nat
      BY <1>1 DEF ProxyInv, TypeOK
    <2>2. inbox'[s] # inbox[s] /\ inbox'[s] # <<>>
      BY <1>1, <2>1
    <2>3. ~Restart
      BY <2>2 DEF Restart
    <2>4. ASSUME NEW t \in Sessions, Take(t)
          PROVE  FALSE
      <3>1. inbox' = [inbox EXCEPT ![t] = Tail(@)] /\ inbox[t] # <<>>
        BY <2>4 DEF Take
      <3>2. t = s
        BY <1>1, <2>2, <3>1 DEF ProxyInv, TypeOK
      <3>3. inbox'[s] = Tail(inbox[s])
        BY <1>1, <3>1, <3>2 DEF ProxyInv, TypeOK
      <3>4. Len(Tail(inbox[s])) = Len(inbox[s]) - 1
        BY <2>1, <3>1, <3>2, TailFacts
      <3>5. QED
        BY <1>1, <2>1, <3>3, <3>4
    <2>5. PICK t \in Sessions : Send(t)
      BY <1>1, <2>2, <2>3, <2>4 DEF Next, Proxy, Runs, vars, ProxyInv, TypeOK, Trigger, Receive,
         LockOuter, LockInner, Unlock, Connect, Create, Upgrade, UpgradeFails, Written, Close,
         Remove
    <2>6. t = s /\ inbox'[s] = Append(inbox[s], proxy.msg)
      BY <1>1, <2>2, <2>5 DEF Send, ProxyInv, TypeOK
    <2>7. inbox'[s][Len(inbox'[s])] = proxy.msg
      BY <2>1, <2>6
    <2>8. QED
      BY <1>1, <2>5, <2>6, <2>7, SentIsNext
  <1>2. ProxyInv /\ OrderInv /\ [Next]_vars
          => [\A s \in Sessions : Len(inbox'[s]) > Len(inbox[s]) =>
                LET sent == inbox'[s][Len(inbox'[s])]
                IN  /\ log[sent] \in {Owner[s], Everyone}
                    /\ \A id \in got[s] : id < sent]_vars
    BY <1>1
  <1>3. QED
    BY <1>2, ProxyInvariant, PTL DEF Spec, DeliveredInOrder
=============================================================================

----------------------------- MODULE OidcLogin -----------------------------
(***************************************************************************)
(* A login through the provider: oidc_url gives a browser a state, in a    *)
(* cookie and in the url of the provider, and a nonce; the provider lets   *)
(* the user in and sends the browser, or whoever has the link, to          *)
(* oidc_callback with the state and a code; the server trades the code for *)
(* an id token with the nonce and asks the provider who the user is.       *)
(*                                                                         *)
(* A flow is what one call of oidc_url begins.  Its state, nonce and code  *)
(* are unguessable, so that they are the flow itself.  What the login does *)
(* to the account is the matter of Accounts, the ages of states and nonces *)
(* of Expiry, the configuration of LiveSettings: here it is one of         *)
(* Providers, which settings may change at any time.  PKCE, scopes and the *)
(* parameters of the urls are left out.                                    *)
(***************************************************************************)
EXTENDS Naturals

CONSTANTS
    Flows,
    Browsers,
    Callbacks,  \* the callbacks the server can be working on at once
    Providers,
    None

VARIABLES
    provider,  \* the provider OIDC is configured with
    states,    \* OidcState::state: the flows with an entry
    nonces,    \* OidcState::nonce
    flow,      \* history: who began a flow, and where
    coded,     \* the flows for which the provider has issued a code
    cookie,    \* the state in the browser's cookie
    call,      \* where each callback is
    asked,     \* history: how often the code of a flow was sent to a provider
    session    \* the flow that signed the browser in

loginVars == <<provider, states, nonces, flow, coded, cookie, call, asked, session>>

Rest  == [at |-> "idle"]
Begun == [by : Browsers, provider : Providers]

ASSUME NoneOK == None \notin Flows \union Begun

LoginTypeOK ==
    /\ provider \in Providers \union {None}
    /\ states \subseteq Flows /\ nonces \subseteq Flows /\ coded \subseteq Flows
    /\ flow \in [Flows -> Begun \union {None}]
    /\ cookie \in [Browsers -> Flows \union {None}]
    /\ call \in [Callbacks -> {Rest} \union
                   [at : {"token", "nonce", "userinfo", "sign_in"},
                    by : Browsers, flow : Flows, config : Providers]]
    /\ asked \in [Flows -> Nat]
    /\ session \in [Browsers -> Flows \union {None}]

-----------------------------------------------------------------------------
(* oidc_url *)
Url(b, f) ==
    /\ provider # None
    /\ flow[f] = None
    /\ flow' = [flow EXCEPT ![f] = [by |-> b, provider |-> provider]]
    /\ states' = states \union {f}
    /\ nonces' = nonces \union {f}
    /\ cookie' = [cookie EXCEPT ![b] = f]
    /\ UNCHANGED <<provider, coded, call, asked, session>>

(* The provider lets somebody in. *)
Authenticate(f) ==
    /\ flow[f] # None /\ f \notin coded
    /\ coded' = coded \union {f}
    /\ UNCHANGED <<provider, states, nonces, flow, cookie, call, asked, session>>

-----------------------------------------------------------------------------
(* oidc_callback *)

To(c, at) == call' = [call EXCEPT ![c].at = at]

(* A redirect, to /login when the login failed, which clears the cookie of *)
(* the browser.                                                            *)
Redirect(c) ==
    /\ call' = [call EXCEPT ![c] = Rest]
    /\ cookie' = [cookie EXCEPT ![call[c].by] = None]

(* An error, which leaves the browser as it is. *)
Error(c) == call' = [call EXCEPT ![c] = Rest] /\ UNCHANGED cookie

(* Mutant: the state is looked up and stays. *)
StatesWithout_Get(f) == states

StatesWithout(f) == states \ {f}

(* Mutant: the cookie is not compared. *)
Carries_Any(b, f) == TRUE

(* The cookie of the browser is the state of the flow. *)
Carries(b, f) == cookie[b] = f

(* Any browser may follow the link of a flow, once or more.  Without a     *)
(* configuration, with an error of the provider or without a state it is   *)
(* sent to /login.                                                         *)
CallbackVoid(b) ==
    /\ cookie' = [cookie EXCEPT ![b] = None]
    /\ UNCHANGED <<provider, states, nonces, flow, coded, call, asked, session>>

(* The configuration is copied; the state is taken out before the cookie   *)
(* and the code are looked at.                                             *)
Callback(c, b, f) ==
    /\ call[c] = Rest
    /\ provider # None /\ flow[f] # None
    /\ states' = StatesWithout(f)
    /\ IF f \in states /\ Carries(b, f) /\ f \in coded
       THEN /\ call' = [call EXCEPT ![c] = [at |-> "token", by |-> b, flow |-> f, config |-> provider]]
            /\ UNCHANGED cookie
       ELSE cookie' = [cookie EXCEPT ![b] = None] /\ UNCHANGED call
    /\ UNCHANGED <<provider, nonces, flow, coded, asked, session>>

(* The code is good once, at the provider that issued it. *)
Token(c) ==
    LET f == call[c].flow IN
    /\ call[c].at = "token"
    /\ asked' = [asked EXCEPT ![f] = @ + 1]
    /\ \/ asked[f] = 0 /\ flow[f].provider = call[c].config /\ To(c, "nonce") /\ UNCHANGED cookie
       \/ Redirect(c)
       \/ Error(c)
    /\ UNCHANGED <<provider, states, nonces, flow, coded, session>>

(* validate_jwk *)
Nonce(c) ==
    LET f == call[c].flow IN
    /\ call[c].at = "nonce"
    /\ nonces' = nonces \ {f}
    /\ IF f \in nonces THEN To(c, "userinfo") /\ UNCHANGED cookie ELSE Error(c)
    /\ UNCHANGED <<provider, states, flow, coded, asked, session>>

(* The provider names the user, who must be the one of the token. *)
UserInfo(c) ==
    /\ call[c].at = "userinfo"
    /\ \/ To(c, "sign_in") /\ UNCHANGED cookie
       \/ Redirect(c)
       \/ Error(c)
    /\ UNCHANGED <<provider, states, nonces, flow, coded, asked, session>>

(* resolve_oidc_user and what follows: a session, or a refusal. *)
FinishLogin(c) ==
    /\ call[c].at = "sign_in"
    /\ \/ Redirect(c) /\ session' = [session EXCEPT ![call[c].by] = call[c].flow]
       \/ (Redirect(c) \/ Error(c)) /\ UNCHANGED session
    /\ UNCHANGED <<provider, states, nonces, flow, coded, asked>>

-----------------------------------------------------------------------------
(* Settings are saved. *)
Reconfigure ==
    /\ provider' \in (Providers \union {None}) \ {provider}
    /\ UNCHANGED <<states, nonces, flow, coded, cookie, call, asked, session>>

(* Nonces first, then states. *)
SweepLogins ==
    /\ \/ \E f \in nonces : nonces' = nonces \ {f} /\ UNCHANGED states
       \/ \E f \in states : states' = states \ {f} /\ UNCHANGED nonces
    /\ UNCHANGED <<provider, flow, coded, cookie, call, asked, session>>

RestartLogins ==
    /\ states' = {} /\ nonces' = {}
    /\ call' = [c \in Callbacks |-> Rest]
    /\ UNCHANGED <<provider, flow, coded, cookie, asked, session>>

LoginInit ==
    /\ provider = None
    /\ states = {} /\ nonces = {} /\ coded = {}
    /\ flow = [f \in Flows |-> None]
    /\ cookie = [b \in Browsers |-> None]
    /\ call = [c \in Callbacks |-> Rest]
    /\ asked = [f \in Flows |-> 0]
    /\ session = [b \in Browsers |-> None]

CallbackStep ==
    \E c \in Callbacks :
      \/ \E b \in Browsers, f \in Flows : Callback(c, b, f)
      \/ Token(c) \/ Nonce(c) \/ UserInfo(c) \/ FinishLogin(c)

LoginNext ==
    \/ \E b \in Browsers, f \in Flows : Url(b, f)
    \/ \E f \in Flows : Authenticate(f)
    \/ \E b \in Browsers : CallbackVoid(b)
    \/ CallbackStep
    \/ Reconfigure \/ SweepLogins \/ RestartLogins

LoginSpec == LoginInit /\ [][LoginNext]_loginVars

-----------------------------------------------------------------------------
(* Properties *)

(* A browser is signed in only by a login it began itself: a link to the   *)
(* callback of somebody else's login signs nobody in.                      *)
LoginsAreOwn ==
    \A b \in Browsers : session[b] # None => flow[session[b]].by = b

(* The code of a login is traded once at most, whoever opens the link of   *)
(* the callback, twice or at the same time.                                *)
CodesSentOnce == \A f \in Flows : asked[f] <= 1

(* Why they hold.  A cookie, a callback and a session all name a flow that *)
(* their browser began.                                                    *)
OwnFlows ==
    /\ \A b \in Browsers : cookie[b] # None =>
         flow[cookie[b]] \in Begun /\ flow[cookie[b]].by = b
    /\ \A c \in Callbacks : call[c] # Rest =>
         flow[call[c].flow] \in Begun /\ flow[call[c].flow].by = call[c].by
    /\ \A b \in Browsers : session[b] # None =>
         flow[session[b]] \in Begun /\ flow[session[b]].by = b

(* The right to trade the code is the entry of the state, or the callback  *)
(* that took the entry out, and is gone when the code was sent.            *)
Trading(c) == call[c].at = "token"

TradesOnce ==
    /\ \A f \in Flows : f \in states => flow[f] \in Begun
    /\ \A f \in Flows : f \in states \/ flow[f] = None => asked[f] = 0
    /\ \A c \in Callbacks : Trading(c) =>
         call[c].flow \notin states /\ asked[call[c].flow] = 0
    /\ \A c, d \in Callbacks : Trading(c) /\ Trading(d) /\ c # d => call[c].flow # call[d].flow

LoginInv == LoginTypeOK /\ OwnFlows /\ TradesOnce /\ CodesSentOnce
=============================================================================

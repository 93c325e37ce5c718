------------------------------- MODULE Expiry -------------------------------
(***************************************************************************)
(* The maps in memory that a sweeper keeps small: reset tokens (swept      *)
(* every 600 s, kept for 3600 s), the states and nonces of OIDC logins     *)
(* (600 s, 600 s) and changes of email (60 s, 600 s).  None of them looks  *)
(* at the age of an entry that it uses, so the sweeper alone says for how  *)
(* long an entry is good.                                                  *)
(*                                                                         *)
(* One map; time in units of which Life and Interval are multiples.  A     *)
(* sweep takes no time and comes when it is due.                           *)
(***************************************************************************)
EXTENDS Naturals

CONSTANTS
    Keys,
    Life,      \* an entry of this age goes at the next sweep
    Interval,  \* between two sweeps
    NoEntry

ASSUME ExpiryOK ==
    /\ Life \in Nat \ {0} /\ Interval \in Nat \ {0}
    /\ NoEntry \notin Nat

VARIABLES
    age,   \* how old each entry of the map is
    rests  \* how long the sweeper sleeps on

expiryVars == <<age, rests>>

ExpiryTypeOK ==
    /\ age \in [Keys -> Nat \union {NoEntry}]
    /\ rests \in 0 .. Interval

Entries == {k \in Keys : age[k] # NoEntry}

(* generate_token; start_email_change; oidc_url. *)
Enter(k) ==
    /\ age' = [age EXCEPT ![k] = 0]
    /\ UNCHANGED rests

(* confirm_email_change, check_code and validate_jwk take the entry out.   *)
TakeOut(k) ==
    /\ k \in Entries
    /\ age' = [age EXCEPT ![k] = NoEntry]
    /\ UNCHANGED rests

Passes ==
    /\ rests > 0
    /\ rests' = rests - 1
    /\ age' = [k \in Keys |-> IF k \in Entries THEN age[k] + 1 ELSE NoEntry]

(* Mutant: <= for <. *)
Kept_Exactly(k) == age[k] <= Life

Kept(k) == age[k] < Life

SweepMap ==
    /\ rests = 0
    /\ rests' = Interval
    /\ age' = [k \in Keys |-> IF k \in Entries /\ Kept(k) THEN age[k] ELSE NoEntry]

(* The change map is swept at once, the others after the first interval.   *)
ExpiryInit ==
    /\ age = [k \in Keys |-> NoEntry]
    /\ rests \in {0, Interval}

ExpiryNext == (\E k \in Keys : Enter(k) \/ TakeOut(k)) \/ Passes \/ SweepMap

ExpirySpec == ExpiryInit /\ [][ExpiryNext]_expiryVars

-----------------------------------------------------------------------------
(* Properties *)

(* An entry is there to be used (a reset link, the codes of a change, the  *)
(* state of a login) for less than its life and one interval.              *)
NoneOutlives == \A k \in Entries : age[k] < Life + Interval

(* Why: what is left until the next sweep is part of the sum.              *)
ExpiryInv ==
    /\ ExpiryTypeOK
    /\ \A k \in Entries : age[k] + rests < Life + Interval
=============================================================================

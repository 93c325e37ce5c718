------------------------------ MODULE MCServer ------------------------------
(* Small instances of the components that share no state with one another, *)
(* for TLC: side by side in one run, each in the behaviours where focus    *)
(* says so, the others at rest in their one initial state.                 *)
EXTENDS Accounts, Avatars, Boot, EmailChange, Expiry, Layers, LiveSettings, OidcLogin,
        Requests, Storage, TLC

CONSTANTS u1, u2, s1, s2, ann, Ann, bob, v1, v2, token, junk

VARIABLE focus  \* bound: the component that moves

vars == <<focus, accountVars, avatarVars, bootVars, emailVars, expiryVars, layersVars,
          settingsVars, loginVars, requestVars, storageVars>>

(* ann and Ann are one address in two spellings. *)
OneSpelling == (ann :> ann) @@ (Ann :> ann) @@ (bob :> bob)

(* Environments with a secret that no client sends: the one knows nothing  *)
(* else, the other all that the service needs.                             *)
BareEnvironment == [on |-> Unset, secret |-> "e", which |-> Unset, creates |-> Unset]
FullEnvironment == [on |-> TRUE, secret |-> "e", which |-> "p", creates |-> Unset]

TwoEnvironments == {BareEnvironment, FullEnvironment}

TwoSettings ==
    { [on |-> TRUE, secret |-> "x", which |-> "p", creates |-> FALSE],
      [on |-> FALSE, secret |-> Unset, which |-> "q", creates |-> FALSE] }

Brought(bearer, fromCookie, query, basic) ==
    [bearer |-> bearer, cookie |-> fromCookie, query |-> query, basic |-> basic]

(* Nothing, the token, and garbage before and behind it. *)
FourHeaders ==
    { Brought(NoToken, NoToken, NoToken, NoToken), Brought(NoToken, NoToken, NoToken, token),
      Brought(NoToken, token, junk, NoToken), Brought(junk, token, NoToken, NoToken) }

Sizes       == (v1 :> 1) @@ (v2 :> 2)
ThreeRanges == {<<0, 0>>, <<1, 2>>, <<1, 3>>}

(* They differ in nothing but their names. *)
Symmetry == Permutations(AccountIds) \union Permutations(Saves)

ServerInit ==
    /\ focus \in {"accounts", "avatars", "boot", "email", "expiry", "layers", "settings",
                  "login", "requests", "storage"}
    /\ AccountsInit /\ (focus # "accounts" => account = [u \in AccountIds |-> NoRow])
    /\ BootInit /\ (focus # "boot" => backend = "Sqlite" /\ began = 0)
    /\ ExpiryInit /\ (focus # "expiry" => rests = 0)
    /\ LayersInit /\ (focus # "layers" => features = {})
    /\ SettingsInit /\ (focus # "settings" => service = "oidc" /\ env = BareEnvironment)
    /\ StorageInit /\ (focus # "storage" => kind = "Local")
    /\ AvatarsInit /\ EmailInit /\ LoginInit /\ RequestsInit

(* Bound: where the environment is full, one save is under way at a time.   *)
FewSaves == env = FullEnvironment => Cardinality(Busy) <= 1

ServerNext ==
    \/ /\ focus = "accounts" /\ AccountsNext
       /\ UNCHANGED <<focus, avatarVars, bootVars, emailVars, expiryVars, layersVars,
                      settingsVars, loginVars, requestVars, storageVars>>
    \/ /\ focus = "avatars" /\ AvatarsNext
       /\ UNCHANGED <<focus, accountVars, bootVars, emailVars, expiryVars, layersVars,
                      settingsVars, loginVars, requestVars, storageVars>>
    \/ /\ focus = "boot" /\ BootNext
       /\ UNCHANGED <<focus, accountVars, avatarVars, emailVars, expiryVars, layersVars,
                      settingsVars, loginVars, requestVars, storageVars>>
    \/ /\ focus = "email" /\ EmailNext
       /\ UNCHANGED <<focus, accountVars, avatarVars, bootVars, expiryVars, layersVars,
                      settingsVars, loginVars, requestVars, storageVars>>
    \/ /\ focus = "expiry" /\ ExpiryNext
       /\ UNCHANGED <<focus, accountVars, avatarVars, bootVars, emailVars, layersVars,
                      settingsVars, loginVars, requestVars, storageVars>>
    \/ /\ focus = "layers" /\ LayersNext
       /\ UNCHANGED <<focus, accountVars, avatarVars, bootVars, emailVars, expiryVars,
                      settingsVars, loginVars, requestVars, storageVars>>
    \/ /\ focus = "settings" /\ SettingsNext /\ FewSaves'
       /\ UNCHANGED <<focus, accountVars, avatarVars, bootVars, emailVars, expiryVars,
                      layersVars, loginVars, requestVars, storageVars>>
    \/ /\ focus = "login" /\ LoginNext
       /\ UNCHANGED <<focus, accountVars, avatarVars, bootVars, emailVars, expiryVars,
                      layersVars, settingsVars, requestVars, storageVars>>
    \/ /\ focus = "requests" /\ RequestsNext
       /\ UNCHANGED <<focus, accountVars, avatarVars, bootVars, emailVars, expiryVars,
                      layersVars, settingsVars, loginVars, storageVars>>
    \/ /\ focus = "storage" /\ StorageNext
       /\ UNCHANGED <<focus, accountVars, avatarVars, bootVars, emailVars, expiryVars,
                      layersVars, settingsVars, loginVars, requestVars>>

ServerSpec == ServerInit /\ [][ServerNext]_vars

(* What callers are told of files, and what sessions show of avatars, is    *)
(* true: each of the two is said in its own module.                        *)
BlobsTrue == AnswersTrue /\ AvatarsShown

(* Every component's variables have their types. *)
TypesOK ==
    /\ AccountsTypeOK /\ AvatarsTypeOK /\ BootTypeOK /\ EmailTypeOK /\ ExpiryTypeOK
    /\ LayersTypeOK /\ SettingsTypeOK /\ LoginTypeOK /\ RequestsTypeOK /\ StorageTypeOK
=============================================================================

---------------------------- MODULE LiveSettings ----------------------------
(***************************************************************************)
(* The settings of OIDC and of the mailer: the row that is saved, and the  *)
(* service that runs on it.  A save switches the service over, which for   *)
(* OIDC asks the provider for its configuration, and then writes the row;  *)
(* at boot a task starts OIDC from the row, over and over while that       *)
(* fails, and the server serves meanwhile.  The mailer starts before the   *)
(* server serves, and asks nobody.  A boot whose query fails goes on with  *)
(* the defaults.  The environment overrides the settings in what runs,     *)
(* never in the row.                                                       *)
(*                                                                         *)
(* Of the settings the switch, the secret, sso_create_user and one of the  *)
(* others (issuer, scopes, ...: which) are kept.  Clients send what was    *)
(* typed, or the form they were shown as it was.  Bound: a form is sent    *)
(* back before the row changes, and while nothing else is under way.       *)
(***************************************************************************)
EXTENDS Naturals

CONSTANTS
    Saves,     \* the requests that save settings at once
    Offered,   \* the settings clients type
    Envs,      \* environments: settings, of which unset fields are Unset
    Attempts,  \* OIDC_INIT_ATTEMPTS
    Unset,
    Stopped    \* the service does not run

VARIABLES
    service,  \* "oidc" or "mail"
    env,      \* the environment of the process
    row,      \* the row of `settings`
    live,     \* the configuration the service runs on
    setup,    \* the setup is complete
    told,     \* history: a client has sent back what the setup showed it
    save,     \* where each request is
    boot,     \* where the boot task is
    strays,   \* history: what the service may run on, other than by the row
    gaveUp    \* history: the service could not be started at boot

settingsVars == <<service, env, row, live, setup, told, save, boot, strays, gaveUp>>

Fields == {"on", "secret", "which", "creates"}

(* Every field is an Option. *)
Defaults == [f \in Fields |-> Unset]

(* overwrite_with_env_config *)
Overlaid(s, e) == [f \in Fields |-> IF e[f] = Unset THEN s[f] ELSE e[f]]

(* UserSettings::oidc_settings *)
OidcSettings(s) ==
    IF s.on = TRUE /\ s.which # Unset /\ s.secret # Unset
    THEN [which |-> s.which, secret |-> s.secret, creates |-> s.creates = TRUE]
    ELSE Stopped

(* MailSettings::smtp; `which` is the rest, all of it required. *)
Smtp(s) ==
    IF s.on = TRUE /\ s.which # Unset /\ s.secret # Unset
    THEN [which |-> s.which, secret |-> s.secret]
    ELSE Stopped

(* What the service runs on by the settings s. *)
Config(s) == IF service = "oidc" THEN OidcSettings(s) ELSE Smtp(s)

IsSettings(s) == s = [f \in Fields |-> s[f]]

ASSUME SettingsOK == Attempts \in Nat /\ \A s \in Offered \union Envs : IsSettings(s)

Idle    == [at |-> "idle"]
Marking == [at |-> "mark"]

(* What the field f may say; a setup switches on and creates.              *)
Said(f) == {s[f] : s \in Offered \union Envs \union {Defaults}}

Settings ==
    [on : Said("on") \union {TRUE}, secret : Said("secret"), which : Said("which"),
     creates : Said("creates") \union {TRUE}]

Configs ==
    [which : Said("which"), secret : Said("secret"), creates : BOOLEAN]
      \union [which : Said("which"), secret : Said("secret")] \union {Stopped}

SettingsTypeOK ==
    /\ service \in {"oidc", "mail"} /\ env \in Envs
    /\ row \in Settings
    /\ live \in Configs /\ strays \subseteq Configs
    /\ setup \in BOOLEAN /\ told \in BOOLEAN /\ gaveUp \in BOOLEAN
    /\ save \in [Saves -> {Idle} \union
                   [at : {"prepare", "set", "write"}, to : Settings, config : Configs, alone : BOOLEAN]]
    /\ boot \in {Idle, Marking} \union
                  [at : {"save", "fetch", "set", "sleep"}, to : Settings, config : Configs,
                   tries : 0 .. Attempts, skips : BOOLEAN, alone : BOOLEAN]

-----------------------------------------------------------------------------
(* The forms: what runs, and not what is saved.                            *)

(* each_field_from_env! *)
FieldsFromEnv(s) == Overlaid(s, env)

GetUserSettings == [FieldsFromEnv(row) EXCEPT !.secret = Unset]

GetMailSettings == [FieldsFromEnv(row) EXCEPT !.secret = Unset]

(* In a setup the secret is shown. *)
GetOidcSettings == FieldsFromEnv(row)

-----------------------------------------------------------------------------
(* Saving *)

Busy == {j \in Saves : save[j] # Idle}

Quiet == Busy = {} /\ boot = Idle

(* The others are not alone any more. *)
Arrives(j, q) ==
    save' = [i \in Saves |-> IF i = j THEN q
                             ELSE IF save[i] = Idle THEN Idle ELSE [save[i] EXCEPT !.alone = FALSE]]

Goes(j, to) == save' = [save EXCEPT ![j].at = to]

(* A save that was alone and written leaves the service on the row; others *)
(* may leave it on theirs.                                                 *)
Leaves(j, wrote) ==
    /\ save' = [save EXCEPT ![j] = Idle]
    /\ strays' = IF wrote /\ save[j].alone THEN {}
                ELSE (strays \union {save[j].config}) \intersect {live}

(* Nor is the boot task. *)
Overlapped == IF boot \in {Idle, Marking} THEN boot ELSE [boot EXCEPT !.alone = FALSE]

(* The request saves `to` and has the service run on `config`. *)
Begin(j, to, config) ==
    /\ save[j] = Idle
    /\ Arrives(j, [at |-> IF config = Stopped THEN "set" ELSE "prepare",
                   to |-> to, config |-> config, alone |-> Quiet])
    /\ boot' = Overlapped
    /\ UNCHANGED <<service, env, row, live, setup, strays, gaveUp>>

(* A secret that is left out, or empty, is the one in the row. *)
Completed(s) == [s EXCEPT !.secret = IF @ = Unset THEN row.secret ELSE @]

(* Mutant: settings_to_db is cloned after the overlay. *)
SaveUserSettings_Late(j, s) ==
    /\ service = "oidc"
    /\ Begin(j, Overlaid(Completed(s), env), OidcSettings(Overlaid(Completed(s), env)))
    /\ UNCHANGED told

SaveUserSettings(j, s) ==
    /\ service = "oidc"
    /\ Begin(j, Completed(s), OidcSettings(Overlaid(Completed(s), env)))
    /\ UNCHANGED told

SaveMailSettings(j, s) ==
    /\ service = "mail"
    /\ Begin(j, Completed(s), Smtp(Overlaid(Completed(s), env)))
    /\ UNCHANGED told

(* In a setup OIDC is to run and to create users, whatever the environment *)
(* says, and a secret that is left out is not kept.                        *)
InitOidc(j, s) ==
    LET Forced(t) == [t EXCEPT !.on = TRUE, !.creates = TRUE]
    IN  /\ service = "oidc" /\ ~setup
        /\ Begin(j, Forced(s), OidcSettings(Forced(Overlaid(s, env))))
        /\ told' = (told \/ s = GetOidcSettings)

(* The new configuration is there, or the request is refused with the row  *)
(* and the service as they were.                                           *)
Prepare(j) ==
    /\ save[j].at = "prepare"
    /\ \/ Goes(j, "set")
       \/ save' = [save EXCEPT ![j] = Idle]
    /\ UNCHANGED <<service, env, told, row, live, setup, boot, strays, gaveUp>>

(* OidcConfig::new: the provider tells its endpoints and keys, or not.     *)
FetchConfiguration(j) == service = "oidc" /\ Prepare(j)

(* MailConfig::new: the transport is built, or the settings are no good.   *)
BuildTransport(j) == service = "mail" /\ Prepare(j)

(* Mutant: a service that is switched off runs on until the next boot. *)
Set_On(j) ==
    /\ save[j].at = "set"
    /\ live' = IF save[j].config = Stopped THEN live ELSE save[j].config
    /\ gaveUp' = FALSE
    /\ strays' = {}
    /\ Goes(j, "write")
    /\ UNCHANGED <<service, env, told, row, setup, boot>>

(* The rest of try_init, or deactivate.  Who runs now is known by what he  *)
(* leaves, and nothing else runs.                                          *)
Set(j) ==
    /\ save[j].at = "set"
    /\ live' = save[j].config
    /\ gaveUp' = FALSE
    /\ strays' = {}
    /\ Goes(j, "write")
    /\ UNCHANGED <<service, env, told, row, setup, boot>>

WriteRow(j) ==
    /\ save[j].at = "write"
    /\ row' = save[j].to
    /\ Leaves(j, TRUE)
    /\ UNCHANGED <<service, env, told, live, setup, boot, gaveUp>>

(* The write fails, or the client is gone and the handler dropped.         *)
BreakOff(j) ==
    /\ save[j].at = "write"
    /\ Leaves(j, FALSE)
    /\ UNCHANGED <<service, env, told, row, live, setup, boot, gaveUp>>

-----------------------------------------------------------------------------
(* Boot *)

BootGoes(to) == boot' = [boot EXCEPT !.at = to]

(* A task of skip_setup sees to it that OIDC creates users: what it found  *)
(* before the server serves is written.  A failure is logged.              *)
BootSave ==
    /\ boot.at = "save"
    /\ row' \in {row, boot.to}
    /\ boot' = [boot EXCEPT !.at = "fetch", !.to = Defaults, !.alone = @ /\ row' = boot.to]
    /\ UNCHANGED <<service, env, told, live, setup, save, strays, gaveUp>>

BootFetch ==
    /\ boot.at = "fetch"
    /\ \/ BootGoes("set") /\ UNCHANGED gaveUp
       \/ /\ boot.tries + 1 < Attempts
          /\ boot' = [boot EXCEPT !.at = "sleep", !.tries = @ + 1]
          /\ UNCHANGED gaveUp
       \/ /\ boot.tries + 1 >= Attempts
          /\ boot' = Idle
          /\ gaveUp' = TRUE
    /\ UNCHANGED <<service, env, told, row, live, setup, save, strays>>

(* OIDC runs: a skipped setup is complete. *)
BootSucceeds == boot' = IF boot.skips THEN Marking ELSE Idle

(* Over whatever settings were saved since the task last looked.  One that *)
(* was alone and found the row leaves the service on the row.              *)
BootSet ==
    /\ boot.at = "set"
    /\ live' = boot.config
    /\ strays' = IF boot.alone THEN {} ELSE {boot.config}
    /\ gaveUp' = FALSE
    /\ BootSucceeds
    /\ UNCHANGED <<service, env, told, row, setup, save>>

(* Settings saved in the meantime run already. *)
BootWakes ==
    /\ boot.at = "sleep"
    /\ IF live # Stopped THEN BootSucceeds ELSE BootGoes("fetch")
    /\ UNCHANGED <<service, env, told, row, live, setup, save, strays, gaveUp>>

(* mark_completed, whose failure is logged. *)
BootMark ==
    /\ boot.at = "mark"
    /\ setup' \in {setup, TRUE}
    /\ boot' = Idle
    /\ UNCHANGED <<service, env, told, row, live, save, strays, gaveUp>>

(* The task that boot starts from the settings and the end of the setup    *)
(* that it found; `skip`: the variable SKIP_SETUP.                         *)
BootTask(found, ended, skip) ==
    LET config  == Config(Overlaid(found, env))
        skips   == skip /\ ~ended
        creates == skips /\ ~config.creates
    IN  IF service = "mail" \/ config = Stopped THEN Idle
        ELSE [at |-> IF creates THEN "save" ELSE "fetch",
              to |-> IF creates THEN [found EXCEPT !.creates = TRUE] ELSE Defaults,
              config |-> IF creates THEN [config EXCEPT !.creates = TRUE] ELSE config,
              tries |-> 0, skips |-> skips, alone |-> found = row]

(* get_settings().unwrap_or_default(), is_setup().unwrap_or(false): either *)
(* query may fail, or the row not be read.                                 *)
FoundSettings == {row, Defaults}
FoundEnded    == {setup, FALSE}

(* The process dies and starts.  Mailer::new may fail, which is ignored.   *)
Restart ==
    \E found \in FoundSettings, ended \in FoundEnded, skip \in BOOLEAN :
        /\ save' = [j \in Saves |-> Idle]
        /\ strays' = {Config(Overlaid(found, env))} \ {Config(Overlaid(row, env))}
        /\ boot' = BootTask(found, ended, skip)
        /\ \/ /\ live' = IF service = "oidc" THEN Stopped ELSE Config(Overlaid(found, env))
              /\ gaveUp' = FALSE
           \/ service = "mail" /\ live' = Stopped /\ gaveUp' = TRUE
        /\ UNCHANGED <<service, env, told, row, setup>>

(* The setup ends, by complete_setup or a first login. *)
SetupEnds ==
    /\ ~setup /\ setup' = TRUE
    /\ UNCHANGED <<service, env, told, row, live, save, boot, strays, gaveUp>>

(* The first boot, of an empty database, with the service in the           *)
(* environment or not.  What a failed query leaves is what there is.       *)
SettingsInit ==
    /\ service \in {"oidc", "mail"}
    /\ env \in Envs
    /\ row = Defaults
    /\ \/ live = (IF service = "oidc" THEN Stopped ELSE Config(Overlaid(row, env))) /\ gaveUp = FALSE
       \/ service = "mail" /\ live = Stopped /\ gaveUp = TRUE
    /\ setup = FALSE
    /\ save = [j \in Saves |-> Idle]
    /\ told = FALSE
    /\ boot \in {BootTask(row, FALSE, skip) : skip \in BOOLEAN}
    /\ strays = {}

Sent(form) == Offered \union IF Quiet THEN {form} ELSE {}

SaveStep ==
    \/ \E j \in Saves : \/ FetchConfiguration(j) \/ BuildTransport(j)
                      \/ Set(j) \/ WriteRow(j) \/ BreakOff(j)
    \/ \E j \in Saves :
         \/ \E s \in Sent(GetUserSettings) : SaveUserSettings(j, s)
         \/ \E s \in Sent(GetMailSettings) : SaveMailSettings(j, s)
         \/ \E s \in Sent(GetOidcSettings) : InitOidc(j, s)

SettingsNext ==
    \/ SaveStep
    \/ BootSave \/ BootFetch \/ BootSet \/ BootWakes \/ BootMark
    \/ Restart \/ SetupEnds

SettingsSpec == SettingsInit /\ [][SettingsNext]_settingsVars

-----------------------------------------------------------------------------
(* Properties *)

(* Once nothing is under way, the service runs on the settings that are    *)
(* saved, unless it was left on others: on those of a save that overlapped *)
(* with another or with the boot task, or broke off before the write, on   *)
(* those of a boot task that overlapped with a save, or failed to write    *)
(* what it found, or on the defaults after a boot whose query failed; or   *)
(* it does not run, because it could not be started at boot.  So after a   *)
(* save that was alone and written, and after a boot task that was alone,  *)
(* it runs on what is saved, and after a race on what one of those who     *)
(* raced had.  Where the environment says that OIDC is off, or that it     *)
(* creates no users, a setup and a skipped setup go against it until the   *)
(* next restart.                                                           *)
LiveIsSaved ==
    {env.on, env.creates} \subseteq {TRUE, Unset} /\ Quiet
      => \/ live \in strays \union {Config(Overlaid(row, env))}
         \/ gaveUp /\ live = Stopped

(* The secret that only the environment knows gets into the row by no save *)
(* and no boot, although the service runs on it and the settings page      *)
(* shows the rest of what runs; only by a client that sends back what the  *)
(* setup showed it.                                                        *)
EnvStaysOut ==
    env.secret # Unset /\ (\A s \in Offered : s.secret # env.secret)
      => row.secret # env.secret \/ told
=============================================================================

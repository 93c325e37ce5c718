-------------------------------- MODULE Boot --------------------------------
(***************************************************************************)
(* A server starts on a database it may find empty, made by an earlier     *)
(* start that did not come to its end, or made by an application from the  *)
(* time before the migrations of this library: it renames the records of   *)
(* those migrations, runs the migrations that have no record, sets the     *)
(* pragmas of SQLite, and loads or makes its two keys.  Then it serves.    *)
(*                                                                         *)
(* Every statement is a step.  An expect that fails is an end of the       *)
(* process like a crash; what holds a migration back every time, however   *)
(* often the process is started, is told apart as stage "refused".         *)
(*                                                                         *)
(* External (sea-orm-migration): each migration and its record are one     *)
(* transaction on Postgres and single statements on SQLite; a record that  *)
(* no migration has is an error.  The old migrations came in the order of  *)
(* their dates; m3 stood for two of them.                                  *)
(***************************************************************************)
EXTENDS Naturals, FiniteSets, Sequences

CONSTANTS
    MaxDeaths,   \* bound: how often the process dies
    MaxFailures  \* bound: how often the query for a key fails

ASSUME BootBounds == MaxDeaths \in Nat /\ MaxFailures \in Nat

VARIABLES
    backend,   \* of the connection
    began,     \* how many of the old migrations the database was made by
    schema,    \* the tables, columns and indexes there are
    pending,   \* those of the open transaction
    recorded,  \* seaql_migrations
    done,      \* statements done of the migration under way
    stage,     \* where the start has got to
    keys,      \* how many rows of the key table have the name
    used,      \* those that a start took for its own
    deaths, failures,
    halfway    \* the process once died between the halves of m6

bootVars == <<backend, began, schema, pending, recorded, done, stage, keys, used,
              deaths, failures, halfway>>

KeyNames == {"password", "jwt"}

-----------------------------------------------------------------------------
(* The migrations *)

UpKey == <<"key">>

UpInvalidJwt == <<"invalid_jwt">>

UpSettings == <<"settings">>

UpUser == <<"user", "user_avatar", "user_email_index">>

UpGroups == <<"group", "group_user", "group_permission",
              "group_user_group_index", "group_user_user_index", "group_permission_group_index">>

UpSetup == <<"setup">>

UpOidcSubject == <<"oidc_subject_column", "oidc_subject_index">>

Migrations ==
    <<"m0_key", "m1_invalid_jwt", "m2_settings", "m3_user", "m4_groups", "m5_setup",
      "m6_user_oidc_subject">>

Up(m) ==
    CASE m = "m0_key"         -> UpKey
      [] m = "m1_invalid_jwt" -> UpInvalidJwt
      [] m = "m2_settings"    -> UpSettings
      [] m = "m3_user"        -> UpUser
      [] m = "m4_groups"      -> UpGroups
      [] m = "m5_setup"       -> UpSetup
      [] m = "m6_user_oidc_subject" -> UpOidcSubject

(* Everything but the column is made IF NOT EXISTS.                        *)
IfNotExists(object) == object # "oidc_subject_column"

Pieces(m) == {Up(m)[i] : i \in DOMAIN Up(m)}

New(m) == [version |-> m, old |-> FALSE]
Old(m) == [version |-> m, old |-> TRUE]

(* By date; the avatars had a migration of their own.                      *)
OldMigrations ==
    <<"m0_key", "m1_invalid_jwt", "m3_user", "m4_groups", "m5_setup", "m2_settings",
      "user_avatar">>

OldPieces(m) ==
    CASE m = "user_avatar" -> {"user_avatar"}
      [] m = "m3_user"     -> Pieces("m3_user") \ {"user_avatar"}
      [] OTHER             -> Pieces(m)

-----------------------------------------------------------------------------
(* The start *)

BootInit ==
    /\ backend \in {"Postgres", "Sqlite"}
    /\ began \in 0 .. Len(OldMigrations)
    /\ schema = UNION {OldPieces(OldMigrations[i]) : i \in 1 .. began}
    /\ recorded = {Old(OldMigrations[i]) : i \in 1 .. began}
    /\ pending = {} /\ done = 0 /\ stage = "down"
    /\ keys = [n \in KeyNames |-> 0]
    /\ used = [n \in KeyNames |-> {}]
    /\ deaths = 0 /\ failures = 0 /\ halfway = FALSE

Move(from, to) == stage = from /\ stage' = to

(* create_connection. *)
Connect ==
    /\ Move("down", "renaming")
    /\ UNCHANGED <<backend, began, schema, pending, recorded, done, keys, used,
                   deaths, failures, halfway>>

(* The UPDATE: the six old versions get the names of today.                *)
Renamed(r) ==
    IF r.old /\ r.version # "user_avatar" THEN New(r.version) ELSE r

Rename ==
    /\ Move("renaming", "discarding")
    /\ recorded' = {Renamed(r) : r \in recorded}
    /\ UNCHANGED <<backend, began, schema, pending, done, keys, used,
                   deaths, failures, halfway>>

(* Mutant: the statement is not there. *)
Outdated_None(r) == FALSE

(* The DELETE: m3 makes the avatar table as well.                          *)
Outdated(r) == r = Old("user_avatar")

Discard ==
    /\ Move("discarding", "migrating")
    /\ recorded' = {r \in recorded : ~Outdated(r)}
    /\ UNCHANGED <<backend, began, schema, pending, done, keys, used,
                   deaths, failures, halfway>>

Open == {i \in DOMAIN Migrations : New(Migrations[i]) \notin recorded}

Current == Migrations[CHOOSE i \in Open : \A j \in Open : i <= j]

Unknown == recorded \ {New(Migrations[i]) : i \in DOMAIN Migrations}

(* M::up finds a record that it has no migration for, or a statement fails *)
(* on what is there already.                                               *)
Refuses ==
    \/ Unknown # {}
    \/ /\ Open # {}
       /\ done < Len(Up(Current))
       /\ LET object == Up(Current)[done + 1]
          IN  object \in schema /\ ~IfNotExists(object)

Refuse ==
    /\ Move("migrating", "refused")
    /\ Refuses
    /\ pending' = {} /\ done' = 0
    /\ UNCHANGED <<backend, began, schema, recorded, keys, used, deaths, failures, halfway>>

Execute ==
    /\ stage = "migrating"
    /\ ~Refuses /\ Open # {}
    /\ done < Len(Up(Current))
    /\ LET object == Up(Current)[done + 1]
       IN  IF backend = "Postgres"
             THEN pending' = pending \union {object} /\ UNCHANGED schema
             ELSE schema' = schema \union {object} /\ UNCHANGED pending
    /\ done' = done + 1
    /\ UNCHANGED <<backend, began, recorded, stage, keys, used, deaths, failures, halfway>>

Record ==
    /\ stage = "migrating"
    /\ ~Refuses /\ Open # {}
    /\ done = Len(Up(Current))
    /\ recorded' = recorded \union {New(Current)}
    /\ schema' = schema \union pending
    /\ pending' = {} /\ done' = 0
    /\ UNCHANGED <<backend, began, stage, keys, used, deaths, failures, halfway>>

Migrated ==
    /\ Move("migrating", "pragmas")
    /\ ~Refuses /\ Open = {}
    /\ UNCHANGED <<backend, began, schema, pending, recorded, done, keys, used,
                   deaths, failures, halfway>>

(* sqlite_init; then build_router calls state.                             *)
SqliteInit ==
    /\ Move("pragmas", "password")
    /\ UNCHANGED <<backend, began, schema, pending, recorded, done, keys, used,
                   deaths, failures, halfway>>

(* Mutant: one name in both queries. *)
KeyRows_Jwt(name) == 1 .. keys["jwt"]

(* get_key_by_name: the name is not unique, and any of the rows will do.   *)
KeyRows(name) == 1 .. keys[name]

(* create_key. *)
CreateKey(name) ==
    /\ keys' = [keys EXCEPT ![name] = @ + 1]
    /\ used' = [used EXCEPT ![name] = @ \union {keys[name] + 1}]

(* An error of the query, not only the absence of a row, has another key   *)
(* made.                                                                   *)
InitKey(name, next) ==
    /\ Move(name, next)
    /\ \/ \E row \in KeyRows(name) :
            /\ used' = [used EXCEPT ![name] = @ \union {row}]
            /\ UNCHANGED <<keys, failures>>
       \/ /\ KeyRows(name) = {} \/ failures < MaxFailures
          /\ CreateKey(name)
          /\ failures' = IF KeyRows(name) = {} THEN failures ELSE failures + 1
    /\ UNCHANGED <<backend, began, schema, pending, recorded, done, deaths, halfway>>

InitPwState == InitKey("password", "jwt")

InitWithAuth == InitKey("jwt", "serving")

(* shutdown_signal. *)
Shutdown ==
    /\ Move("serving", "down")
    /\ UNCHANGED <<backend, began, schema, pending, recorded, done, keys, used,
                   deaths, failures, halfway>>

HalfOfM6 ==
    /\ "oidc_subject_column" \in schema
    /\ New("m6_user_oidc_subject") \notin recorded

(* A crash, or an expect on a statement that failed.                       *)
Die ==
    /\ stage \notin {"down", "refused"}
    /\ deaths < MaxDeaths
    /\ deaths' = deaths + 1
    /\ stage' = "down"
    /\ pending' = {} /\ done' = 0
    /\ halfway' = (halfway \/ HalfOfM6)
    /\ UNCHANGED <<backend, began, schema, recorded, keys, used, failures>>

BootNext ==
    \/ Connect \/ Rename \/ Discard
    \/ Refuse \/ Execute \/ Record \/ Migrated
    \/ SqliteInit
    \/ InitPwState \/ InitWithAuth
    \/ Shutdown \/ Die

BootSpec == BootInit /\ [][BootNext]_bootVars

-----------------------------------------------------------------------------
(* Properties *)

(* What the entities of the library are made of. *)
Objects ==
    {"key", "invalid_jwt", "settings", "setup"}
      \union UNION {Pieces(m) : m \in {"m3_user", "m4_groups", "m6_user_oidc_subject"}}

BootTypeOK ==
    /\ schema \subseteq Objects /\ pending \subseteq Objects
    /\ recorded \subseteq {New(Migrations[i]) : i \in DOMAIN Migrations}
                          \union {Old(OldMigrations[i]) : i \in DOMAIN OldMigrations}
    /\ stage \in {"down", "renaming", "discarding", "migrating", "refused", "pragmas",
                  "password", "jwt", "serving"}
    /\ \A n \in KeyNames : used[n] \subseteq 1 .. keys[n]

(* However often the process dies and whatever database it starts on, the  *)
(* next start gets through the migrations and serves on the whole schema.  *)
(* There are two exceptions.  m6 has no IF NOT EXISTS for its column: on   *)
(* SQLite a death between the column and the record is one that no later   *)
(* start recovers from.  And a database from the days between the          *)
(* migrations of users and of avatars: the record of the first is taken    *)
(* for m3, which makes both tables.                                        *)
StartsWell ==
    /\ stage = "refused" => halfway /\ backend = "Sqlite"
    /\ stage = "serving" =>
         Objects \subseteq IF began \in 3 .. 6 THEN schema \union {"user_avatar"} ELSE schema

(* Every start signs and decrypts with the keys of the first, so that      *)
(* restarts end no session, unless the query for a key has failed once.    *)
KeysStay == failures = 0 => \A n \in KeyNames : Cardinality(used[n]) <= 1
=============================================================================

# A TLA+ model of centaurus

centaurus is a Rust library of building blocks for web servers: an axum backend with
users, groups and permissions, JWT sessions, OIDC login, a first-run setup, settings,
mail, file storage and a websocket that tells browsers to reload what changed. This
directory holds TLA+ modules for the parts of it that have behaviour over time, TLC
configurations that check them on small instances, and TLAPS proofs of the central
properties for instances of every size.

Paths below are relative to `src/centaurus/src/`.

## 1. The system

| Component | State it keeps | Operations | Talks to |
|---|---|---|---|
| User directory (`db/tables/{group,user}.rs`, `backend/endpoints/group.rs`, `backend/endpoints/user/{management,account,info}.rs`, `backend/auth/permission.rs`) | tables `user`, `group`, `group_user`, `group_permission` | create, edit, delete and convert users, create, edit and delete groups; permission checks | Updater (messages), Setup (which group is the admin group), Mailer |
| Setup (`backend/endpoints/setup.rs`, `db/tables/setup.rs`) | one row: admin group id, completed | `create_admin_group` at every boot, `complete_setup` once, `init_oidc` before it, skip of the setup by environment | User directory, JWT, OIDC |
| OIDC login (`backend/auth/oidc.rs`) | configuration (mutex), pending logins and nonces (maps with expiry) | `try_init`, `init_retrying`, `deactivate`, `oidc_url`, `oidc_callback` | provider (HTTP), User directory, Avatars, Setup, JWT |
| Sessions (`backend/auth/{jwt,jwt_auth,jwt_state,logout}.rs`, `db/tables/invalid_jwt.rs`) | signing key, table of revoked tokens, a counter | issue, check, revoke a token; sweep of expired rows | every handler, through the extractor `JwtAuth` |
| Update delivery (`backend/endpoints/websocket/*.rs`) | map user -> session -> channel; trigger channel; proxy task | `send_to`, `broadcast`, open and close a session | every handler that changes something |
| Settings (`backend/endpoints/settings.rs`, `db/tables/settings.rs`, `mail.rs`) | table `settings`; the live mailer and OIDC configuration | show, save and apply; start at boot, with retries | OIDC, Mailer, Updater |
| Email change (`backend/endpoints/user/email.rs`) | map user -> pending change, swept every minute | start, confirm | Mailer, User directory |
| Password reset and login (`backend/endpoints/mail/*.rs`, `backend/auth/password.rs`) | map token -> email, swept every ten minutes; transfer key | send a link, reset, log in | Mailer, User directory |
| Avatars (`backend/endpoints/user/account.rs`, `backend/auth/oidc.rs`, `db/tables/user.rs`) | table `user_avatar` | upload, picture of a login, reset, with the user's deletion | Updater, provider |
| Storage (`storage.rs`) | files, local or S3 | save, get, exists, delete | object_store |
| Database (`db/init.rs`, `db/migrations/`, `db/tables/key.rs`) | schema, records of migrations, keys | connect, migrate, load or make a key | all of the above |
| Router and middleware (`backend/router.rs`, `backend/init.rs`, `backend/middleware/`) | counters of the metrics | `build_router`, count a request | all handlers |
| Errors (`error.rs`) | none | the status of every kind of error | all handlers |

What makes the system hard: a handler is a sequence of database statements **without a
transaction**, so it can be refused or die half-way, and other handlers run between its
awaits; what a handler looked up may be stale when it writes; the counter of revoked tokens
is used without a lock; locks of maps in memory are held across an await and block threads;
the setup state is spread over a row, a group and the number of users; settings live in a
row, in a service and in the environment; permissions are compared between the sender and
the target of a request.

What makes each component correct:

- **User directory.** There is an admin group, it keeps its permissions and at least one
  member; nobody grants what they do not have; who loses or gains permissions is told. A
  user of the provider comes back to the same account, gets a password only where that is
  meant, and no account loses its last way in.
- **Setup.** The first user becomes admin, by whatever way it comes; a boot that dies is
  repeated by the next; setup completes once.
- **OIDC login.** A browser is signed in only by a login it began; a code is traded once.
- **Sessions.** A token that was logged out is refused, as long as it could be accepted;
  the table does not grow for ever; restarts end no session.
- **Update delivery.** Every update reaches every session that existed when it was sent;
  sessions can always be opened and closed.
- **Settings.** What the process uses is what was saved last, under the environment; what
  only the environment says is not saved.
- **Email change, password reset.** A new address is proved to be the user's; a code or
  link works until it expires; no request keeps a lock that another needs to go on.
- **Avatars, storage.** What is shown or answered is what is stored.
- **Database.** A start on any earlier database ends with the whole schema.
- **Router, errors.** A handler finds the extensions it extracts; an answer tells what was
  the matter; the counters agree.

## 2. Modules

| Module | What it is |
|---|---|
| `Directory` | users, groups, permissions, setup and the effect of OIDC logins; one action is one handler, or one statement of the boot |
| `Handlers` | the handlers of `Directory` one statement at a time, several requests at once |
| `SerialHandlers` | `Handlers` with one request at a time, and the refinement of `Directory` |
| `JwtRevocation` | admission of requests, logout, counter, sweep, with concurrent requests |
| `UpdateProxy` | trigger channel, proxy task, session map with its locks, sessions, worker threads |
| `Accounts` | email, password and OIDC identity of users; handlers that are overtaken by others |
| `OidcLogin` | the exchange with the provider: states, nonces, cookies, codes, callbacks at once |
| `EmailChange` | codes, and the lock of the map that is held across an await |
| `Expiry` | the maps that only their sweeper empties, with time |
| `LiveSettings` | row, running service and environment; saves, the boot task, restarts |
| `Avatars` | uploads, pictures of logins, resets, deletion, and what sessions show |
| `Boot` | a start on a database of any age, statement by statement, with deaths |
| `Requests` | metrics, search for a token, the two queries of `JwtAuth`, the status of answers |
| `Layers` | `build_router`, under every choice of features and optional settings |
| `Storage` | `save_file`, `get_file`, `delete_file` by several callers, on both stores |
| `DirectoryProofs` | the inductive invariant of `Directory` and what follows from it; its action properties |
| `HandlersProofs` | what every handler relies on at its awaits, and that `DirectoryInv` holds there |
| `SerialHandlersProofs` | how far each handler is at each await, and the refinement: `SerialHandlers` implements `Directory` |
| `JwtRevocationProofs`, `UpdateProxyProofs`, `BootProofs` | the inductive invariants of these modules and what follows from them |
| `CredentialProofs` | the same for `Requests`, `EmailChange` and `OidcLogin` |
| `ServerProofs` | the same for `Accounts`, `Avatars`, `Expiry`, `LiveSettings`, `Storage` and `Layers`; and for `MCServer`, which puts the ten together |
| `MCDirectory`, `MCHandlers`, `MCSerialHandlers`, `MCJwtRevocation`, `MCUpdateProxy` | small instances of these for TLC |
| `MCServer` | small instances of the other ten components, for one run |

Operators whose name ends in a word after an underscore (`Expired_Early`) and whose comment
begins with "Mutant" are wrong variants of the operator that follows them. They are not part
of the specification; `PROJECT.json` pairs each with the property that tells it from the code.

### Directory

The variables `users`, `groups`, `name`, `perms` and `members` are the four tables (a
membership row is an element of `members[g]`), `admin` and `completed` the setup row, `boot`
the progress of `create_admin_group` in this process, `skipping` whether the task spawned by
`OidcState::new` will complete the setup. `sent` and `response` are what the last step
handed to the `Updater` and answered; no action reads them.

- *Boot.* `BootCreateGroup`, `BootGrant`, `BootRecord` are the three writes of the first
  boot, `BootUpgrade` and `BootRename` those of a later one, whose release may declare more
  permissions. `Crash` may come between any two. The read of the present permissions and the
  insert of the missing ones are one step. The library does not say whether the application
  serves requests before `create_admin_group` has returned, so handlers are enabled as soon
  as the boot has begun.
- *Login.* `CompleteSetup` is the first-run form. `OidcLoginSync`, `OidcLoginPlain`,
  `OidcLoginCreate` and `OidcLoginCreateEarly` are what `check_code` does once the provider
  has vouched for a user: with group sync or without, for a known user or a new one, with an
  admin group or before there is one.
- *Management.* `CreateUser`, `DeleteUser`, `EditUser`, `CreateGroup`, `DeleteGroup`,
  `EditGroup`, each with the checks of its handler in front and, for the two edits, the
  outcome in which the database refuses the second half (`Insertable`: a repeated key, or an
  id with no row). What was deleted by then stays deleted, and no update is sent.

A request body's list is the set of its elements and whether one is repeated. The choice
between success and refusal is not free: it follows from the list and the tables. Names and
emails of users are left out (the latter are in `Accounts`); whether a welcome mail could be
sent is a choice. Ids are v7 UUIDs, which the code never draws twice; the model may draw a
deleted one again, which only adds behaviours.

### Handlers and SerialHandlers

`Handlers` extends `Directory` with `request`: for each request the server is working on,
what it asks for, the await its handler is at, and what the handler has read so far. The
eight operations of `Directory` become `CompleteSetupStep`, `OidcStep` (with `SyncStep`),
`CreateUserStep`, ... `EditGroupWrite`: one disjunct per query or write. A query that
refuses ends the request (`Checks`); a statement that fails after a write of the same
handler leaves that write behind (`Fails`). `Inserts` is an insert of memberships under
the primary and foreign keys of migration 4 (`Fits`). `Cancel` drops a handler at an await,
because its client has gone away, and `Crash` drops all of them. Boot steps come in between
as well. Some queries are joined with their successor, where no write could tell: the id of
the admin group, which never changes; the rows `group_info` and `user_info` collect; the
row a name is updated in, which is read just before. `manned` is history. Bound:
`create_group` arrives only while an id is left.

`SerialHandlers` lets no request or boot step come between the steps of another, and no
crash. `before` is the directory as the last whole request left it, and with it in place of
the tables every behaviour is one of `Directory` (`ImplementsDirectory`): a request happens,
for `Directory`, when its handler ends, unless it was refused before it wrote anything. So
`Directory` is what the statements add up to.

### JwtRevocation

A token is its claims (user, expiry); the signature is deterministic, so two logins of a user
in the same second get equal tokens. Logins change nothing on the server: `Issued` is every
token that can have been handed out by now. `request` holds, for each request the server is
working on, how far it is: decoded (signature and expiry passed), admitted, inserted, adding,
sweeping, resetting. `rows` is the table, `count` the atomic counter, `clock` seconds.
`revoked` is a history of the answered logouts. `Restart` drops requests and counter and
keeps table and key.

### UpdateProxy

`triggers` and `inbox` are the channels, `proxy` the position of the proxy task in its two
nested iterations, with the locks they hold, `at[s]` the progress of a session's request and
socket task. A DashMap lock blocks the thread, so a task that waits for one occupies a worker
(`Free`): the actions of other tasks need a free worker. `log`, `since` and `got` are history.
Empty inner shards are skipped: nothing happens in them. The iteration of a reader never
waits for a lock, because writers take and release theirs within one poll. The branch of
`handle_socket` for a closed channel is never taken while the entry, which holds the sender,
is in the map, so it is left out.

### Accounts

`account` is the table `user`, cut down to the spelling of the email, whether somebody knows a
password, the flag `oidc` and the subject; `links` the addresses in `ResetPasswordState`. A
handler of `management.rs`, `account.rs`, `email.rs`, `password_reset.rs` or `oidc.rs` is the write
that its queries decide on (`CreateUser` ... `OidcLogin(s, a)` are sets of such writes, empty for a
refusal), and `Write` does it under the two unique indexes. `Handle` is a handler that nobody
overtakes; `Overtaken` keeps the write in `slow` while other handlers run, `Resume` performs it,
`Abandon` loses it (bound: one handler at a time is overtaken). A conversion is two writes and a
login that links or makes its account two (`Continues`). `Handle` does both of a conversion
(`Convert`), and of such a login the first; the second is then that of the next login, and a login
that nobody overtakes is `Overtaken` and `Resume` in a row. `home` is history: the account a subject last signed in to.

### OidcLogin

A flow is what one call of `oidc_url` begins; its state, nonce and code are unguessable and so
are the flow itself. `states` and `nonces` are the two maps, `cookie` the cookie of a browser,
`call` the step a callback is at. `Callback` takes the state out and compares the cookie, `Token`
trades the code, `Nonce` is `validate_jwk`, `UserInfo` and `FinishLogin` the rest; every step may
redirect or end in an error. Any browser may open the link of any flow, repeatedly and at
the same time. `Reconfigure`, `SweepLogins` and `RestartLogins` come at any time.

### EmailChange and Expiry

`EmailChange` has one user and one shard of the map. `Start`, `MailOld`, `MailNew`, `InsertEntry` are
`start_email_change`, a step per await; `Confirm`, `ChangeAddress` (or `Refused`), `RemoveEntry`
are `confirm_email_change`, which keeps a read lock from the first to the second. A task that waits
for the write lock has its thread (`Blocking`), so others need a `ThreadFree`. `mailed` is what is in
each mailbox, `reads` which mailboxes the confirming client can read. `SetByAdmin` is
`change_user_email`, which does not look at the map.

`Expiry` is what reset tokens, OIDC states, nonces and email changes have in common: an entry
has an age that nobody but the sweeper asks for. Time is in units of which both numbers are
multiples; a sweep takes no time.

### LiveSettings

`row` is the saved settings, `live` what the service runs on, `env` the environment. A save
prepares the service (`FetchConfiguration` asks the provider, `BuildTransport` nobody), switches it
over (`Set`) and writes the row (`WriteRow`); `BreakOff` ends it between the last two. `BootSave`,
`BootFetch`, `BootSet`, `BootWakes` and `BootMark` are the task that starts OIDC from the row, `Restart`
a death and the next boot. A query that fails at boot is not an error: the settings are then taken for
the defaults (`FoundSettings`; `auth/oidc.rs:119`, `mail/mod.rs:26`) and the setup for open
(`FoundEnded`; `auth/oidc.rs:137`). So after a failed query the service runs on the defaults and the
environment, or not at all, until something is saved or the next restart; and with `skip_setup` the
task writes the defaults, with `sso_create_user`, over the row. The forms that clients are shown (`GetUserSettings`, `GetMailSettings`,
`GetOidcSettings`) may be sent back as they are. The run has it once for OIDC and once for the
mailer (`service`). `gaveUp` and `told` are history, and so is `strays`: the configurations that the
service may be left on although the row says another. A save that is alone and writes, and a boot
task that is alone (`alone`: it found the row, wrote what it had to, and no save has begun
since), leave no stray.

### Avatars

One user. A painter is an upload, the picture of a login, or a reset; each looks whether there is a
row (`FindAvatar`), writes (`WriteAvatar`), and announces (`Announce`) to the audience that the
handler chooses. `DeleteOwner` deletes the user in between; `GiveUp` is a query that fails, or
a client that goes away.

### Boot

`backend` is the database, `began` how many of the migrations of the time before this library its
`schema` was made by. `Rename` and `Discard` are the two statements on the old records; `Execute`
is one statement of a migration, `Record` its end. On Postgres a migration is one transaction
(`pending`), on SQLite every statement counts by itself. `InitPwState` and `InitWithAuth` load or
make the two keys; an error of the query, like an absent row, makes a new one. `Die` may come
anywhere, `Refuse` is a start that no repetition gets through.

### Requests

`Arrive` is `request_metrics` up to the inner service, `Answer` what comes after it, `Drop` a client
that goes away (or a handler that panics) at any await, after which nobody lowers the gauge. In
between: `FindToken`, `CheckRevocation`, `CheckPermission`, `RunHandler`, each with the error a query may
meet and the status that the error is given. `Revoke` and `Change` are other requests, which log
tokens out or change permissions. What a request has been through is kept in `live`, `dead`,
`allowed`, `denied`, `faulted`, and `admitted` says that both queries have let it through.

A handler's own status is any of those that handlers give (`GivenStatuses`) or that `axum::Json` gives
a body it rejects (`BodyRejections`). 401 and 403 are among them: `confirm_email_change` answers 403
and 401 for a wrong code (`user/email.rs:198`, `202`), a wrong old password is 403
(`user/account.rs:143`), and so are edits of users and groups with more permissions
(`user/management.rs:225`, `endpoints/group.rs:191`). So a client that takes 401 for the end of its
session is wrong; what the statuses mean is claimed of the answers before a handler only.

### Layers

A route is a handler with the sequence of layers around it, inside first. `ApiRoutes` ... `Serve` are
the nine parts of `build_router` and the application's `serve`, in the order of the code; a layer is
laid around the routes that are there. `features` are those of the build together with the optional
settings. `Extractors` says who extracts what.

### Storage

`get_file` and `delete_file` ask for the head and then act; the file may come or go in between.
Ranges are turned half-open with an addition in 64 bits (`Bounded`, modulo `Largest + 1`). The
object store itself is external: what it does is stated at the head of the module.

### MCServer

The ten components from `Accounts` to `Storage` share no variable, so a run of all of them at
once would only multiply their states. `focus` chooses one that moves; the others rest in a single
initial state. So the run is ten checks side by side, each of the whole instance of its
component. They meet in the code through what each module takes as a choice of its environment:
`OidcLogin` ends where `Accounts!OidcLogin` begins, `EmailChange!Refused` is `Accounts!ChangeEmail` that
does not fit, `LiveSettings` is `OidcLogin!Reconfigure`, and `Expiry` decides what `EmailChange!EndSweep`,
`OidcLogin!SweepLogins` and `Accounts!Sweep` take.

## 3. What the runs check

| Run | Instance | Result |
|---|---|---|
| `directory` | 2 users, 2 groups, 2 names, the 2 permissions the management handlers require, a release without one of them | `AdminGroupExists`, `PermissionImpliesUser`; answered requests keep a member in the admin group and its permissions, escalate nothing, announce every change of permissions; the first user is an admin and the setup yields one |
| `directory_lockout` | as `directory` | **violated**: a request empties the admin group |
| `serial_handlers` | one request at a time, 2 users, 2 groups, 2 names, 1 permission, every operation | `Handlers` implements `Directory` |
| `handlers` | two requests at once, 1 user, 2 groups, 1 permission: the one completes the setup or deletes, the other logs in or edits | `DirectoryInv` at every await; no request completes a setup that never had an admin |
| `handlers_deletions` | setups and two deletions, 2 users | **violated**: the admin group is left empty |
| `handlers_first_login` | two OIDC logins, 2 users | **violated**: nobody is an admin |
| `jwt_revocation` | 1 user, 2 requests at once, tokens of 1 s, leeway 1 s, the counter full at 2, 3 s of time, under fairness | a late request is never admitted with a token that was logged out, up to the recorded expiry; the counter is bounded; expired rows are removed in the end |
| `jwt_logout_final` | as `jwt_revocation` | **violated**: a logged-out token is accepted again after the sweep |
| `update_proxy` | 2 sessions of one user in different shards, a trigger channel of 2, session channels of 1, one worker, 3 updates | no update is lost between map and iteration; nothing is sent to a removed entry; no update comes twice, late or to another user |
| `update_proxy_roomy` | 2 users in one shard, channels that never fill, a free worker, under fairness | updates reach their sessions; locks are granted |
| `update_proxy_stall` | the same with channels of 1 | **violated**: the proxy and a closing session wait for each other |
| `server` | the ten other components, one at a time | see below |

The properties of `server`:

| Property | Component, instance | What it says |
|---|---|---|
| `HomeKept` | Accounts: 2 ids, 2 subjects, 3 spellings of 2 addresses, one handler overtaken | a subject that signed in comes back to the same account, whatever its address |
| `ProviderPasswords` | " | a provider's user gets a password in a conversion only, or by a link that was sent to a local user of the same address |
| `SignInKept` | " | no write, however late, takes the last way to sign in from an account |
| `LoginsAreOwn`, `CodesSentOnce` | OidcLogin: 2 flows, browsers and callbacks, 1 provider and none | as they say |
| `AddressProven` | EmailChange: 2 requests, 2 mailboxes, 2 changes, 3 threads | who confirms reads both mailboxes |
| `LockComesFree` | " | the holder of the lock can always go on |
| `NoneOutlives` | Expiry: 2 entries, life 6, interval 2 | no entry is as old as its life and an interval |
| `LiveIsSaved` | LiveSettings: 2 saves, 2 typed settings, 2 attempts, either service, 2 environments | after a save or a boot task that was alone the service runs on what is saved; after others, on what one of them had |
| `EnvStaysOut` | " | the environment's secret is not saved |
| `BlobsTrue` | Avatars: 2 painters, 2 pictures; Storage: 2 callers, 2 contents, 3 ranges | sessions show the saved avatar; a caller is told what was true during its call |
| `StartsWell`, `KeysStay` | Boot: every old database, both backends, 2 deaths, 1 failure | a start ends on the whole schema, with the same keys |
| `AnsweredForCause`, `CountersAgree` | Requests: 2 requests, 4 sets of headers | who reaches a handler was let in, and an answer without one has its cause at a moment of the request; the counters agree |
| `ExtensionsFound` | Layers: all 256 choices | what is extracted is there |
| `TypesOK` | all | the variables have their types |

Several of these hold only with exceptions, which the properties state and their comments
explain. They are behaviours of the code a user of the library should know:

- `HomeKept` ends when a login that found an account without a subject links it late, over
  the subject another login linked in the meantime (`auth/oidc.rs`, `resolve_oidc_user`).
- `ProviderPasswords`: a reset link goes by address, so one that was sent to a local user gives a
  password to whoever has the address when it is used.
- `LockComesFree` needs more threads than there can be waiters: `confirm_email_change` holds a lock
  that blocks threads across its update. With as many waiters as threads nobody goes on.
- `LiveIsSaved`: two overlapping saves, a save that overlaps with the boot task, one that breaks off
  after the switch, a boot task that cannot write what it found, or a query that fails at boot leave
  row and service apart until the next restart. What runs is then what one of them had, or the
  defaults, or nothing. Where the environment says that OIDC is off or creates no users, setup and
  skipped setup go against it until then. The property compares row and service; that the row
  itself is the last one typed it does not say, and after a failed query and `skip_setup` it is not.
- `EnvStaysOut` is about the secret. The setup shows that of the environment, and a client that sends
  the form back has it saved. The other fields of the environment are shown by the settings page too,
  and are saved with any form that is sent back.
- `StartsWell`: on SQLite a death between the column of migration 6 and its record holds back every
  later start (the column has no IF NOT EXISTS); and a database made by the old migrations up to users
  but not yet avatars never gets the avatar table, because the record of the first is taken for
  migration 3, which makes both.
- `KeysStay`: an error of the query for a key makes a second key, and later starts take any.
- `AnsweredForCause` leaves the statuses of handlers to them: 401 and 403 come from there too.
- `BlobsTrue`: a range that ends at the largest number wraps around and is answered 500, and so is a read
  or a delete whose file came or went between its two calls; the property grants both answers.
- `CountersAgree`: the gauge of active requests stays too high by the requests that were dropped.
- `ExtensionsFound`: without the feature "avatar" there is no `OidcState`, which `save_user_settings`
  and `init_oidc` extract; `auth_config` wants the OIDC settings of an application that need not have
  any; and a limiter wants the address of the peer, which only `run_app_connect_info` gives.
- `AvatarsShown`: the picture of a login is announced to the user only.

The violated runs are disagreements between the code and what the repository says:

1. `edit_group` and `edit_user` delete the old rows before they insert the new ones, without a
   transaction (`db/tables/group.rs:274`, `db/tables/user.rs:278`). A body that names the same
   user twice, or one deleted meanwhile, is refused by the database after the delete: the
   admin group is left empty, although `backend/endpoints/group.rs:216` insists that "Admin
   group must have at least one user". Nobody is told either.
2. `remove_expired` deletes a row as soon as `exp` has passed, and the decoder accepts a token
   for the default leeway of 60 seconds after `exp`. Between the two a logged-out token is
   admitted again, although `integration_tests.rs:469` says it "is now rejected".
3. The proxy task awaits room in a session's channel while its iteration holds a read lock of
   the map. When the client of that session closes, its task blocks in `remove_session` on
   the same lock, nobody empties the channel, and no session gets an update any more
   (`websocket/state.rs:86`; the test at line 190 says that a broadcast reaches all sessions).
4. `delete_user` asks whether its target is the last admin (`user/management.rs:217`) and
   deletes three awaits later. Two admins, each deleted by a request that still saw the
   other, leave an empty admin group, against the message "Cannot delete the last user from
   the admin group" one line below.
5. A first OIDC login inserts its row and then counts the users (`auth/oidc.rs:715`). After a
   skipped setup, two first logins at once both count two, and neither is made an admin; the
   changelog says "Add first oidc user to admin group on setup skip". Later users are no
   better off, so nobody can manage the directory.

More races are states that the modules reach and no property forbids, since nothing in the
repository says what should happen: two setups at once are both answered with Ok
(`setup.rs:118`), two groups of one name are created (`endpoints/group.rs:118`; no index makes
names unique), a save without a secret restores the secret that a save at the same time
replaced (`settings.rs:171`), and the end of a confirmation discards a change begun since
(`user/email.rs:210`).

**Why the bounds are enough.** Handlers: every race found is between two handlers, and the
checks of a handler look at one user, one group and the admin group; the `handlers` run
pairs what takes rows away with what adds memberships, which is where the foreign keys
decide. One permission suffices because these runs ask about rows, not about who may do
what. Directory: two users are the sender and the target of every check, and the difference
between one admin and two; two groups are the admin group and another; two permissions let
two groups differ. The second release makes an upgrade. Jwt: two requests are needed for
every race on the counter and between check and logout, and one user suffices because users
never interact there; three seconds hold a login, its expiry, the end of its leeway, and a
second login. UpdateProxy: two shards at either level and session channels of one message show every
order of lock, wait and removal between two sessions; three updates fill a channel while the
proxy holds another and a third waits; and with a trigger channel of two there is an order of
updates to be kept or lost.

The instance of `server`: two of everything that competes (accounts for an address, subjects for an
account, saves, callbacks, painters, callers, requests) is where a race begins, since every check
in these handlers compares one row with one other. Three spellings are a pair that differs in case and
one apart. Two deaths of a boot are one in the first start and one in its repetition; there is no
third kind. Three threads are one more than the two requests of which one holds the lock and the
sweeper can block; with two, `LockComesFree` does not hold. A life of three intervals is
like six, sixty or one: what counts is the remainder at a sweep, which takes every value. Two attempts
are one that retries and one that gives up. Of the two environments one knows a secret alone, and
one all that starts the service without any row; in that one a single save is under way at a time
(`FewSaves`), since what two saves do to each other does not depend on the environment. The ranges are one byte, one cut off at the end, and one
whose end wraps around. `MaxChanges`, `MaxDeaths`, `MaxFailures`, the requests that arrive once and the
ages bound the state; they are why this run does not look for deadlocks: the instance may stop.

**View and symmetry.** `directory` identifies states that differ only in `sent` and `response`. No
action reads these two, and TLC checks action properties on every step, whether its target is new
or not. Of the invariants only `TypeOK` speaks of them; its conjuncts for the two are checked
where a state is first reached, and proved (section 4). `server` takes account ids and
saves to be interchangeable: nothing distinguishes them, and no liveness is checked there.

**Fairness.** `JwtRevocation!Fairness` is weak fairness of a logout that has inserted its
row: the runtime polls a ready task. It is not assumed of requests that have not begun, of
time, or of the absence of failures: `ExpiredRowsRemoved` names those as premises.
`UpdateProxy!FairSpec` has weak fairness of the proxy task and of each session's own steps:
the runtime polls every task that can go on, a lock that is free is granted at last, and a
write to a client ends, with an error if the client is gone. No fairness of clients, of
handlers or of restarts is assumed.

`Handlers` has no liveness property: a handler has no loop and waits for no other. That the lock of
`EmailChange` comes free is stated as an invariant (its holder has a thread and does not wait), from
which progress follows for every scheduler that polls ready tasks.

Where deadlock is checked, `Crash` and `Restart` have no guard, so no state is a deadlock for TLC;
waiting for ever is what the liveness properties are about.

## 4. What is proved

All theorems hold for every value of the constants that the `ASSUME` of the module allows. These
assumptions ask for little: absent values (`NoGroup`, `NoName`, `NoRow`, `NoPicture`, ...) are none of
the present ones, bounds are natural numbers, what is counted (requests, sessions) is finite, the
permissions of the handlers are permissions (`ConstantsOK`), a request is for one of the eight
operations (`OperationsOK`), and what clients type and the environment says are records of settings
(`SettingsOK`). One theorem has a premise of its own, `LocksComeFree`.

- **Directory.** `DirectoryInv` is inductive: the types; the recorded admin group is a row;
  until it is recorded nobody is in any group; the group that a boot is creating is still
  there when it is recorded; no membership or permission row names a missing user or group.
  The first of these is not inductive alone: `BootRecord` needs the fourth conjunct, which
  needs the third, because only members of a group can delete one, and the fifth makes the
  holder of a permission a user. `AdminGroupAlwaysExists`, `HoldersAreUsers` and
  `NobodyBeforeAdminGroup` follow. The six action properties of the run
  (`AnsweredRequestsKeepAnAdmin`, `AnsweredRequestsKeepPermissions`, `RequestsEscalateNothing`,
  `ChangesAreAnnounced`, `FirstUsersAreAdmins`, `SetupsYieldAdmins`) are proved from it with one step
  per action.
- **Handlers.** `HandlersInv` is `DirectoryInv` together with what each request in hand relies on
  (`Pending`): where a sender was admitted there is an admin group, a deletion past its check is not of
  that group, and a login or setup that is about to add a member, or to mark the setup, comes after the
  admin group was recorded, or had a member. `DirectoryInv` alone is not inductive here: a handler inserts
  memberships awaits after it looked for the admin group, which `NoMembersBeforeAdminGroup` forbids
  before there is one, and a deletion would take the recorded one. `Pending` survives the steps of all
  others because the admin group is recorded once and never replaced (`PendingStays`). The rest is one
  lemma per handler, with one step per await. `EveryAwaitIsSafe`, `NoPermissionWithoutRow` and the action
  property `SetupsAreManned` follow, for any number of requests at once, dropped anywhere.
- **SerialHandlers.** `SerialInv` says, for each of the eight handlers and each await in it, what the
  tables are (`Progress`): those of the last whole request, and on top of them what this handler has
  written; and what its queries found, in terms of the tables before. `HandlersProgress` is its
  invariance. With it every step is inside a request, and then a stutter of `Directory`, or ends
  one, and then it is the action of that name with the outcome (answered, refused or half done) that
  the statements had: `HandlersImplementDirectory`. That there are finitely many users is part
  of it, since the code counts them where `Directory` asks whether there are others. The action theorems
  of `Directory` are carried over by the refinement (`WholeRequestsKeepPromises`, through a second
  instance that has the theorems with the definitions): they are about the handlers as they are
  written, as long as no two overlap. The violated runs show what is lost where two do.
- **JwtRevocation.** `JwtInv` adds to the types that a revoked row which has not expired is in
  the table, that what a logout is about to record is there too, and, for the counter, that
  the requests between load and add are counted: `count` plus their number stays within
  limit plus requests. From it, `RevocationIsTyped`, `LogoutsAreRemembered`, `LateRequestsAreRefused` and
  `CounterIsBounded`.
- **UpdateProxy.** `ProxyInv`: the types; the place of the proxy in its two iterations fits the shard
  it has locked; the iteration visits entries only, by the locks it holds
  (`EntriesOutliveIterations`); and every update sent since a session was opened has reached it, is
  queued, or is under way with the session still ahead of the iteration (`NothingPassedBy`). The
  word "ahead" is what makes `NoUpdateIsMissed` inductive: at the end of an iteration nothing is
  ahead. `UpdatesAreTyped` is the type invariant. `UpdatesArriveInOrder` is an action property: what
  the proxy sends to a session is for its user and newer than everything the session was sent
  before. It needs a second invariant, `OrderInv`: the trigger channel holds updates in the order in
  which they were made, all newer than the one under way (`QueueInOrder`); what a session was
  sent is not newer than that one (`SentIsOlder`); the shards and entries still to be visited hold
  none twice, and none that was passed (`IterationAdvances`); and so a session that is still ahead has
  not been sent the update under way (`SentOnce`). The fourth is what the property says for one update, and it
  rests on the third, because a session could otherwise be met twice in one iteration.
- **OidcLogin.** `LoginInv`: a cookie, a callback and a session name flows that their browser began
  (`LoginsAreOnesOwn`); and the right to trade a code is either the state's entry or the one callback
  that took it out, gone once the code was sent (`CodesAreSentOnce`).
- **EmailChange.** `EmailInv`: changes that are alive have numbers of their own, and the code for a new
  address is in no mailbox but that of its change (`Told`); a request about to change the address
  reads both codes (`Proven`). `AddressesAreProven` is an action property of this. `LocksComeFree`
  has the premise `Cardinality(Tasks) < Threads`, and is a count of who can wait: the holder of the lock
  does not, so it is at most all the other requests and the sweeper. With one thread less TLC finds the
  state where they stop the holder, which is the hazard itself.
- **Accounts.** `AccountsInv`: two rows have different subjects; the account in which a subject is at
  home has that subject (`UsersComeHome`); and the write that the overtaken handler has decided on is
  still good (`Good`): the account of a login still has its subject, the user whose password is set is
  still local, the user whose flag goes has a password. The last is what other handlers could spoil, and
  it is inductive because ids are never drawn twice, a subject is only written over by a login that is
  itself late, and nothing makes a local user one of the provider. `NobodyIsShutOut` and
  `ProvidersSignIn` are action properties, from what each write does to the row of its user
  (`Makes`) and leaves to the others (`Others`).
- **Boot.** `KeysInv`: a key that a server has used is one of its rows, and as long as no query for a
  key has failed there is one row at most (`StartsKeepTheKeys`). `SchemaInv`: what a migration makes is
  there when it is recorded, whether under its old name or its new one; the migration under way has
  made what it is recorded to have done, in the schema or in its transaction; the column of migration 6
  is there only with the record, or in the middle of the migration, or where one died there. The two
  exceptions are in the invariant as in the property. `StartsEndWell` follows. `StartsAreTyped` needs
  that no piece of a migration makes what is not in the entities (`PiecesAreObjects`).
- **Storage.** `StorageInv`: a call under way has seen everything the file was since it began
  (`Watches`), and what it is about to answer is among that. `StorageAnswersTruly`, the part
  `AnswersTrue` of `BlobsTrue`, follows.
- **Avatars.** `AvatarsInv`: what a painter has decided on (insert or update) fits the row unless
  another crossed it (`PainterWorks`), and whoever is not hushed shows the row; a write hushes everyone
  until it is announced. `SessionsShowTheAvatar`, the part `AvatarsShown` of `BlobsTrue`, follows.
- **LiveSettings.** `SettingsInv`: a save that is alone excludes the boot task and other saves, and
  runs already on what it will write (`SavingInv`); a boot task that is alone excludes the saves, and
  will start the service on what the row says or will say (`BootInv`); what runs belongs to one who is
  about to write, to one who left it behind, or to the row (`KnownInv`). The last needs the others:
  without them the row of one could be written over the configuration of another.
  `ServicesRunOnWhatIsSaved` follows. `SecretInv` says that neither the
  row nor what a save or the boot is about to write holds a secret that only the environment knows
  (`SecretsStayInTheEnvironment`), unless a client sent back what the setup showed it; it needs that a
  form without a secret is completed from the row, and not from what runs. `SettingsAreTyped`: every
  field of the row, and of what runs, is one that was typed, the environment's or the default.
- **Expiry.** `ExpiryInv`: age and the time to the next sweep together stay below life and interval
  (`NoEntryOutlives`).
- **Requests.** `RequestsInv`: what a request has been through is noted while it is under way
  (`Noted`), and how far it has got, it got for a cause (`Caused`): in a handler, and ever after, it is
  `admitted`, and that it is only with a live token of an allowed user. Every action that moves a request is
  one `Progress` of it. `AnswersHaveCauses` follows; `CountersAlwaysAgree` adds the cardinality of the
  requests under way, step by step.

- **Layers.** `LayersInv`: after each of the nine parts of `build_router`, the routes are those whose
  part is done (`RoutesOK`); the stack of each holds what every part since has laid (`Covered`, `LaidBy`),
  and in each stack the layers that ask for something are inside of what they ask for, while the log is
  outside of the middleware that leaves it the uri (`Sound`). A part lays its layers around what is
  there, so both survive when two stacks are joined (`Concatenation`, `SoundTogether`). At the end this
  is `ExtensionsAreThere`; the three exceptions of the property are the ones where no part lays
  what is asked for. `LayersAreTyped`: no routes but those of the library, under every choice of features.
- **The composition.** A step of `MCServer` is one of a single component, and leaves the others alone
  (`OneMoves`), so each component behaves there as it does by itself (`ComponentsGoOn`), and the
  theorems about it hold there. `BlobsStayTrue` and `ServerIsTyped`, the two properties of the
  run that are about more than one component, are drawn from that.

Left to TLC: liveness (`ExpiredRowsRemoved`, `UpdatesReachSessions`, `LocksAreGranted`), which the
prover does not reach. Every other property of a passing run is a theorem.

## 5. What is not modelled

- Functions of one request, without state or steps: request bodies (XML, JSON, forms), headers,
  redirects, the proxy to a frontend, hashing, encryption, signatures, mail templates, image
  processing, logging. The validation of names and emails only adds refusals.
- Requests that only read (lists, info pages), except where what they show is sent back.
- Code generation at compile time: the derive and utility macros.
- Libraries: the buckets of the rate limiter, CORS, the SMTP client, the object store, the connection
  pool. Down migrations are never run by the library.
- The mutex of the Mailer, which is held while a mail is sent (`mail.rs:128`): it delays others but
  waits for the network only.
- Cookies' own expiry in the browser, which can only make a client forget a token earlier.
- Several processes on one database, which are not a use the library shows: its maps and counters
  are in memory.

## 6. Plan

1. `Accounts` with two overtaken handlers, and its deletions joined with those of `Handlers`.
2. Proofs: what two overlapping handlers still keep of `Directory`'s action properties.
3. Liveness of `EmailChange` and of the boot task of `LiveSettings` in runs of their own.

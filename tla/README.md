# A TLA+ specification of sso_go

sso_go is a single-sign-on service: accounts, project roles, OpenID Connect, a
central administration, and a feed through which client applications ("projects")
keep local copies of their users. Its decisions are made by Go services over one
PostgreSQL database; several processes (servers and CLI commands) run against it
at once, and each request is a transaction or a few autocommitted statements at
READ COMMITTED. What is hard about it is therefore not in any one function but in
the interleavings of their statements: which rows are locked, which are read
without a lock, and in which order changes and their announcements become visible.

This directory holds TLA+ modules that model that behaviour, TLC configurations
that check small instances, and TLAPS proofs for all instances. Paths below are
relative to the repository; `pg/` stands for `internal/repository/postgres/`.

## Inventory

| component | state | operations | interacts by | what is hard | correct when |
|---|---|---|---|---|---|
| Access and journal (`pg/admin.go`, `management.go`, `clients.go`, `identity.go`, `events.go`) | `accounts`, `project_access`, `access_requests`, `sync_events` | grant, revoke, approve, set roles, project admin, profile updates, disable, activate, promote, reset and change password, request access, bootstrap | row locks, one advisory lock, the journal | reads before locks, lock orders, roll-backs, late commits | journal and tables agree; ids in commit order; a request decided once; administrators stay active; every operation ends |
| Synchronisation feed (`pg/events.go`, `internal/service/sync.go`, `httpapi/sync.go`) | none of its own | snapshot pages, changes after a cursor | read by applications over HTTP | paging while tables change, a consumer that crashes | a replica that has read everything shows the snapshot |
| OAuth codes and refresh tokens (`pg/oauth.go`, `internal/service/oauth.go`) | `authorization_codes`, `refresh_tokens` | authorize, exchange, rotate, revoke family | revocations by the access component | reuse detection, rotation beside revocation, several transactions per exchange | a code is used once; a family has at most one live token; revoked access stays revoked |
| Signing keys (`pg/keys.go`, `internal/token/keys.go`) | `signing_keys` | ensure, rotate, sign, publish, verify | read by every token operation | tokens signed around a rotation; clocks; two starting processes | a token that has not expired verifies; one active key |
| Outbox (`pg/outbox.go`, `internal/events/outbox.go`) | `outbox` | publish next | Kafka; rows written by the access component | crash between broker and commit, late answers, several publishers, failing rows | every event is delivered, at least once, and again only as often as the writer tried |
| Identity (`pg/identity.go`, `internal/service/identity.go`) | `accounts`, `email_verifications`, `browser_sessions`, `password_resets` | register, verify, login, logout, forgot and reset password | sessions revoked by the access component | check-then-insert, login beside a password change, links used twice, lock orders | sessions follow password and status; a link counts once; a password changes only by who may |
| Limits and cleanup (`internal/service/limits.go`, `pg/maintenance.go`) | `auth_limits` | allow, clean up | called by the HTTP handlers | window boundaries, count before comparison | comparisons per window are bounded |
| Wiring (`internal/app`, `cmd/sso`) | none | start, bootstrap, timers, commands | calls the others | the bootstrap runs at every start and command | restarting changes nothing that was decided |
| Import (`cmd/import_octopus_users`) | writes `accounts`, access, journal | one run | unique addresses, journal lock | conflicts are looked for before the transaction | never takes the place of an account |
| Opening and migrations (`pg/postgres.go`, `migrations/postgres`) | `schema_migrations`, the tables | open, migrate | before anything else at every start, an advisory lock | several starts at once, older and newer binaries, death half-way | each migration runs once; nobody serves over an unknown schema |
| Transports (`httpapi`, `grpcapi`) | none beyond a request | one route per service call | | order of limit, session and operation | with the operations they begin |
| Configuration, mail, security helpers | none | | | | I/O and library calls |

The hazards behind these rows, each at its line, are in `PROJECT.json`.

## Modules

| module | what it is |
|---|---|
| `SyncFeed` | the abstract specification of the feed: a table and a journal that changes with it |
| `AccessSync` | the transactions that decide who may use which project, statement by statement |
| `MCAccessSync` | the families of operations and constants the runs use |
| `AccessSyncProofs` | types and lock discipline, proved |
| `AccessFeedProofs` | journal ids in commit order, replicas equal to snapshots, the feed implemented, proved |
| `AccessDecisionProofs` | requests decided once, administrators stay active, proved |
| `SignIns` | the abstract specification of a sign-in: spent once, one live token of its own user and client |
| `RefreshTokens` | authorization codes and families of refresh tokens, beside what revokes them |
| `MCRefreshTokens` | its instances |
| `RefreshTokensProofs` | one live token per sign-in, dead families, what a password change ends, proved |
| `SignInProofs` | codes and tokens implement `SignIns`, proved |
| `SigningKeys` | rotation, signing and publication of keys over a clock |
| `Startup` | the start of a process: migrations, then `SigningKeys` |
| `MCStartup` | its instance, that of `SigningKeys` too |
| `StartupProofs` | tokens verify until they expire, one active key; a start implements `SigningKeys`, migrations run once, proved |
| `Accounts` | accounts, mailed links, browser sessions and attempt limits, beside the import |
| `MCAccounts` | its instance |
| `AccountsProofs` | sessions follow the password and the status, links work once, limits hold, proved |
| `Outbox` | rows of the outbox, their publishers and the broker |
| `SyncConsumer` | snapshot and changes page by page, and an application that keeps a copy, over `SyncFeed` |
| `Delivery` | `Outbox` and `SyncConsumer` composed: an event on its way to applications |
| `MCDelivery` | its instance |
| `DeliveryProofs` | nothing is marked published that was not sent, a copy never falls behind for good, proved |

### AccessSync and the code

An operation of the repository is a record that gives the order of its statements
(`GrantAccess`, `DisableAccount`, ...; read them beside the Go function of the same
name). A statement is an action (`ProbeAccess`, `UpdateAccount`, `QueueEvent`, ...)
shared by the operations that execute it; the running operation `tx[t]` carries
the Go function's local variables: its arguments, the event kind, the payload read so far,
the projects still to visit, and the events written but not committed.

* **Committed and uncommitted.** `account`, `access`, `request` and `feed` are what
  other transactions see. A transaction's writes are the rows it has locked, and
  take effect in `Commit`; `Rollback` drops them. `Fail` may roll back
  any operation before any statement: an SQL error, a cancelled request
  and a crashed process are the same to the database.
* **Waiting.** `BlockedBy` says whom the pending statement waits for, as PostgreSQL
  does: a writer or `FOR UPDATE` for the holder of the row, an `INSERT` for another
  insertion of the same key and for a `FOR UPDATE` holder of the account its
  foreign key names, the journal for the advisory lock. An uncommitted insertion
  is invisible to `UPDATE`, `DELETE` and `SELECT`. After the wait the `WHERE` clause is evaluated
  again on the committed row, hence guards are read in the step that locks.
* **Reads that take no lock** are steps of their own: the status check of a grant,
  the payload's profile, the list of projects to notify, the roles that complete
  a `profile.updated` payload. What they read may be stale when it is used.
* **Events.** `QueueEvent` takes the advisory lock, allocates the next id (the
  sequence is not rolled back) and keeps the event in the transaction.
* **Outside transactions.** `RequestAccess` and `EnsureBootstrap` commit each
  statement by itself.

Data is abstracted: roles are small sets, the profile columns one value, and all
accounts have a verified email (activation and grants require it). Audit and
outbox rows are written by the same transactions and read by nobody here; they are left out,
as are the token and session rows the operations delete. Tokens are in `RefreshTokens`,
sessions and passwords in `Accounts`, outbox rows in `Outbox`. Each module is a projection of the service onto its tables; this is sound for
safety because any statement may be delayed or its transaction rolled back at any point.

### SyncFeed and the refinement

`SyncFeed` says what applications rely on: a table of who has which roles and profile, and
a journal; a step publishes events with higher ids and changes the table exactly as
those events say. `Replica(r)` is what an application holds after applying all events
as `docs/integration.ru.md` prescribes. `AccessSync` maps to it with the content of the
snapshot endpoint (`Snapshot`) as the table.

### RefreshTokens and the code

`req[r]` is a running request of `internal/service/oauth.go` or an operation that revokes
tokens, statement by statement and with the same treatment of locks, waits and failures as in
`AccessSync`. Writes of several rows are two-phased, as PostgreSQL executes them: `ScanTokens`
takes the snapshot, `RevokeToken` locks the rows of it one by one, and rows inserted
meanwhile are not among them; that is where the two violations below come from.
The foreign key from `refresh_tokens` to `accounts` makes an insertion wait for `SELECT ... FOR UPDATE`
(`ChangePassword`) and not for an `UPDATE` of the status or the password.

* `Authorize` and `Exchange` are several transactions: checks of account and access, then the code;
  the consumption, the checks again, then the token. `Refresh` reads the clock before it waits for
  the row (`internal/service/oauth.go:129`), hence `late`.
* `delivered` is what clients have received: `Reply` may never come (`Fail`), and a client may present
  anything delivered, again and again, and codes of any client.
* Left out: PKCE, redirect URI and the client's secret (one more refusal without effect), scopes,
  and `Userinfo`, which only reads. "disabled" stands for "pending" too, and a "deleted" code
  for an expired one; the clean-up of expired rows changes nothing because they are refused anyway.

`SignIns` says what accounts and applications may expect of a sign-in, whatever tables it is kept in: its code is spent once, for one first
token; at most one of its tokens can be refreshed, by the client and for the user of the sign-in; a refresh replaces
it in one step; and what has ended does not begin again. `SignedIn` maps the tables to it: a sign-in is a row of
`authorization_codes`, its tokens are the rows that descend from that code, and those neither used, revoked nor expired are live. The successor
of a rotation during which the family expired is not live. Reuse, expiry and all that revokes are `Withdraw`, of any sign-ins at once, since a transaction may revoke the tokens of several.
`ImplementsSignIns` is the refinement. What `SignIns` does not promise is *when* a revocation takes effect: that is
what the last two violations are about.

### SigningKeys and the code

A process runs `KeySet.Ensure` when it starts (`internal/app/app.go:44`), serves, and may rotate
(`--rotate-key`, `SSO_ROTATE_KEY`) or sign; in `Processes` stand servers, concurrent requests of one server and
commands alike. `Generate` includes the `BEGIN`, which fixes `now()` for the transaction, so that a wait for the
advisory lock eats into `publish_until`. The retirement is the first half of `CommitRotation`; between
the two statements the old keys are still what others read. `lastExp` records the latest `exp` signed with a key.
`Stop` is the end of a command, an error at start or a crash at any statement.

**The periods.** That five minutes of lifetime fit into ten of publication is true only if a rotation
(waiting included) and a signature do not take more than the difference together: `PeriodsAssumption`.
Neither the code nor the schema enforces this; the theorem says exactly what has to hold. There is one clock for
the database and all servers, and no relying party that keeps an old JWKS.

### Startup and the code

`OpenDatabase` ... `CommitMigrations` are `Open` and `Migrate` (`pg/postgres.go`), which run before `KeySet.Ensure` at
every start, of commands too. `CommitMigrations` ends in `SigningKeys!Start`; all else of `SigningKeys` is as it was (`KeyNext`).
All statements of a migration run in one transaction that others cannot look into, so they are one step
with the commit, and `FailMigration` before it is a failure after any of them. `ran` counts how
often a migration has changed the tables. The database may be of any release: empty, older, of the time before
`schema_migrations` (tables without a version, `Existing`), this one, or the next one, which is refused.
The bootstrap, which follows the keys, is `EnsureBootstrap` of `AccessSync`.

### Accounts and the code

`req[r]` is a running request, statement by statement, with locks, waits and failures as in `AccessSync`. The operations are
those of `internal/service/identity.go` (`Register`, `Resend`, `Verify`, `Login`, `Forgot`, `Reset`, `Change`),
`Activate` and `Disable` of `pg/admin.go`, and `Import` of `cmd/import_octopus_users`.

* **Passwords.** `account[e].secret` is the password that the stored hash verifies, `legacy` tells a bcrypt hash. Hashes made by
  this program are salted, so "the row still has the hash that was compared" is "it is still legacy": `UpgradeHash`.
* **Locks.** `LockAccount` is the `SELECT ... FOR UPDATE` of `WithLogin` and `ChangePassword` and the `UPDATE` of the others; the conditions
  of the `WHERE` clause and of the Go code after it are `AccountMatches`. An insertion of a link waits for the
  first kind alone (`KeyLocked`). A reset and a verification lock the link first (`UseLink`). The `DELETE` of the links is
  two-phased, as PostgreSQL executes it: `ScanLinks` takes the snapshot, `DeleteLinks` locks what it saw.
* **Links.** A link that was used is dropped from `link`, since every reader treats it like a missing one; `late` is "past
  `expires_at`", and a request whose transaction began earlier still finds it in time.
* **Limits.** `attempts` is the counter of one window of the login's `login-id` limit, in a transaction of its own (`CountAttempt`)
  before the one that reads the row and compares (`LockAccount`). `compared` is a history variable: the comparisons since the window began, less
  the logins that had been let through and were still to compare when it did (`LetThrough`). A window may end between the two, so `ComparisonsLimited`
  allows those logins beside the limit, and no others. The other limits call the same function.
* **What a password change ends.** `ChangeEndsResetLinks` is about the links that exist at the commit: none is left, and a reset that presents
  one has yet to look for it and is refused. A `Forgot` that has found the account waits with its INSERT for the `FOR UPDATE` and
  goes through right after the commit (`internal/service/identity.go:156`); its link works, and no document says otherwise.
* **Deadlocks.** `OnlyResetsDeadlock` is about the locks of this module, on accounts and links. The same transactions lock
  rows of access and the journal too (`AccessSync`, where `EveryOperationEnds` covers them) and tokens (`RefreshTokens`).
* **Import.** One user at a time; the conflict check is before the transaction (`CheckImport`), the insertion fails or
  skips when the address is taken by then (`InsertAccount`).
* Left out: names and logins (a login name is as unique as an address), the rows of tokens and codes
  (`RefreshTokens`) and the events (`AccessSync`) of the same transactions, form tokens, and the limit by IP address.

### Outbox, SyncConsumer, Delivery and the code

A commit that queues an event writes an outbox row and a journal row (`CommitEvent`); from there two channels lead on.

* `Outbox`: `SelectRow` is the `SELECT ... ORDER BY created_at ... SKIP LOCKED` that opens a publisher's transaction,
  `Acknowledged` and `SendFails` are the callback's `WriteMessages`, `RecordResult` the `UPDATE` and the commit. The publisher leaves
  `kafka.Writer.MaxAttempts` at the library's default of 10 (`internal/events/outbox.go:20`), so one call may try several times, and each try that was not
  acknowledged may have left a copy, now or later: `Writes` puts one copy per try under way, and the broker writes each of them at any time or never
  (`underway`, `BrokerWrites`). `CrashPublisher` is
  a crash, or an error of a statement, at any point: the transaction rolls back and the row is free again.
* `SyncConsumer`: SSO's side is `SnapshotAnswer` and `ChangesAnswer`, a page each. The other side does what
  `docs/integration.ru.md`, section 3, tells an application: it keeps the first page's cursor, stages the pages, stores copy and cursor in
  one transaction, applies changes with theirs, and repeats a full load whenever it likes. `answer` is in flight while SSO goes on
  writing. `Write` publishes events as `SyncFeed!Publish` allows, one per commit; that `AccessSync` keeps to `SyncFeed` is checked by
  `ImplementsSyncFeed`, except for the interleavings of the violations below, which break the copy whatever the application does.
* `Delivery`: an instance serves one channel (`KAFKA_BROKER` is set or not), which the run chooses in `Init`.

## Runs

| run | interleaves | checks | result |
|---|---|---|---|
| `access_family` | everything that changes roles, activation, password changes | `TypeOK`, `FeedMatchesTable`, `DecidedOnce`, `CursorSafe`, `ImplementsSyncFeed` | holds |
| `account_family` | everything that locks the account row | `FeedMatchesTable`, `DisabledIsReported` | holds |
| `mixed_families` | operations with different lock orders, and the bootstrap | `AdminsStayActive`, `EveryOperationEnds` | holds |
| `token_families` | sign-ins, exchanges and refreshes by two clients, and all that revokes | `TypeOK`, `OneLiveToken`, `DeadFamilyStaysDead`, `PasswordChangeEndsFamilies`, `ImplementsSignIns` | holds |
| `startup` | migrations, starts, rotations, signatures, crashes, time | `StartupTyped`, `MigratedOnce`, `KnownSchemaServed`, `UnexpiredVerify`, `OneActiveKey`, `ServingHasKey`, `OpeningEnds` | holds |
| `accounts` | registration, import, links, logins, password changes, disabling, time | `TypeOK`, `SessionsFollowPassword`, `NoSessionOfDisabled`, `OnlyResetsDeadlock`, `ComparisonsLimited`, `PasswordChangesEarned`, `LinksUsedOnce`, `ChangeEndsResetLinks`, `AccountsKept` | holds |
| `delivery` | commits, publishers, broker; pages, lost answers, repeated loads | `TypeOK`, `PublishedIsInTopic`, `DuplicatesFromFailures`, `EveryRowReachesTopic`, `CopyWithinReach`, `CopyFollows`, `EventsReadInTurn` | holds |
| `stale_profile_event` | `UpdateProfile`, `RevokeAccess` | `FeedMatchesTable` | violated |
| `grant_during_disable` | `GrantAccess`, `DisableAccount` | `DisabledIsReported` | violated |
| `bootstrap_without_event` | `EnsureBootstrap` | `RolesChangeWithEvent` | violated |
| `reuse_beside_rotation` | `Authorize`, `Exchange`, `Refresh` | `ReuseEndsFamily` | violated |
| `reset_beside_rotation` | the same and `ResetPassword` | `PasswordResetEndsTokens` | violated |

The first two families are each serialised by a lock of their own (the access row; the
account row), which is why their events are exact. The violations are what happens between the
families, where no common lock exists:

* **A profile event revives a revoked access.** `QueueEvent` reads the roles
  (`pg/events.go:17`), then waits for the journal (`:34`). A revocation that commits in between
  is published first; the profile event follows with the deleted roles.
* **A grant outlives a disabling.** The grant's status check (`pg/admin.go:164`, `pg/events.go:68`)
  and the disabling's list of projects (`:139`) read different rows without a common lock. The account ends
  up disabled, its row and its `access.granted` stay, and no `access.revoked` is queued.
* **The bootstrap's role has no event** (`pg/clients.go:23`), against rule 4 of
  `docs/code-architecture.ru.md`.
* **A reuse spares the successor.** A used token is presented while the family's live token is being rotated.
  `UPDATE ... WHERE family_id` (`pg/oauth.go:64`) waits for that token's row, but its snapshot is older than the
  successor, which stays live, against `docs/integration.ru.md:50`. The same holds for the `UPDATE`s of
  `RevokeAccess` and `DisableAccount`; there the next refresh fails at the check of access or account.
* **A token outlives a reset.** `ResetPassword` starts with an `UPDATE` of the account (`pg/identity.go:142`), which
  an insertion of a token does not wait for; one committed after the reset's own snapshot stays live, although the answer
  (`internal/transport/httpapi/account.go:41`) says that all sessions have ended. `ChangePassword` selects the account
  `FOR UPDATE` first, which keeps rotations out: when it commits every token there is is dead and every code spent (`PasswordChangeEndsFamilies`). It
  does not reach an exchange that had consumed its code before: that one's `INSERT` (`pg/oauth.go:84`) goes through after the commit, as its second check
  (`internal/service/oauth.go:142`) looks at status and access alone. Likewise an `Authorize` past its checks inserts its code afterwards.

**Bounds.** Two concurrent operations: every pairwise interleaving, any two operations in any order
one after the other, and the two-transaction deadlocks. One user: no transaction touches
two accounts, and users meet only at the advisory lock, which two operations on one user already contend for.
Two projects where events are sent to several (`access_family`, `account_family`), so that a visit can be interrupted half-way;
one for liveness. `MaxEvents` bounds the ids: an operation that writes events starts only
while `nextId <= MaxEvents`; one that has started finishes, so the number of ids may exceed it by the
events of the running operations. Two or three are enough for an event, a second
operation that reads what the first left, and one overtaking. The accounts start `pending` or `active`, with or without
access, as registration and grants leave them.

`RefreshTokens`: one user and project, since a family never leaves them and revocation by user or project then
covers all of it; one code, from which all families would descend; three tokens, so that a token can be rotated, presented
again, and rotated beside that (four where a reuse has to meet a rotation); two requests. `token_families` has two clients of the project, so
that a code or token can be presented by the other client. A request that finds no token value left
ends without effect. `startup`: two processes contend for both locks, two keys are one that is retired and one that follows
(the theorems hold for any number), `Publication` is the least the assumption allows, and five ticks see a retired key through
its publication and past it. Every initial version from 0 to one above the newest, with and without early tables.

`accounts`: one account, since no transaction touches two; two passwords, the present and another; two links, so that one can be deleted by the
operation that uses the other; two sessions; a limit of one attempt. Values of links and sessions are used
again once nothing refers to them, and nothing bounds the length of a run. Two requests: every pairwise interleaving and every cycle of two waits.

`delivery`: over HTTP three users of which two start with access, two roles, two projects and pages of one row, so that pages, users past a page's end and
events of another project occur; two events after the start and two faults. Over Kafka two publishers, two rows
with either order of `created_at`, one failed send or crash per row, and a writer that tries twice (`WriterTries`, 10 in the library: two are one
try that is acknowledged and one that was not), so that acknowledged and failed sends alike leave copies behind. As
publishers do not look at what they send, all events of that half are about one user.

**Symmetry.** Slots of transactions are interchangeable (`TxSymmetry`), as are token values and slots of requests
(`TokenSymmetry`; in `token_families` the clients too, `ClientSymmetry`), and passwords, links, sessions and slots of requests (`AccountSymmetry`); used only in runs without liveness.

**Fairness.** `FairSpec` assumes strong fairness of the steps of each running operation: a request's
goroutine issues its next statement, and a lock that becomes free again and again is
obtained, because PostgreSQL queues waiters. It assumes weak fairness of `DeadlockAbort`
(`deadlock_timeout`). Nothing forces operations to begin or to fail. `StartupSpec` assumes strong fairness of each process's
next statement, for the same reasons; nothing forces time to pass, processes to start, or to stop. `Delivery`: publishers tick every second
(weak fairness of `SelectRow`); a row that is sent again and again is acknowledged some time, and a result recorded some time (strong
fairness) - the broker comes back and processes live longer than a send. Without the first a row the broker can never accept blocks
the ones after it, as it does in the code. Applications ask and process what they get (weak fairness); that they load a second time is not assumed.

## Proofs

`AccessSyncProofs` proves, for every value of the constants allowed by the two assumptions
of `AccessSync`, an inductive invariant `LockInv`: types, together with what `TypeOK` does not say and
its induction needs. A running operation is at a statement of its own program, with a
project wherever the statement uses one (`Running`), and a lock is held only
by an operation inside a transaction that has prepared the new version of the account it has locked (`HeldByTransactions`). The lemmas about `Program`
(`FlowOfRows`, `FlowOfEvents`, ...) are checked by cases over the fifteen operations. From it follow

* `LocksHeld` and `TypeCorrect` (`TypeOK`);
* `CursorsAreSafe` (`CursorSafe`): with `CursorInv` - allocated ids are below `nextId`, and
  uncommitted ids are above all committed ones because only the holder of the advisory lock has any;
* `ReplicasFollow` (`FeedMatchesTable`), `FeedIsImplemented` (`ImplementsSyncFeed`) and `DisabledAreReported`
  (`DisabledIsReported`), for the operations of one family, see below;
* `RequestsDecidedOnce` (`DecidedOnce`): a claimed request stays pending, since every
  other write of it needs the lock or finds it pending already;
* `AdministratorsStayActive` (`AdminsStayActive`): the new version of a locked account row keeps
  "administrator implies active", and the row cannot change between the lock and the commit.

The theorems about replicas have one hypothesis, `OneFamily`: `Ops` has no `EnsureBootstrap`, and either none of the operations
that grant or revoke (`Writers`), or none that changes what is told of a row it does not lock (`Rewriters`: the two profile
updates and `DisableAccount`). The families of the runs `access_family` and `account_family` meet it, and it cannot be dropped: `grant_during_disable`,
`stale_profile_event` and `bootstrap_without_event` are the counterexamples. Their inductive invariant
(`FamiliesAgree`) says of every operation under way what its commit will show:

* a writer from its row lock on holds the row; its one event, once queued, has the roles the commit writes, and a grant the
  profile of an account that is still active (`WriterOK`);
* an account operation past its `UPDATE` holds the account, and the row it prepared is made of the committed one (`HolderOK`);
* a rewriter has told, is at, or has still to tell each project the user has access to, each once and as the
  commit will leave it, and `DisableAccount` has locked, is at, or has still to lock all of their rows (`VisitsOK`);
* nobody else has an event about a row (`SilentOK`), locks of a kind are held by operations of that kind (`HoldersOK`), and whoever
  has access is active (`ActiveOK`).

So at a commit there is one event about each row that changes, and its `Effect` is the row (`CommitShows`). As its id is above
all earlier ones (`CursorInv`), the commit is a step of `Publish` (`CommitPublishes`) and the event is what a replica shows
(`CommitMatches`); every other step stutters (`OnlyCommitsShow`). A user who is disabled is not in the snapshot, hence in no replica.
`RolesChangeWithTheirEvent`: within a family, whatever changes the roles of a row writes an event of that row in the same
transaction, as rule 4 of docs/code-architecture.ru.md asks. The bootstrap, which is in no family, is one exception; the
interleaving of `grant_during_disable` can be the other, so the hypothesis is needed here too: a grant that commits between the disabling's list of
projects and its `DELETE` is deleted without an event.

`RefreshTokensProofs` proves `FamilyInv`: types, including that a request is at a statement of its operation, that only
existing rows are locked, and that token values under way are unused and distinct (`Types`); a rotation holds the lock of the token
it found unspent, and the token is unspent still (`RotationsOK`); a consumed code belongs to one exchange
until its family exists (`ExchangesOK`); and of the tokens of a code at most one is neither used nor revoked
(`OneUnspent`). The last one needs the others: an insertion would make a second unspent token, were it not for the one the same
commit marks used, or for the code that no other exchange can have. `AtMostOneLive` (`OneLiveToken`) and
`DeadFamiliesStayDead` (`DeadFamilyStaysDead`) follow.

It then adds `PasswordInv`: past its `SELECT FOR UPDATE` a password change holds the account and no rotation
of the user's tokens is under way (`GuardsOK`), so that every unrevoked token is locked by it or still in what its snapshot
showed (`SweepsOK`), and likewise the codes (`HoldersOK`, `CodesSweptOK`). Of what exists at the commit nothing is left: `PasswordChangeEndsWhatWasIssued`
(`PasswordChangeEndsFamilies`).

`SignInProofs` proves the refinement `SignInsAreImplemented` (`ImplementsSignIns`). `FamilyInv` gives the one live token and the one exchange; what
it lacks is whose they are. `OwnersOK`: a token, and an exchange that has consumed a code, has the user and the client of the code
it descends from, since a consumption by another client rolls back and a successor copies its predecessor. Then each step of `RefreshTokens` is shown
to be one of `SignIns`: `CreateAuthorizationCode` is `Authorize`, the first token is `Issue` (of a code that was spent and has no
token yet: `ExchangesOK`), the commit of a rotation is `Refresh` (its predecessor was the one live token: `RotationsOK`,
`OneUnspent`), a consumption or a commit that revokes is `Withdraw`, and the others change neither codes nor tokens. An expired
family has tokens, so one that begins has not expired: its first token is live.

`StartupProofs` proves first, about `SigningKeys` alone, `KeysInv` for all periods that meet `PeriodsAssumption`. Between its
`UPDATE` and its commit a rotation holds the lock, so the rows it retired are still the active ones (`LockOK`, `RowsOK`), and
the new key is its own (`NewKeysOK`). `ReadKeysOK` is the heart: a key read for signing at time `at` is published until
`at + Publication - MaxRotation` at least, since a transaction that retires it later began no earlier than
`MaxRotation` before its commit. A signature adds at most `MaxSigning + Lifetime` to `at` (`TimesOK`), hence `RetiredOK`: a retired key
outlasts its tokens. From it `TokensVerify` (`UnexpiredVerify`), `ActiveKeyUnique` (`OneActiveKey`) and `ServingFindsKey` (`ServingHasKey`).

Its second part shows that a start, whose `KeyNext` and `CommitMigrations` are steps of `SigningKeys` and whose other steps stutter, implements
`SigningKeys` (`StartupImplementsKeys`), so that the theorems above hold of it. `MigrationInv` says that who has read the version
holds the advisory lock and the version is still so (`OpenersOK`); the commit of its holder then runs exactly the missing migrations:
`MigrationsRunOnce` (`MigratedOnce`), `ServersKnowSchema` (`KnownSchemaServed`), and `StartupTypes` (`StartupTyped`).

`AccountsProofs` proves `AccountsInv`. A request past the statement that locks its account holds the row and nobody else does
(`AccountLocksOK`), so what it found there is still so at its commit: the password a login has compared, the status that is not
"disabled" (`RowsOK`). With it goes what a commit relies on: sessions have the password of their account, which is not disabled
(`SessionsOK`), since a request that changes either deletes them all in the same commit, and a login that commits later has read the new row;
an address to insert is free and nobody else's (`InsertsOK`); a
link in use is locked and there (`LinkLocksOK`), links keep their kind and account (`KindsOK`), and a `ChangePassword` has locked every link to reset the
password (`SweepsOK`), which a reset past its link would hold. The theorems are `AccountsTypes` (`TypeOK`), `NoSessionOutlivesItsPassword`
(`SessionsFollowPassword`), `DisabledAccountsHaveNoSession` (`NoSessionOfDisabled`), `AttemptsLimited` (`ComparisonsLimited`; on top of `AccountsInv` it needs `CountsOK`: the comparisons
made and the logins still to compare are together no more than the attempts, nor than the limit), `OnlyResetsCanDeadlock`
(`OnlyResetsDeadlock`: the links a password change waits for are links to reset the password, which only resets hold; without it no
member of a cycle that holds an account waits for anything, and one that holds a link waits for an account), and the action
properties `PasswordsChangeEarned`, `LinksAreUsedOnce`, `ChangesEndResetLinks` and `NoAccountReplaced` (`AccountsKept`).

`DeliveryProofs` proves an invariant of each half of `Delivery`. `OutboxInv`: a publisher with a row has locked it, the row is pending, and
in the topic once it was acknowledged (`WorkOK`); the copies of an event, in the topic or under way, are no more than the tries of its recorded
attempts, of the transactions cut off and of the one send still to be recorded (`CopiesOK`). From it `PublishedRowsAreInTopic` (`PublishedIsInTopic`) and
`CopiesComeFromFailures` (`DuplicatesFromFailures`). `ConsumerInv`: the table is what the whole journal makes of the initial one
(`TableOK`), and an entry is within reach of a cursor if it is what some prefix of the journal, no shorter than the cursor, makes of it (`WithinReach`). The rows
staged so far are within reach of the first page's cursor (`LoadOK`), an answer under way lists the users up to its end and leaves out
only users without access (`SnapshotOK`), or has all events of the project up to its cursor (`ChangesOK`). The steps
are that a longer journal keeps earlier prefixes (`JournalGrows`), and that applying the events after a cursor brings an entry within
reach of the next one. `CopiesStayWithinReach` (`CopyWithinReach`) and `DeliveryTypes` follow; sets of events are finite and have a latest one
by `FiniteSetTheorems` and the well-foundedness of `<` on the naturals.

`EventsAreReadInTurn` (`EventsReadInTurn`) needs `LoadIsLater` besides: the cursor and the pages of a full load under way are no earlier than the stored
cursor, because that moves only when the load ends. It is the reason why an application may repeat a load at any time.

Assumptions, all evaluated by TLC in the runs: constants that stand for nothing (`None`, `Nothing`) are no transaction, project, row or
number; initial tables have the type of the tables; bounds are naturals; an outbox row has the number of its event
(`EventsAssumption`). `PeriodsAssumption` is the one the code does not enforce, see above.

Every safety invariant and action property of the passing runs is proved. Only model-checked are the liveness properties `EveryOperationEnds`,
`OpeningEnds`, `EveryRowReachesTopic` and `CopyFollows`: fairness and `ENABLED` are out of the prover's reach. The violations are found
by TLC and need no proof.

## Plan

1. Properties for the hazards that have none, such as the order in which several publishers send events of one user.
2. Theorems that need no hypothesis on `Ops`: what of the feed holds when both families run at once (the ids, and the rows whose
   accounts no rewriter touches).
3. The registration of clients and projects, and the import's own journal events.

## Not modelled

* Parsing, form tokens, pages, status codes and the gRPC encoding of the transports; addresses behind proxies. They keep nothing.
* Registration of clients and projects (`RegisterClient`): one transaction of upserts by an operator; nothing removes what it
  writes, and the other components read it once per request.
* Listeners and the graceful shutdown (`cmd/sso/main.go`): to the database a request that is cut off is one that failed.
* Environment variables, cryptography, SMTP and JSON, beyond what is said above about hashes, random tokens and mail.
* What the statements of a migration do, and migrations of later releases.
* The retention of the journal, which the code does not delete; clocks that differ.
